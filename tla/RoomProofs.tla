----------------------------- MODULE RoomProofs -----------------------------
(***************************************************************************)
(* Proofs about Room, for any finite set of connections and any set of     *)
(* pushers.  Four inductive invariants carry them.  With any overlap:      *)
(* OrderInv, that every pointer of the list, even one loaded or stored by  *)
(* racing DeleteChannel calls, leads from a later arrival to an earlier    *)
(* one (Next) or back (Prev); CountInv, that lost updates only ever leave  *)
(* OnlineCount too high while somebody is inside.  Of DeleteChannel calls  *)
(* that do not overlap: SerialCount, that the count is exact, and          *)
(* SerialLinks, that the list is.                                          *)
(***************************************************************************)
EXTENDS Room, FiniteSetTheorems, TLAPS

(***************************************************************************)
(* Types                                                                   *)
(***************************************************************************)

(* Every variable of Room keeps its type. *)
THEOREM TypeCorrect == Spec => []TypeOK
<1>1. Init => TypeOK
  <2> SUFFICES ASSUME Init PROVE TypeOK
    OBVIOUS
  <2>1. loc \in [Channels -> [n : Pointers, p : Pointers, k : Int]]
    BY DEF Init, Pointers, NoLocals
  <2>2. pc \in [Channels -> {"new", "locking", "member", "refused", "closing", "80"}
                            \cup Deleting \cup Returned]
    BY DEF Init
  <2>3. /\ next \in [Channels -> Pointers] /\ prev \in [Channels -> Pointers]
        /\ head \in Pointers /\ cursor \in [Pushers -> Pointers]
    BY DEF Init, Pointers
  <2>4. OnlineCount \in Int /\ joins \in Nat
    BY DEF Init
  <2>6. drop \in BOOLEAN
    BY Zenon DEF Init
  <2>5. /\ pushing \subseteq Pushers /\ visited \in [Pushers -> SUBSET Channels]
        /\ rank \in [Channels -> Nat]
    BY DEF Init
  <2> QED
    BY <2>1, <2>2, <2>3, <2>4, <2>5, <2>6 DEF TypeOK
<1>2. TypeOK /\ [Next]_vars => TypeOK'
  <2> SUFFICES ASSUME TypeOK, [Next]_vars PROVE TypeOK'
    OBVIOUS
  <2> USE DEF TypeOK, Pointers, Goto, links, walk, hist, NoLocals, Deleting, Before74, Returned
  <2>1. ASSUME NEW c \in Channels, PutLock(c) PROVE TypeOK'
    BY <2>1 DEF PutLock
  <2>2. ASSUME NEW c \in Channels, PutLink(c) PROVE TypeOK'
    BY <2>2 DEF PutLink
  <2>3. ASSUME NEW c \in Channels, PutRefused(c) PROVE TypeOK'
    BY <2>3 DEF PutRefused
  <2>4. ASSUME NEW c \in Channels, Disconnect(c) PROVE TypeOK'
    BY <2>4 DEF Disconnect
  <2>5. ASSUME NEW c \in Channels, DeleteRLock(c) PROVE TypeOK'
    BY <2>5, SMTT(20) DEF DeleteRLock
  <2>6. ASSUME NEW c \in Channels, LoadPrevOfNext(c) PROVE TypeOK'
    BY <2>6 DEF LoadPrevOfNext
  <2>61. ASSUME NEW c \in Channels, ReloadNext(c) PROVE TypeOK'
    BY <2>61, SMTT(20) DEF ReloadNext
  <2>62. ASSUME NEW c \in Channels, ReloadPrev(c) PROVE TypeOK'
    BY <2>62, SMTT(20) DEF ReloadPrev
  <2>63. ASSUME NEW c \in Channels, NilNext(c) \/ NilPrev(c) PROVE TypeOK'
    BY <2>63 DEF NilNext, NilPrev
  <2>7. ASSUME NEW c \in Channels, StorePrevOfNext(c) PROVE TypeOK'
    BY <2>7 DEF StorePrevOfNext
  <2>8. ASSUME NEW c \in Channels, LoadPrev(c) PROVE TypeOK'
    BY <2>8 DEF LoadPrev
  <2>9. ASSUME NEW c \in Channels, LoadNext(c) PROVE TypeOK'
    BY <2>9 DEF LoadNext
  <2>10. ASSUME NEW c \in Channels, StoreNext(c) \/ StoreHead(c) PROVE TypeOK'
    BY <2>10 DEF StoreNext, StoreHead
  <2>11. ASSUME NEW c \in Channels, LoadCount(c) PROVE TypeOK'
    BY <2>11 DEF LoadCount
  <2>12. ASSUME NEW c \in Channels, StoreCount(c) PROVE TypeOK'
    BY <2>12 DEF StoreCount
  <2>13. ASSUME NEW c \in Channels, ClearDrop(c) PROVE TypeOK'
    BY <2>13 DEF ClearDrop
  <2>14. ASSUME NEW c \in Channels, TestCount(c) PROVE TypeOK'
    BY <2>14 DEF TestCount
  <2>15. ASSUME NEW c \in Channels, SetDrop(c) PROVE TypeOK'
    BY <2>15 DEF SetDrop
  <2>16. ASSUME NEW c \in Channels, ReturnDrop(c) PROVE TypeOK'
    BY <2>16 DEF ReturnDrop
  <2>17. ASSUME NEW p \in Pushers, PushBegin(p) PROVE TypeOK'
    BY <2>17 DEF PushBegin
  <2>18. ASSUME NEW p \in Pushers, PushTo(p) PROVE TypeOK'
    BY <2>18 DEF PushTo
  <2>19. ASSUME NEW p \in Pushers, PushEnd(p) PROVE TypeOK'
    BY <2>19 DEF PushEnd
  <2>20. CASE UNCHANGED vars
    BY <2>20 DEF vars
  <2> QED
    BY <2>1, <2>2, <2>3, <2>4, <2>5, <2>6, <2>61, <2>62, <2>63, <2>7, <2>8, <2>9, <2>10, <2>11, <2>12,
       <2>13, <2>14, <2>15, <2>16, <2>17, <2>18, <2>19, <2>20 DEF Next, DeleteStep
<1> QED
  BY <1>1, <1>2, PTL DEF Spec

(***************************************************************************)
(* The order of the list                                                   *)
(***************************************************************************)

(* A pointer downwards, from c to a: nil, or an earlier arrival. *)
Below(c, a) == a # Nil => rank[a] > 0 /\ rank[c] > rank[a]
(* A pointer upwards, from c to a: nil, or a later arrival. *)
Above(c, a) == a # Nil => rank[c] > 0 /\ rank[a] > rank[c]

OrderInv ==
    /\ \A c \in Channels : rank[c] <= joins
    /\ \A c \in Channels : pc[c] \in {"new", "locking"} => rank[c] = 0
    /\ \A c \in Channels : Below(c, next[c]) /\ Above(c, prev[c])
    /\ \A c \in Channels : Below(c, loc[c].n) /\ Above(c, loc[c].p)
    /\ \A c \in Channels : /\ pc[c] \in {"66", "66p", "66w"} => loc[c].n # Nil
                           /\ pc[c] \in {"70", "70n", "70w"} => loc[c].p # Nil
                           /\ pc[c] \in {"72", "72w"} => loc[c].p = Nil
    /\ head # Nil => rank[head] > 0
    /\ \A p \in pushing :
          /\ cursor[p] # Nil => rank[cursor[p]] > 0
          /\ \A v \in visited[p] : cursor[p] # Nil => rank[v] > rank[cursor[p]]
    /\ \A p \in Pushers \ pushing : visited[p] = {}

(* Every pointer leads from a later arrival to an earlier one, or back, in every
   interleaving of DeleteChannel calls. *)
THEOREM OrderCorrect == Spec => []OrderInv
<1>1. Init => OrderInv
  BY NilAssumption DEF Init, OrderInv, Below, Above, NoLocals
<1>2. TypeOK /\ OrderInv /\ [Next]_vars => OrderInv'
  <2> SUFFICES ASSUME TypeOK, OrderInv, [Next]_vars PROVE OrderInv'
    OBVIOUS
  <2> USE NilAssumption DEF TypeOK, OrderInv, Below, Above, Pointers, Goto, links, walk, hist
  <2>1. ASSUME NEW c \in Channels, PutLock(c) PROVE OrderInv'
    BY <2>1 DEF PutLock
  <2>2. ASSUME NEW c \in Channels, PutLink(c) PROVE OrderInv'
    BY <2>2 DEF PutLink, ReadLocked
  <2>3. ASSUME NEW c \in Channels, PutRefused(c) PROVE OrderInv'
    BY <2>3 DEF PutRefused
  <2>4. ASSUME NEW c \in Channels, Disconnect(c) PROVE OrderInv'
    BY <2>4 DEF Disconnect
  <2>5. ASSUME NEW c \in Channels, DeleteRLock(c) PROVE OrderInv'
    BY <2>5 DEF DeleteRLock
  <2>6. ASSUME NEW c \in Channels, LoadPrevOfNext(c) PROVE OrderInv'
    BY <2>6 DEF LoadPrevOfNext
  <2>61. ASSUME NEW c \in Channels, ReloadNext(c) PROVE OrderInv'
    BY <2>61, SMTT(20) DEF ReloadNext
  <2>62. ASSUME NEW c \in Channels, ReloadPrev(c) PROVE OrderInv'
    BY <2>62, SMTT(20) DEF ReloadPrev
  <2>63. ASSUME NEW c \in Channels, NilNext(c) \/ NilPrev(c) PROVE OrderInv'
    BY <2>63 DEF NilNext, NilPrev
  <2>7. ASSUME NEW c \in Channels, StorePrevOfNext(c) PROVE OrderInv'
    BY <2>7 DEF StorePrevOfNext
  <2>8. ASSUME NEW c \in Channels, LoadPrev(c) PROVE OrderInv'
    BY <2>8 DEF LoadPrev
  <2>9. ASSUME NEW c \in Channels, LoadNext(c) PROVE OrderInv'
    BY <2>9 DEF LoadNext
  <2>10. ASSUME NEW c \in Channels, StoreNext(c) \/ StoreHead(c) PROVE OrderInv'
    <3>1. CASE StoreHead(c)
      BY <3>1 DEF StoreHead
    <3>2. CASE StoreNext(c)
      BY <3>2 DEF StoreNext
    <3> QED
      BY <2>10, <3>1, <3>2
  <2>11. ASSUME NEW c \in Channels, LoadCount(c) PROVE OrderInv'
    BY <2>11 DEF LoadCount
  <2>12. ASSUME NEW c \in Channels, StoreCount(c) PROVE OrderInv'
    BY <2>12 DEF StoreCount
  <2>13. ASSUME NEW c \in Channels, ClearDrop(c) PROVE OrderInv'
    BY <2>13 DEF ClearDrop
  <2>14. ASSUME NEW c \in Channels, TestCount(c) PROVE OrderInv'
    BY <2>14 DEF TestCount
  <2>15. ASSUME NEW c \in Channels, SetDrop(c) PROVE OrderInv'
    BY <2>15 DEF SetDrop
  <2>16. ASSUME NEW c \in Channels, ReturnDrop(c) PROVE OrderInv'
    BY <2>16 DEF ReturnDrop, NoLocals
  <2>17. ASSUME NEW p \in Pushers, PushBegin(p) PROVE OrderInv'
    BY <2>17 DEF PushBegin
  <2>18. ASSUME NEW p \in Pushers, PushTo(p) PROVE OrderInv'
    BY <2>18 DEF PushTo
  <2>19. ASSUME NEW p \in Pushers, PushEnd(p) PROVE OrderInv'
    BY <2>19 DEF PushEnd
  <2>20. CASE UNCHANGED vars
    BY <2>20 DEF vars
  <2> QED
    BY <2>1, <2>2, <2>3, <2>4, <2>5, <2>6, <2>61, <2>62, <2>63, <2>7, <2>8, <2>9, <2>10, <2>11, <2>12,
       <2>13, <2>14, <2>15, <2>16, <2>17, <2>18, <2>19, <2>20 DEF Next, DeleteStep
<1> QED
  BY <1>1, <1>2, TypeCorrect, PTL DEF Spec

(* No walk of Push meets a connection twice: the walk only goes to earlier arrivals. *)
THEOREM NoRepeat == Spec => []NoRepeatVisit
<1>1. TypeOK /\ OrderInv => NoRepeatVisit
  <2> SUFFICES ASSUME TypeOK, OrderInv, NEW p \in pushing, cursor[p] \in visited[p]
               PROVE FALSE
    BY DEF NoRepeatVisit
  <2>1. cursor[p] \in Channels
    BY DEF TypeOK
  <2>2. rank[cursor[p]] > rank[cursor[p]]
    BY <2>1, NilAssumption DEF OrderInv
  <2>3. rank[cursor[p]] \in Nat
    BY <2>1 DEF TypeOK
  <2> QED
    BY <2>2, <2>3
<1> QED
  BY <1>1, TypeCorrect, OrderCorrect, PTL

(***************************************************************************)
(* The count and the drop mark                                             *)
(***************************************************************************)

(* A DeleteChannel that is bound to set drop, or may be by its register. *)
Signals(c) == pc[c] = "77" \/ (pc[c] \in {"75", "76"} /\ loc[c].k <= 1)

PhaseRank ==
    \A c \in Channels :
       /\ pc[c] \in {"new", "locking", "refused"} => rank[c] = 0
       /\ pc[c] = "member" => rank[c] > 0
(* A register holding the count covers those inside, as the count does. *)
LocalCovers == \A c \in Members : pc[c] = "74w" => loc[c].k >= Cardinality(Members)
SignalEmpty ==
    drop \/ (\E c \in Channels : Signals(c)) => Members = {} /\ OnlineCount <= 0
(* After a refusal nobody is inside, nor will be: the mark is up or about to be put up again. *)
RefusedEmpty ==
    Refusals # {} =>
       /\ Members = {} /\ OnlineCount <= 0
       /\ \A c \in Channels : pc[c] \in {"74w", "75", "76"} => loc[c].k <= 0
       /\ drop \/ \E c \in Channels : pc[c] \in {"75", "76", "77"}
NegativeRefused == OnlineCount < 0 => Refusals # {}
SomeoneCame ==
    (\E c \in Channels : pc[c] \notin {"new", "locking"}) => \E c \in Channels : rank[c] > 0

CountInv ==
    /\ PhaseRank
    /\ CountCovers
    /\ LocalCovers
    /\ SignalEmpty
    /\ RefusedEmpty
    /\ NegativeRefused
    /\ DropReported
    /\ SomeoneCame

(* Members is a finite set: its cardinality is a number, 0 only when it is empty, and it
   changes by one when a connection joins or leaves. *)
LEMMA MembersFinite ==
    /\ IsFiniteSet(Members)
    /\ Cardinality(Members) \in Nat
    /\ Members # {} => Cardinality(Members) >= 1
<1>1. IsFiniteSet(Members)
  BY FiniteAssumption, FS_Subset DEF Members
<1> QED
  BY <1>1, FS_CardinalityType, FS_EmptySet

LEMMA MembersAdd ==
    ASSUME NEW c \in Channels, c \notin Members
    PROVE  Cardinality(Members \cup {c}) = Cardinality(Members) + 1
  BY MembersFinite, FS_AddElement

LEMMA MembersRemove ==
    ASSUME NEW c \in Members
    PROVE  /\ Cardinality(Members \ {c}) = Cardinality(Members) - 1
           /\ IsFiniteSet(Members \ {c})
           /\ Cardinality(Members) = 1 => Members \ {c} = {}
<1>1. Cardinality(Members \ {c}) = Cardinality(Members) - 1 /\ IsFiniteSet(Members \ {c})
  BY MembersFinite, FS_RemoveElement
<1> QED
  BY <1>1, FS_EmptySet

(* A step before line 74 leaves the count, the mark and who is inside alone: it keeps
   CountInv whatever it does to the list. *)
Tail == {"74w", "75", "76", "77", "80", "dropped"}

LEMMA CountFrame ==
    ASSUME TypeOK, CountInv,
           OnlineCount' = OnlineCount, drop' = drop, rank' = rank,
           Members' = Members, Refusals' = Refusals,
           \A d \in Channels : /\ pc[d] \in Tail \/ pc'[d] \in Tail => pc'[d] = pc[d]
                               /\ loc'[d].k = loc[d].k
                               /\ pc'[d] = "locking" => pc[d] \in {"new", "locking"}
                               /\ pc'[d] \in {"new", "member", "refused"} => pc[d] = pc'[d]
                               /\ pc[d] \in {"new", "locking"} => pc'[d] \in {"new", "locking"}
    PROVE  CountInv'
<1> USE DEF CountInv, CountCovers, DropReported, Signals, Tail, TypeOK,
            PhaseRank, LocalCovers, SignalEmpty, RefusedEmpty, NegativeRefused, SomeoneCame
<1>1. PhaseRank' /\ CountCovers' /\ NegativeRefused' /\ DropReported'
  OBVIOUS
<1>2. LocalCovers'
  BY DEF Members
<1>3. \A c \in Channels : Signals(c)' => Signals(c)
  OBVIOUS
<1>4. SignalEmpty'
  BY <1>3
<1>5. RefusedEmpty' /\ SomeoneCame'
  OBVIOUS
<1> QED
  BY <1>1, <1>2, <1>4, <1>5

(* The count never falls below the number of connections inside, and the drop mark only
   goes up in an empty room, in every interleaving. *)
THEOREM CountCorrect == Spec => []CountInv
<1> USE DEF CountInv, CountCovers, DropReported, Signals,
            PhaseRank, LocalCovers, SignalEmpty, RefusedEmpty, NegativeRefused, SomeoneCame
<1>1. Init => CountInv
  <2> SUFFICES ASSUME Init PROVE CountInv
    OBVIOUS
  <2>1. Members = {} /\ Refusals = {}
    BY DEF Init, Members, Refusals
  <2>2. ~drop
    BY DEF Init
  <2> QED
    BY <2>1, <2>2 DEF Init
<1>2. TypeOK /\ CountInv /\ [Next]_vars => CountInv'
  <2> SUFFICES ASSUME TypeOK, CountInv, [Next]_vars PROVE CountInv'
    OBVIOUS
  <2> USE DEF TypeOK, Goto, links, walk, hist
  <2>1. ASSUME NEW c \in Channels, PutLock(c) PROVE CountInv'
    <3>1. Members' = Members /\ Refusals' = Refusals
      BY <2>1 DEF PutLock, Members, Refusals, Before74
    <3>2. OnlineCount' = OnlineCount /\ drop' = drop /\ rank' = rank
      BY <2>1 DEF PutLock
    <3>3. \A d \in Channels : /\ loc'[d].k = loc[d].k
                              /\ d # c => pc'[d] = pc[d]
      BY <2>1 DEF PutLock
    <3> QED
      BY <2>1, <3>1, <3>2, <3>3, CountFrame DEF PutLock, Tail
  <2>2. ASSUME NEW c \in Channels, PutLink(c) PROVE CountInv'
    <3>1. \A d \in Channels : pc[d] \notin Deleting
      BY <2>2 DEF PutLink, ReadLocked
    <3>2. Refusals = {} /\ ~drop /\ OnlineCount >= 0
      BY <2>2, <3>1 DEF PutLink, Deleting, Before74
    <3>3. c \notin Members /\ Members' = Members \cup {c} /\ Refusals' = {}
      BY <2>2, <3>2 DEF PutLink, Members, Refusals, Before74
    <3>4. Cardinality(Members') = Cardinality(Members) + 1
      BY <3>3, MembersAdd
    <3>5. OnlineCount' >= Cardinality(Members')
      BY <2>2, <3>2, <3>4, MembersFinite, FS_EmptySet DEF PutLink
    <3>6. \A d \in Channels : /\ ~Signals(d)' /\ pc'[d] \notin {"74w", "75", "76", "77"}
                              /\ d # c => pc'[d] = pc[d] /\ rank'[d] = rank[d]
      BY <2>2, <3>1 DEF PutLink, Deleting, Before74
    <3>7. /\ pc'[c] = "member" /\ rank'[c] > 0 /\ drop' = drop /\ OnlineCount' > 0
      BY <2>2, <3>2 DEF PutLink
    <3>8. PhaseRank' /\ SomeoneCame'
      BY <3>6, <3>7
    <3>9. CountCovers'
      BY <3>5
    <3>11. LocalCovers'
      BY <3>6 DEF Members
    <3>12. OnlineCount' \in Int
      BY <2>2 DEF PutLink
    <3>13. NegativeRefused'
      BY <3>7, <3>12
    <3>10. SignalEmpty' /\ RefusedEmpty' /\ DropReported'
      BY <3>2, <3>3, <3>6, <3>7
    <3> QED
      BY <3>8, <3>9, <3>10, <3>11, <3>13
  <2>3. ASSUME NEW c \in Channels, PutRefused(c) PROVE CountInv'
    <3>1. \A d \in Channels : pc[d] \notin Deleting
      BY <2>3 DEF PutRefused, ReadLocked
    <3>2. drop /\ Members = {} /\ OnlineCount <= 0
      BY <2>3 DEF PutRefused
    <3>3. Members' = Members /\ Refusals' # {}
      BY <2>3 DEF PutRefused, Members, Refusals, Before74
    <3>4. \A d \in Channels : pc'[d] \notin {"74w", "75", "76", "77"}
      BY <2>3, <3>1 DEF PutRefused, Deleting, Before74
    <3> QED
      BY <2>3, <3>2, <3>3, <3>4 DEF PutRefused
  <2>4. ASSUME NEW c \in Channels, Disconnect(c) PROVE CountInv'
    <3>1. Members' = Members /\ Refusals' = Refusals
      BY <2>4 DEF Disconnect, Members, Refusals, Before74
    <3>2. OnlineCount' = OnlineCount /\ drop' = drop /\ rank' = rank
      BY <2>4 DEF Disconnect
    <3>3. \A d \in Channels : /\ loc'[d].k = loc[d].k
                              /\ d # c => pc'[d] = pc[d]
      BY <2>4 DEF Disconnect
    <3> QED
      BY <2>4, <3>1, <3>2, <3>3, CountFrame DEF Disconnect, Tail
  <2>5. ASSUME NEW c \in Channels, DeleteRLock(c) PROVE CountInv'
    <3>1. Members' = Members /\ Refusals' = Refusals
      BY <2>5 DEF DeleteRLock, Members, Refusals, Before74
    <3>2. OnlineCount' = OnlineCount /\ drop' = drop /\ rank' = rank
      BY <2>5 DEF DeleteRLock
    <3>3. \A d \in Channels : /\ loc'[d].k = loc[d].k
                              /\ d # c => pc'[d] = pc[d]
      BY <2>5 DEF DeleteRLock
    <3> QED
      BY <2>5, <3>1, <3>2, <3>3, CountFrame DEF DeleteRLock, Tail
  <2>6. ASSUME NEW c \in Channels, LoadPrevOfNext(c) PROVE CountInv'
    <3>1. Members' = Members /\ Refusals' = Refusals
      BY <2>6 DEF LoadPrevOfNext, Members, Refusals, Before74
    <3>2. OnlineCount' = OnlineCount /\ drop' = drop /\ rank' = rank
      BY <2>6 DEF LoadPrevOfNext
    <3>3. \A d \in Channels : /\ loc'[d].k = loc[d].k
                              /\ d # c => pc'[d] = pc[d]
      BY <2>6 DEF LoadPrevOfNext
    <3> QED
      BY <2>6, <3>1, <3>2, <3>3, CountFrame DEF LoadPrevOfNext, Tail
  <2>61. ASSUME NEW c \in Channels, ReloadNext(c) PROVE CountInv'
    <3>1. Members' = Members /\ Refusals' = Refusals
      BY <2>61 DEF ReloadNext, Members, Refusals, Before74
    <3>2. OnlineCount' = OnlineCount /\ drop' = drop /\ rank' = rank
      BY <2>61 DEF ReloadNext
    <3>3. \A d \in Channels : /\ loc'[d].k = loc[d].k
                              /\ d # c => pc'[d] = pc[d]
      BY <2>61 DEF ReloadNext
    <3> QED
      BY <2>61, <3>1, <3>2, <3>3, CountFrame DEF ReloadNext, Tail
  <2>62. ASSUME NEW c \in Channels, ReloadPrev(c) PROVE CountInv'
    <3>1. Members' = Members /\ Refusals' = Refusals
      BY <2>62 DEF ReloadPrev, Members, Refusals, Before74
    <3>2. OnlineCount' = OnlineCount /\ drop' = drop /\ rank' = rank
      BY <2>62 DEF ReloadPrev
    <3>3. \A d \in Channels : /\ loc'[d].k = loc[d].k
                              /\ d # c => pc'[d] = pc[d]
      BY <2>62 DEF ReloadPrev
    <3> QED
      BY <2>62, <3>1, <3>2, <3>3, CountFrame DEF ReloadPrev, Tail
  <2>63. ASSUME NEW c \in Channels, NilNext(c) \/ NilPrev(c) PROVE CountInv'
    <3>1. Members' = Members /\ Refusals' = Refusals
      BY <2>63 DEF NilNext, NilPrev, Members, Refusals, Before74
    <3>2. OnlineCount' = OnlineCount /\ drop' = drop /\ rank' = rank
      BY <2>63 DEF NilNext, NilPrev
    <3>3. \A d \in Channels : /\ loc'[d].k = loc[d].k
                              /\ d # c => pc'[d] = pc[d]
      BY <2>63 DEF NilNext, NilPrev
    <3> QED
      BY <2>63, <3>1, <3>2, <3>3, CountFrame DEF NilNext, NilPrev, Tail
  <2>7. ASSUME NEW c \in Channels, StorePrevOfNext(c) PROVE CountInv'
    <3>1. Members' = Members /\ Refusals' = Refusals
      BY <2>7 DEF StorePrevOfNext, Members, Refusals, Before74
    <3>2. OnlineCount' = OnlineCount /\ drop' = drop /\ rank' = rank
      BY <2>7 DEF StorePrevOfNext
    <3>3. \A d \in Channels : /\ loc'[d].k = loc[d].k
                              /\ d # c => pc'[d] = pc[d]
      BY <2>7 DEF StorePrevOfNext
    <3> QED
      BY <2>7, <3>1, <3>2, <3>3, CountFrame DEF StorePrevOfNext, Tail
  <2>8. ASSUME NEW c \in Channels, LoadPrev(c) PROVE CountInv'
    <3>1. Members' = Members /\ Refusals' = Refusals
      BY <2>8 DEF LoadPrev, Members, Refusals, Before74
    <3>2. OnlineCount' = OnlineCount /\ drop' = drop /\ rank' = rank
      BY <2>8 DEF LoadPrev
    <3>3. \A d \in Channels : /\ loc'[d].k = loc[d].k
                              /\ d # c => pc'[d] = pc[d]
      BY <2>8 DEF LoadPrev
    <3> QED
      BY <2>8, <3>1, <3>2, <3>3, CountFrame DEF LoadPrev, Tail
  <2>9. ASSUME NEW c \in Channels, LoadNext(c) PROVE CountInv'
    <3>1. Members' = Members /\ Refusals' = Refusals
      BY <2>9 DEF LoadNext, Members, Refusals, Before74
    <3>2. OnlineCount' = OnlineCount /\ drop' = drop /\ rank' = rank
      BY <2>9 DEF LoadNext
    <3>3. \A d \in Channels : /\ loc'[d].k = loc[d].k
                              /\ d # c => pc'[d] = pc[d]
      BY <2>9 DEF LoadNext
    <3> QED
      BY <2>9, <3>1, <3>2, <3>3, CountFrame DEF LoadNext, Tail
  <2>10. ASSUME NEW c \in Channels, StoreNext(c) \/ StoreHead(c) PROVE CountInv'
    <3>1. Members' = Members /\ Refusals' = Refusals
      BY <2>10 DEF StoreNext, StoreHead, Members, Refusals, Before74
    <3>2. OnlineCount' = OnlineCount /\ drop' = drop /\ rank' = rank
      BY <2>10 DEF StoreNext, StoreHead
    <3>3. \A d \in Channels : /\ loc'[d].k = loc[d].k
                              /\ d # c => pc'[d] = pc[d]
      BY <2>10 DEF StoreNext, StoreHead
    <3> QED
      BY <2>10, <3>1, <3>2, <3>3, CountFrame DEF StoreNext, StoreHead, Tail
  <2>11. ASSUME NEW c \in Channels, LoadCount(c) PROVE CountInv'
    <3>1. Members' = Members /\ Refusals' = Refusals
      BY <2>11 DEF LoadCount, Members, Refusals, Before74
    <3>2. loc'[c].k = OnlineCount
      BY <2>11 DEF LoadCount
    <3> QED
      BY <2>11, <3>1, <3>2 DEF LoadCount
  <2>12. ASSUME NEW c \in Channels, StoreCount(c) PROVE CountInv'
    <3>1. Members' = Members \ {c} /\ Refusals' = Refusals
      BY <2>12 DEF StoreCount, Members, Refusals, Before74
    <3>4. /\ OnlineCount' = loc[c].k - 1 /\ drop' = drop /\ rank' = rank /\ loc' = loc
          /\ pc[c] = "74w" /\ pc'[c] = "75"
          /\ \A d \in Channels \ {c} : pc'[d] = pc[d]
      BY <2>12 DEF StoreCount
    <3>2. CASE c \in Members
      <4>1. loc[c].k >= Cardinality(Members) /\ Cardinality(Members) >= 1
        BY <3>2, <3>4, MembersFinite
      <4>2. Cardinality(Members') = Cardinality(Members) - 1
        BY <3>1, <3>2, MembersRemove
      <4>3. Refusals = {} /\ ~drop /\ \A d \in Channels : ~Signals(d)
        BY <3>2
      <4>9. loc[c].k \in Int /\ Cardinality(Members) \in Nat
        BY MembersFinite
      <4>10. \A k \in Int, m \in Nat : k >= m /\ m >= 1 /\ k <= 1 => m = 1
        OBVIOUS
      <4>4. loc[c].k <= 1 => Cardinality(Members) = 1
        BY <4>1, <4>9, <4>10
      <4>5. loc[c].k <= 1 => Members' = {}
        BY <3>1, <3>2, <4>4, MembersRemove
      <4>6. OnlineCount' >= Cardinality(Members') /\ OnlineCount' >= 0
        BY <3>4, <4>1, <4>2, MembersFinite
      <4>7. LocalCovers'
        <5> SUFFICES ASSUME NEW d \in Members', pc'[d] = "74w"
                     PROVE  loc'[d].k >= Cardinality(Members')
          OBVIOUS
        <5>1. d \in Members /\ d \in Channels /\ pc[d] = "74w" /\ loc'[d].k = loc[d].k
          BY <3>1, <3>4 DEF Members
        <5>2. loc[d].k >= Cardinality(Members) /\ loc[d].k \in Int
          BY <5>1
        <5> QED
          BY <5>1, <5>2, <4>2, MembersFinite
      <4>8. \A d \in Channels : Signals(d)' => d = c /\ loc[c].k <= 1
        BY <3>4, <4>3
      <4>11. loc[c].k <= 1 => OnlineCount' <= 0
        BY <3>4, <4>9
      <4>12. SignalEmpty'
        BY <3>4, <4>3, <4>5, <4>8, <4>11
      <4>13. PhaseRank' /\ SomeoneCame' /\ DropReported'
        BY <3>4, <4>3
      <4>14. CountCovers' /\ RefusedEmpty'
        BY <3>1, <4>3, <4>6
      <4>15. OnlineCount' \in Int
        BY <3>4, <4>9
      <4>16. NegativeRefused'
        BY <4>6, <4>15
      <4> QED
        BY <4>7, <4>12, <4>13, <4>14, <4>16
    <3>3. CASE c \notin Members
      <4>1. c \in Refusals
        BY <3>3, <3>4 DEF Members, Refusals, Before74
      <4>2. Members = {} /\ loc[c].k <= 0
        BY <3>4, <4>1
      <4>3. loc[c].k \in Int /\ OnlineCount' < 0
        BY <3>4, <4>2
      <4>4. Members' = {} /\ Refusals' # {}
        BY <3>1, <4>1, <4>2
      <4>5. CountCovers' /\ LocalCovers' /\ NegativeRefused'
        BY <4>4
      <4>6. PhaseRank' /\ SomeoneCame' /\ DropReported'
        BY <3>4
      <4>7. SignalEmpty' /\ RefusedEmpty'
        BY <3>4, <4>1, <4>3, <4>4
      <4> QED
        BY <4>5, <4>6, <4>7
    <3> QED
      BY <3>2, <3>3
  <2>13. ASSUME NEW c \in Channels, ClearDrop(c) PROVE CountInv'
    <3>1. Members' = Members /\ Refusals' = Refusals
      BY <2>13 DEF ClearDrop, Members, Refusals, Before74
    <3> QED
      BY <2>13, <3>1 DEF ClearDrop
  <2>14. ASSUME NEW c \in Channels, TestCount(c) PROVE CountInv'
    <3>1. Members' = Members /\ Refusals' = Refusals
      BY <2>14 DEF TestCount, Members, Refusals, Before74
    <3>2. pc'[c] = "77" => Members = {} /\ OnlineCount <= 0
      BY <2>14, MembersFinite DEF TestCount
    <3>3. Refusals # {} => pc'[c] = "77"
      BY <2>14 DEF TestCount
    <3> QED
      BY <2>14, <3>1, <3>2, <3>3 DEF TestCount
  <2>15. ASSUME NEW c \in Channels, SetDrop(c) PROVE CountInv'
    <3>1. Members' = Members /\ Refusals' = Refusals
      BY <2>15 DEF SetDrop, Members, Refusals, Before74
    <3> QED
      BY <2>15, <3>1 DEF SetDrop
  <2>16. ASSUME NEW c \in Channels, ReturnDrop(c) PROVE CountInv'
    <3>1. Members' = Members /\ Refusals' = Refusals
      BY <2>16 DEF ReturnDrop, Members, Refusals, Before74
    <3> QED
      BY <2>16, <3>1 DEF ReturnDrop
  <2>17. ASSUME NEW p \in Pushers, PushBegin(p) PROVE CountInv'
    BY <2>17, CountFrame DEF PushBegin, Tail, Members, Refusals
  <2>18. ASSUME NEW p \in Pushers, PushTo(p) PROVE CountInv'
    BY <2>18, CountFrame DEF PushTo, Tail, Members, Refusals
  <2>19. ASSUME NEW p \in Pushers, PushEnd(p) PROVE CountInv'
    BY <2>19, CountFrame DEF PushEnd, Tail, Members, Refusals
  <2>20. CASE UNCHANGED vars
    BY <2>20, CountFrame DEF vars, Tail, Members, Refusals
  <2> QED
    BY <2>1, <2>2, <2>3, <2>4, <2>5, <2>6, <2>61, <2>62, <2>63, <2>7, <2>8, <2>9, <2>10, <2>11, <2>12,
       <2>13, <2>14, <2>15, <2>16, <2>17, <2>18, <2>19, <2>20 DEF Next, DeleteStep
<1> QED
  BY <1>1, <1>2, TypeCorrect, PTL DEF Spec

(* OnlineCount is never below the number of connections inside. *)
THEOREM CountNeverShort == Spec => []CountCovers
<1>1. CountInv => CountCovers
  BY DEF CountInv
<1> QED
  BY <1>1, CountCorrect, PTL

(* A room marked for removal is empty. *)
THEOREM DropOnlyEmpty == Spec => []DropMeansEmpty
<1>1. CountInv => DropMeansEmpty
  BY DEF CountInv, SignalEmpty, DropMeansEmpty
<1> QED
  BY <1>1, CountCorrect, PTL

(* The mark never stands without a DeleteChannel that tells the bucket of it. *)
THEOREM DropIsReported == Spec => []DropReported
<1>1. CountInv => DropReported
  BY DEF CountInv
<1> QED
  BY <1>1, CountCorrect, PTL

(***************************************************************************)
(* The room implements RoomMembership                                      *)
(***************************************************************************)

(* A step that changes neither who was linked, who is inside nor who was refused is a
   stuttering step of the abstract specification. *)
LEMMA StatusSame ==
    ASSUME rank' = rank, Members' = Members, Refusals' = Refusals
    PROVE  status' = status
<1>1. \A c \in Channels : rank[c] = 0 => (pc[c] \in {"new", "locking"} <=> c \notin Refusals)
  BY DEF Refusals
<1>2. (\A c \in Channels : rank[c] = 0 => (pc[c] \in {"new", "locking"} <=> c \notin Refusals))'
  BY DEF Refusals
<1> QED
  BY <1>1, <1>2 DEF status

(* With racing removals, lost decrements and links that go wrong, the room still keeps
   its promise: who is in, who was refused, and that it refuses only when all have left
   and for good. *)
THEOREM RoomImplements == Spec => Implements
<1>1. Init => Membership!Init
  BY DEF Init, Membership!Init, status
<1>2. TypeOK /\ CountInv /\ [Next]_vars => [Membership!Next]_status
  <2> SUFFICES ASSUME TypeOK, CountInv, [Next]_vars PROVE [Membership!Next]_status
    OBVIOUS
  <2> USE DEF Goto, links, walk, hist
  <2>1. ASSUME NEW c \in Channels, PutLink(c) PROVE Membership!Join(c)
    <3>1. Refusals = {}
      BY <2>1 DEF PutLink, CountInv, RefusedEmpty, ReadLocked, Deleting, Before74
    <3>2. /\ rank[c] = 0 /\ pc[c] = "locking" /\ pc'[c] = "member" /\ rank'[c] > 0 /\ rank'[c] # 0
          /\ \A d \in Channels \ {c} : rank'[d] = rank[d] /\ pc'[d] = pc[d]
      BY <2>1 DEF PutLink, CountInv, PhaseRank, TypeOK
    <3>3. status[c] = "out" /\ ~Membership!Closed
      BY <3>1, <3>2 DEF status, Refusals, Membership!Closed
    <3>4. status' = [status EXCEPT ![c] = "in"]
      BY <3>2 DEF status, Members
    <3> QED
      BY <3>3, <3>4 DEF Membership!Join
  <2>2. ASSUME NEW c \in Channels, PutRefused(c) PROVE Membership!Refuse(c)
    <3>1. /\ drop /\ rank[c] = 0 /\ pc[c] = "locking" /\ pc'[c] = "refused" /\ rank' = rank
          /\ \A d \in Channels \ {c} : pc'[d] = pc[d]
      BY <2>2 DEF PutRefused, CountInv, PhaseRank, TypeOK
    <3>2. Members = {} /\ DropReported
      BY <3>1 DEF CountInv, SignalEmpty
    <3>3. Membership!Present = {}
      BY <3>2 DEF Membership!Present, status
    <3>4. PICK d \in Channels : rank[d] > 0
      BY <3>1, <3>2 DEF CountInv, SomeoneCame, DropReported
    <3>5. status[d] = "left"
      BY <3>2, <3>4 DEF status, TypeOK
    <3>6. status[c] = "out" /\ status' = [status EXCEPT ![c] = "refused"]
      BY <3>1 DEF status, Members
    <3> QED
      BY <3>3, <3>5, <3>6 DEF Membership!Refuse
  <2>3. ASSUME NEW c \in Channels, StoreCount(c) PROVE Membership!Leave(c) \/ status' = status
    <3>1. /\ pc[c] = "74w" /\ pc'[c] = "75" /\ rank' = rank
          /\ \A d \in Channels \ {c} : pc'[d] = pc[d]
      BY <2>3 DEF StoreCount, TypeOK
    <3>2. Members' = Members \ {c} /\ Refusals' = Refusals
      BY <3>1 DEF Members, Refusals, Before74
    <3>3. CASE c \in Members
      <4>1. rank[c] # 0 /\ c \in Channels /\ c \notin Members'
        BY <3>2, <3>3 DEF Members, TypeOK
      <4>2. \A d \in Channels \ {c} : d \in Members' <=> d \in Members
        BY <3>2
      <4>3. status' = [status EXCEPT ![c] = "left"]
        BY <3>1, <4>1, <4>2 DEF status
      <4>4. status[c] = "in"
        BY <3>3, <4>1 DEF status
      <4> QED
        BY <4>3, <4>4 DEF Membership!Leave
    <3>4. CASE c \notin Members
      BY <3>1, <3>2, <3>4, StatusSame
    <3> QED
      BY <3>3, <3>4
  <2>4. ASSUME NEW c \in Channels, PutLock(c) PROVE status' = status
    BY <2>4, StatusSame DEF PutLock, TypeOK, Members, Refusals, Before74
  <2>5. ASSUME NEW c \in Channels, Disconnect(c) PROVE status' = status
    <3>1. /\ pc[c] \in {"member", "refused"} /\ pc'[c] = "closing" /\ rank' = rank
          /\ \A d \in Channels \ {c} : pc'[d] = pc[d]
          /\ pc[c] = "refused" => rank[c] = 0
      BY <2>5 DEF Disconnect, TypeOK, CountInv, PhaseRank
    <3>2. Members' = Members
      BY <3>1 DEF Members
    <3>3. Refusals' = Refusals
      BY <3>1 DEF Refusals
    <3> QED
      BY <3>1, <3>2, <3>3, StatusSame
  <2>6. ASSUME NEW c \in Channels, DeleteRLock(c) PROVE status' = status
    BY <2>6, StatusSame DEF DeleteRLock, TypeOK, Members, Refusals, Before74
  <2>7. ASSUME NEW c \in Channels, LoadPrevOfNext(c) PROVE status' = status
    BY <2>7, StatusSame DEF LoadPrevOfNext, TypeOK, Members, Refusals, Before74
  <2>71. ASSUME NEW c \in Channels, ReloadNext(c) \/ NilNext(c) PROVE status' = status
    BY <2>71, StatusSame DEF ReloadNext, NilNext, TypeOK, Members, Refusals, Before74
  <2>72. ASSUME NEW c \in Channels, ReloadPrev(c) \/ NilPrev(c) PROVE status' = status
    BY <2>72, StatusSame DEF ReloadPrev, NilPrev, TypeOK, Members, Refusals, Before74
  <2>8. ASSUME NEW c \in Channels, StorePrevOfNext(c) PROVE status' = status
    BY <2>8, StatusSame DEF StorePrevOfNext, TypeOK, Members, Refusals, Before74
  <2>9. ASSUME NEW c \in Channels, LoadPrev(c) PROVE status' = status
    BY <2>9, StatusSame DEF LoadPrev, TypeOK, Members, Refusals, Before74
  <2>10. ASSUME NEW c \in Channels, LoadNext(c) PROVE status' = status
    BY <2>10, StatusSame DEF LoadNext, TypeOK, Members, Refusals, Before74
  <2>11. ASSUME NEW c \in Channels, StoreNext(c) \/ StoreHead(c) PROVE status' = status
    BY <2>11, StatusSame DEF StoreNext, StoreHead, TypeOK, Members, Refusals, Before74
  <2>12. ASSUME NEW c \in Channels, LoadCount(c) PROVE status' = status
    BY <2>12, StatusSame DEF LoadCount, TypeOK, Members, Refusals, Before74
  <2>13. ASSUME NEW c \in Channels, ClearDrop(c) PROVE status' = status
    BY <2>13, StatusSame DEF ClearDrop, TypeOK, Members, Refusals, Before74
  <2>14. ASSUME NEW c \in Channels, TestCount(c) PROVE status' = status
    BY <2>14, StatusSame DEF TestCount, TypeOK, Members, Refusals, Before74
  <2>15. ASSUME NEW c \in Channels, SetDrop(c) PROVE status' = status
    BY <2>15, StatusSame DEF SetDrop, TypeOK, Members, Refusals, Before74
  <2>16. ASSUME NEW c \in Channels, ReturnDrop(c) PROVE status' = status
    BY <2>16, StatusSame DEF ReturnDrop, TypeOK, Members, Refusals, Before74
  <2>17. ASSUME NEW p \in Pushers, PushBegin(p) PROVE status' = status
    BY <2>17, StatusSame DEF PushBegin, Members, Refusals
  <2>18. ASSUME NEW p \in Pushers, PushTo(p) PROVE status' = status
    BY <2>18, StatusSame DEF PushTo, Members, Refusals
  <2>19. ASSUME NEW p \in Pushers, PushEnd(p) PROVE status' = status
    BY <2>19, StatusSame DEF PushEnd, Members, Refusals
  <2>20. CASE UNCHANGED vars
    BY <2>20, StatusSame DEF vars, Members, Refusals
  <2>21. ASSUME NEW c \in Channels, DeleteStep(c) PROVE Membership!Leave(c) \/ status' = status
    BY <2>3, <2>6, <2>7, <2>71, <2>72, <2>8, <2>9, <2>10, <2>11, <2>12, <2>13, <2>14, <2>15, <2>16, <2>21
       DEF DeleteStep
  <2> QED
    BY <2>1, <2>2, <2>4, <2>5, <2>17, <2>18, <2>19, <2>20, <2>21 DEF Next, Membership!Next
<1> QED
  BY <1>1, <1>2, TypeCorrect, CountCorrect, PTL DEF Spec, Implements, Membership!Spec

-----------------------------------------------------------------------------
(***************************************************************************)
(* One DeleteChannel at a time                                             *)
(***************************************************************************)

LEMMA SerialIsSpec == SerialSpec => Spec
<1>1. [Next /\ OneDeleter']_vars => [Next]_vars
  OBVIOUS
<1> QED
  BY <1>1, PTL DEF SerialSpec, Spec

LEMMA SerialCorrect == SerialSpec => [](OneDeleter /\ TypeOK /\ OrderInv /\ CountInv)
<1>1. Init => OneDeleter
  BY DEF Init, OneDeleter, Deleting, Before74
<1>2. OneDeleter /\ [Next /\ OneDeleter']_vars => OneDeleter'
  BY DEF OneDeleter, vars
<1>3. SerialSpec => []OneDeleter
  BY <1>1, <1>2, PTL DEF SerialSpec
<1> QED
  BY <1>3, SerialIsSpec, TypeCorrect, OrderCorrect, CountCorrect, PTL

(* No decrement is lost, and whoever took the last one out puts up the mark. *)
SerialCount ==
    /\ \A c \in Channels : /\ pc[c] = "74w" => loc[c].k = OnlineCount
                           /\ pc[c] \in {"75", "76"} => loc[c].k = OnlineCount + 1
    /\ OnlineCount <= Cardinality(Members)
    /\ joins > 0 /\ Members = {} => drop \/ \E c \in Channels : pc[c] \in {"75", "76", "77"}

LEMMA SerialCountInit == Init => SerialCount
<1> SUFFICES ASSUME Init PROVE SerialCount
  OBVIOUS
<1>1. Members = {}
  BY DEF Init, Members
<1> QED
  BY <1>1, FS_EmptySet DEF Init, SerialCount

(* A step away from lines 74 to 77. *)
LEMMA SerialCountKept ==
    ASSUME SerialCount, UNCHANGED <<OnlineCount, drop, joins, Members>>,
           \A d \in Channels : /\ pc'[d] \in {"74w", "75", "76"} => pc[d] = pc'[d] /\ loc'[d] = loc[d]
                               /\ pc[d] \in {"75", "76", "77"} => pc'[d] = pc[d]
    PROVE  SerialCount'
<1>1. \A c \in Channels : /\ pc'[c] = "74w" => loc'[c].k = OnlineCount'
                          /\ pc'[c] \in {"75", "76"} => loc'[c].k = OnlineCount' + 1
  BY DEF SerialCount
<1>2. OnlineCount' <= Cardinality(Members')
  BY DEF SerialCount
<1>3. joins' > 0 /\ Members' = {} => drop' \/ \E c \in Channels : pc'[c] \in {"75", "76", "77"}
  BY DEF SerialCount
<1> QED
  BY <1>1, <1>2, <1>3 DEF SerialCount

LEMMA SerialCountStep ==
    TypeOK /\ CountInv /\ OneDeleter /\ SerialCount /\ [Next]_vars => SerialCount'
<1> SUFFICES ASSUME TypeOK, CountInv, OneDeleter, SerialCount, [Next]_vars PROVE SerialCount'
  OBVIOUS
<1> USE DEF TypeOK, Goto, links, walk, hist
<1>1. ASSUME NEW c \in Channels, PutLock(c) \/ PutRefused(c) \/ Disconnect(c) PROVE SerialCount'
  <2>1. Members' = Members
    BY <1>1 DEF PutLock, PutRefused, Disconnect, CountInv, PhaseRank, Members, Before74
  <2> QED
    BY <1>1, <2>1, SerialCountKept DEF PutLock, PutRefused, Disconnect
<1>2. ASSUME NEW c \in Channels, PutLink(c) PROVE SerialCount'
  <2>1. \A d \in Channels : pc[d] \notin Deleting
    BY <1>2 DEF PutLink, ReadLocked
  <2>2. c \notin Members /\ Members' = Members \cup {c}
    BY <1>2 DEF PutLink, Members, Before74
  <2>3. OnlineCount' <= Cardinality(Members')
    <3>1. OnlineCount' = OnlineCount + 1 /\ Cardinality(Members') = Cardinality(Members) + 1
      BY <1>2, <2>2, MembersAdd DEF PutLink
    <3> QED
      BY <3>1, MembersFinite DEF SerialCount
  <2>4. \A d \in Channels : pc'[d] \notin {"74w", "75", "76"}
    BY <1>2, <2>1 DEF PutLink, Deleting, Before74
  <2> QED
    BY <2>2, <2>3, <2>4 DEF SerialCount
<1>3. ASSUME NEW c \in Channels,
             \/ DeleteRLock(c) \/ ReloadNext(c) \/ NilNext(c) \/ LoadPrevOfNext(c)
             \/ StorePrevOfNext(c) \/ LoadPrev(c) \/ ReloadPrev(c) \/ NilPrev(c)
             \/ LoadNext(c) \/ StoreNext(c) \/ StoreHead(c)
      PROVE  SerialCount'
  <2>1. Members' = Members
    BY <1>3, SMTT(20)
       DEF DeleteRLock, ReloadNext, NilNext, LoadPrevOfNext, StorePrevOfNext,
          LoadPrev, ReloadPrev, NilPrev, LoadNext, StoreNext, StoreHead, Members, Before74
  <2>2. /\ UNCHANGED <<OnlineCount, drop, joins>>
        /\ pc[c] \notin {"75", "76", "77"} /\ pc'[c] \notin {"74w", "75", "76"}
        /\ \A d \in Channels : d # c => pc'[d] = pc[d] /\ loc'[d] = loc[d]
    BY <1>3, SMTT(20)
       DEF DeleteRLock, ReloadNext, NilNext, LoadPrevOfNext, StorePrevOfNext,
          LoadPrev, ReloadPrev, NilPrev, LoadNext, StoreNext, StoreHead
  <2> QED
    BY <2>1, <2>2, SerialCountKept
<1>4. ASSUME NEW c \in Channels, LoadCount(c) PROVE SerialCount'
  <2>1. Members' = Members
    BY <1>4 DEF LoadCount, Members, Before74
  <2>2. /\ UNCHANGED <<OnlineCount, drop, joins>> /\ pc[c] = "74" /\ pc'[c] = "74w" /\ loc'[c].k = OnlineCount
        /\ \A d \in Channels : d # c => pc'[d] = pc[d] /\ loc'[d] = loc[d]
    BY <1>4 DEF LoadCount
  <2> QED
    BY <2>1, <2>2 DEF SerialCount
<1>5. ASSUME NEW c \in Channels, StoreCount(c) PROVE SerialCount'
  <2>1. /\ OnlineCount' = OnlineCount - 1 /\ loc' = loc /\ loc[c].k = OnlineCount
        /\ pc[c] = "74w" /\ pc'[c] = "75"
        /\ \A d \in Channels : d # c => pc'[d] = pc[d] /\ pc[d] \notin Deleting
    BY <1>5 DEF StoreCount, SerialCount, OneDeleter, Deleting, Before74
  <2>2. Members' = Members \ {c}
    BY <1>5 DEF StoreCount, Members, Before74
  <2>3. OnlineCount' <= Cardinality(Members')
    <3>1. CASE c \in Members
      <4>1. Cardinality(Members') = Cardinality(Members) - 1
        BY <2>2, <3>1, MembersRemove
      <4> QED
        BY <2>1, <4>1, MembersFinite DEF SerialCount
    <3>2. CASE c \notin Members
      <4>1. Members' = Members
        BY <2>2, <3>2
      <4> QED
        BY <2>1, <4>1, MembersFinite DEF SerialCount
    <3> QED
      BY <3>1, <3>2
  <2>4. \A d \in Channels : /\ pc'[d] # "74w"
                            /\ pc'[d] \in {"75", "76"} => loc'[d].k = OnlineCount' + 1
    BY <2>1 DEF Deleting, Before74
  <2> QED
    BY <2>1, <2>3, <2>4 DEF SerialCount
<1>6. ASSUME NEW c \in Channels, ClearDrop(c) PROVE SerialCount'
  <2>1. Members' = Members
    BY <1>6 DEF ClearDrop, Members, Before74
  <2>2. /\ UNCHANGED <<OnlineCount, joins, loc>> /\ pc[c] = "75" /\ pc'[c] = "76"
        /\ \A d \in Channels : d # c => pc'[d] = pc[d]
    BY <1>6 DEF ClearDrop
  <2> QED
    BY <2>1, <2>2 DEF SerialCount
<1>7. ASSUME NEW c \in Channels, TestCount(c) PROVE SerialCount'
  <2>1. Members' = Members
    BY <1>7 DEF TestCount, Members, Before74
  <2>2. /\ UNCHANGED <<OnlineCount, joins, loc, drop>> /\ pc[c] = "76" /\ pc'[c] \in {"77", "80"}
        /\ \A d \in Channels : d # c => pc'[d] = pc[d]
    BY <1>7 DEF TestCount
  <2>3. OnlineCount <= 0 => pc'[c] = "77"
    BY <1>7 DEF TestCount, SerialCount
  <2>4. Members = {} => OnlineCount <= 0
    BY FS_EmptySet DEF SerialCount
  <2> QED
    BY <2>1, <2>2, <2>3, <2>4 DEF SerialCount
<1>8. ASSUME NEW c \in Channels, SetDrop(c) PROVE SerialCount'
  <2>1. Members' = Members
    BY <1>8 DEF SetDrop, Members, Before74
  <2>2. /\ UNCHANGED <<OnlineCount, joins, loc>> /\ drop' /\ pc[c] = "77" /\ pc'[c] = "80"
        /\ \A d \in Channels : d # c => pc'[d] = pc[d]
    BY <1>8 DEF SetDrop
  <2> QED
    BY <2>1, <2>2 DEF SerialCount
<1>9. ASSUME NEW c \in Channels, ReturnDrop(c) PROVE SerialCount'
  <2>1. Members' = Members
    BY <1>9 DEF ReturnDrop, Members, Before74
  <2> QED
    BY <1>9, <2>1, SerialCountKept DEF ReturnDrop
<1>10. ASSUME NEW p \in Pushers, PushBegin(p) \/ PushTo(p) \/ PushEnd(p) PROVE SerialCount'
  BY <1>10, SerialCountKept DEF PushBegin, PushTo, PushEnd, Members
<1>11. CASE UNCHANGED vars
  BY <1>11, SerialCountKept DEF vars, Members
<1> QED
  BY <1>1, <1>2, <1>3, <1>4, <1>5, <1>6, <1>7, <1>8, <1>9, <1>10, <1>11 DEF Next, DeleteStep

LEMMA SerialCountCorrect == SerialSpec => [](CountInv /\ SerialCount)
<1>1. TypeOK /\ CountInv /\ OneDeleter /\ SerialCount /\ [Next /\ OneDeleter']_vars => SerialCount'
  BY SerialCountStep
<1> QED
  BY <1>1, SerialCorrect, SerialCountInit, PTL DEF SerialSpec

(* Where no two DeleteChannel calls overlap and nobody was refused, OnlineCount is the number
   of connections inside whenever none is in progress (line 74 then loses no decrement). *)
THEOREM CountIsExact == SerialSpec => []OnlineCountExact
<1>1. TypeOK /\ CountInv /\ SerialCount => OnlineCountExact
  <2> SUFFICES ASSUME TypeOK, CountInv, SerialCount, Refusals = {} PROVE OnlineCount = Cardinality(Members)
    BY DEF OnlineCountExact
  <2>1. OnlineCount \in Int /\ Cardinality(Members) \in Nat /\ OnlineCount <= Cardinality(Members)
    BY MembersFinite DEF TypeOK, SerialCount
  <2>2. OnlineCount >= 0
    BY <2>1 DEF CountInv, NegativeRefused
  <2>3. Members # {} => OnlineCount >= Cardinality(Members)
    BY DEF CountInv, CountCovers
  <2> QED
    BY <2>1, <2>2, <2>3, FS_EmptySet
<1> QED
  BY <1>1, SerialCorrect, SerialCountCorrect, PTL

(* Where no two DeleteChannel calls overlap, the last to leave marks the room for removal:
   a room that was entered and is empty has its mark up whenever none is in progress. *)
THEOREM LastOneDrops == SerialSpec => []EmptyRoomDropped
<1>1. SerialCount => EmptyRoomDropped
  BY DEF SerialCount, EmptyRoomDropped, Quiet, Deleting, Before74
<1> QED
  BY <1>1, SerialCountCorrect, PTL

-----------------------------------------------------------------------------
(* The list, one DeleteChannel at a time: who is in it, the one that its predecessor in the
   list is already linked around, and what comes after y on the way down (nil: from the head). *)
Listed      == {c \in Channels : rank[c] > 0 /\ pc[c] \in {"member", "closing"} \cup (Before74 \ {"74", "74w"})}
Bypassed(c) == pc[c] \in {"68", "70", "70n", "70w", "72", "72w"}
After(y)    == IF y = Nil THEN head ELSE next[y]

(* The registers of DeleteChannel hold what memory holds. *)
Registers ==
    \A c \in Channels :
       /\ pc[c] \in {"66", "66p", "66w", "70w", "72w"} => loc[c].n = next[c]
       /\ pc[c] \in {"66w", "70", "70n", "70w", "72", "72w"} => loc[c].p = prev[c]
DistinctRanks == \A c, d \in Channels : rank[c] = rank[d] /\ rank[c] > 0 => c = d
BothWays ==
    /\ \A y \in Listed \cup {Nil} : After(y) # Nil =>
          After(y) \in Listed /\ prev[After(y)] = IF y \in Listed /\ Bypassed(y) THEN prev[y] ELSE y
    /\ \A x \in Listed :
          /\ prev[x] \in Listed \cup {Nil}
          /\ \/ After(prev[x]) = x
             \/ \E z \in Listed : Bypassed(z) /\ After(prev[x]) = z /\ next[z] = x /\ prev[z] = prev[x]
(* From the head, and from any later arrival, even one that has left, the way down does not
   skip anybody in the list. *)
Passes(y, d) == After(y) # Nil /\ rank[d] <= rank[After(y)]
NoneSkipped  == \A d \in Listed, y \in Pointers : y = Nil \/ rank[y] > rank[d] => Passes(y, d)
(* A walk of Push that has not met a listed connection is above it. *)
NoneMissed   == \A p \in pushing : \A d \in Listed \ visited[p] : cursor[p] # Nil /\ rank[d] <= rank[cursor[p]]

SerialLinks == Registers /\ DistinctRanks /\ BothWays /\ NoneSkipped /\ NoneMissed

LEMMA SerialLinksInit == Init => SerialLinks
<1> SUFFICES ASSUME Init PROVE SerialLinks
  OBVIOUS
<1>1. Listed = {}
  BY DEF Init, Listed
<1> QED
  BY <1>1 DEF Init, SerialLinks, Registers, DistinctRanks, BothWays, NoneSkipped, NoneMissed, After

(* A step that writes no link. *)
LEMMA SerialLinksKept ==
    ASSUME SerialLinks, UNCHANGED <<links, hist, Listed>>,
           \A d \in Listed : /\ Bypassed(d) => Bypassed(d)'
                             /\ Bypassed(d)' => Bypassed(d) \/ next[d] = Nil,
           Registers', NoneMissed'
    PROVE  SerialLinks'
<1> USE DEF SerialLinks, links, hist
<1>1. \A y : After(y)' = After(y)
  BY DEF After
<1>2. BothWays'
  <2>1. ASSUME NEW y \in Listed \cup {Nil}, After(y) # Nil
        PROVE  /\ After(y) \in Listed
               /\ prev[After(y)] = IF y \in Listed /\ Bypassed(y)' THEN prev[y] ELSE y
    <3>1. /\ After(y) \in Listed
          /\ prev[After(y)] = IF y \in Listed /\ Bypassed(y) THEN prev[y] ELSE y
      BY <2>1 DEF BothWays
    <3>2. y \in Listed => (Bypassed(y)' <=> Bypassed(y))
      BY <2>1, NilAssumption DEF After, Listed
    <3> QED
      BY <3>1, <3>2
  <2>2. ASSUME NEW x \in Listed
        PROVE  /\ prev[x] \in Listed \cup {Nil}
               /\ \/ After(prev[x]) = x
                  \/ \E z \in Listed : Bypassed(z)' /\ After(prev[x]) = z /\ next[z] = x /\ prev[z] = prev[x]
    BY <2>2 DEF BothWays
  <2> QED
    BY <1>1, <2>1, <2>2 DEF BothWays
<1>3. NoneSkipped'
  BY <1>1 DEF NoneSkipped, Passes
<1>4. DistinctRanks'
  BY DEF DistinctRanks
<1> QED
  BY <1>2, <1>3, <1>4

LEMMA SerialPutLink ==
    ASSUME TypeOK, OrderInv, SerialLinks, NEW c \in Channels, PutLink(c)
    PROVE  SerialLinks'
<1> USE DEF SerialLinks
<1>1. /\ pc[c] = "locking" /\ rank[c] = 0 /\ pushing = {} /\ UNCHANGED <<loc, walk>>
      /\ \A d \in Channels : pc[d] \notin Deleting /\ rank[d] <= joins
      /\ joins \in Nat
  BY DEF PutLink, ReadLocked, OrderInv, TypeOK
<1>2. /\ head' = c /\ pc'[c] = "member" /\ rank'[c] = joins + 1
      /\ \A x \in Channels : /\ prev'[x] = IF x = c THEN Nil ELSE IF x = head THEN c ELSE prev[x]
                             /\ next'[x] = IF x = c THEN head ELSE next[x]
                             /\ x # c => rank'[x] = rank[x] /\ pc'[x] = pc[x]
  BY DEF PutLink, TypeOK, Goto
<1>3. Listed' = Listed \cup {c} /\ c \notin Listed /\ Listed \subseteq Channels
  BY <1>1, <1>2 DEF Listed
<1>4. \A x \in Channels : ~Bypassed(x) /\ ~Bypassed(x)'
  BY <1>1, <1>2 DEF Bypassed, Deleting, Before74
<1>5. After(Nil)' = c /\ After(c)' = head /\ \A y \in Channels : y # c => After(y)' = next[y]
  BY <1>2, NilAssumption DEF After
<1>6. head # Nil => head \in Listed /\ prev[head] = Nil
  BY NilAssumption DEF BothWays, After, Listed
<1>7. \A y \in Listed : next[y] # Nil => next[y] \in Listed /\ prev[next[y]] = y
  BY <1>3, <1>4, NilAssumption DEF BothWays, After
<1>8. \A x \in Listed : /\ prev[x] \in Listed \cup {Nil}
                        /\ prev[x] = Nil => head = x
                        /\ prev[x] # Nil => next[prev[x]] = x
  BY <1>3, <1>4 DEF BothWays, After
<1>9. BothWays'
  <2>1. ASSUME NEW y \in Listed' \cup {Nil}, After(y)' # Nil
        PROVE  After(y)' \in Listed' /\ prev'[After(y)'] = y
    <3>1. CASE y = Nil
      BY <1>2, <1>3, <1>5, <3>1
    <3>2. CASE y = c
      BY <1>2, <1>3, <1>5, <1>6, <2>1, <3>2
    <3>3. CASE y \in Listed
      <4>1. y \in Channels /\ y # c /\ y # Nil
        BY <1>3, <3>3, NilAssumption
      <4>2. After(y)' = next[y] /\ next[y] \in Listed /\ prev[next[y]] = y
        BY <1>5, <1>7, <2>1, <3>3, <4>1
      <4>3. next[y] # head /\ next[y] # c
        BY <1>3, <1>6, <4>1, <4>2, NilAssumption
      <4> QED
        BY <1>2, <1>3, <4>2, <4>3
    <3> QED
      BY <1>3, <2>1, <3>1, <3>2, <3>3
  <2>2. ASSUME NEW x \in Listed'
        PROVE  prev'[x] \in Listed' \cup {Nil} /\ After(prev[x])' = x
    <3>1. CASE x = c
      BY <1>2, <3>1 DEF After
    <3>2. CASE x # c /\ x = head
      <4>1. x \in Channels /\ prev'[x] = c /\ next'[c] = x
        BY <1>2, <1>3, <3>2
      <4> QED
        BY <1>3, <4>1, NilAssumption DEF After
    <3>3. CASE x # c /\ x # head
      <4>1. x \in Listed /\ x \in Channels
        BY <1>3, <3>3
      <4>2. prev'[x] = prev[x] /\ prev[x] \in Listed /\ next[prev[x]] = x
        BY <1>2, <1>8, <3>3, <4>1
      <4>3. next'[prev[x]] = x /\ prev[x] # Nil
        BY <1>2, <1>3, <4>2, NilAssumption
      <4> QED
        BY <1>3, <4>2, <4>3 DEF After
    <3> QED
      BY <3>1, <3>2, <3>3
  <2>3. \A y \in Listed' : ~Bypassed(y)'
    BY <1>3, <1>4
  <2> QED
    BY <2>1, <2>2, <2>3, Zenon DEF BothWays
<1>10. NoneSkipped'
  <2> SUFFICES ASSUME NEW d \in Listed', NEW y \in Pointers, y = Nil \/ rank'[y] > rank'[d]
               PROVE  Passes(y, d)'
    BY DEF NoneSkipped
  <2>1. CASE y = Nil
    <3>1. rank'[d] <= joins + 1
      BY <1>1, <1>2, <1>3 DEF TypeOK
    <3> QED
      BY <1>2, <1>5, <2>1, <3>1, NilAssumption DEF Passes
  <2>2. CASE y = c
    <3>1. d \in Listed /\ d # c
      <4>1. d # c
        BY <1>1, <1>2, <2>2, NilAssumption
      <4> QED
        BY <1>3, <4>1
    <3>2. head # Nil /\ rank[d] <= rank[head] /\ head \in Channels /\ head # c
      <4>1. Passes(Nil, d)
        BY <3>1 DEF NoneSkipped, Pointers
      <4> QED
        BY <1>3, <1>6, <4>1 DEF Passes, After
    <3> QED
      BY <1>2, <1>3, <1>5, <2>2, <3>1, <3>2 DEF Passes
  <2>3. CASE y \in Channels /\ y # c
    <3>1. y # Nil /\ rank'[y] = rank[y] /\ rank[y] <= joins /\ rank[y] \in Nat
      BY <1>1, <1>2, <2>3, NilAssumption DEF TypeOK
    <3>2. d # c
      BY <1>1, <1>2, <3>1
    <3>3. d \in Listed /\ d \in Channels /\ rank'[d] = rank[d]
      BY <1>2, <1>3, <3>2
    <3>4. next[y] # Nil /\ rank[d] <= rank[next[y]]
      <4>1. Passes(y, d)
        BY <3>1, <3>3 DEF NoneSkipped
      <4> QED
        BY <3>1, <4>1 DEF Passes, After
    <3>5. next[y] \in Channels /\ next[y] # c
      <4>1. next[y] \in Channels
        BY <2>3, <3>4 DEF TypeOK, Pointers
      <4>2. rank[next[y]] > 0
        BY <2>3, <3>4 DEF OrderInv, Below
      <4> QED
        BY <1>1, <4>1, <4>2
    <3> QED
      BY <1>2, <1>5, <2>3, <3>3, <3>4, <3>5 DEF Passes
  <2> QED
    BY <2>1, <2>2, <2>3 DEF Pointers
<1>11. DistinctRanks'
  <2>1. \A x \in Channels : x # c => rank'[x] # joins + 1
    BY <1>1, <1>2 DEF TypeOK
  <2> QED
    BY <1>2, <2>1 DEF DistinctRanks
<1>12. Registers'
  BY <1>1, <1>2 DEF Registers, Deleting, Before74
<1>13. NoneMissed'
  BY <1>1 DEF NoneMissed, walk
<1> QED
  BY <1>9, <1>10, <1>11, <1>12, <1>13

(* In between, only the deleter is bypassed, and its own neighbours are known. *)
LEMMA Neighbours ==
    ASSUME TypeOK, OrderInv, OneDeleter, BothWays, NEW c \in Listed, pc[c] \in Deleting
    PROVE  /\ c \in Channels /\ c # Nil /\ rank[c] > 0
           /\ \A d \in Channels : d # c => ~Bypassed(d)
           /\ next[c] \in Listed \cup {Nil} /\ next[c] # c
           /\ prev[c] \in Listed \cup {Nil} /\ prev[c] # c
           /\ After(prev[c]) = c
           /\ next[c] # Nil => prev[next[c]] = IF Bypassed(c) THEN prev[c] ELSE c
<1>1. c \in Channels /\ c # Nil /\ rank[c] > 0
  BY NilAssumption DEF Listed
<1>2. \A d \in Channels : d # c => ~Bypassed(d)
  BY <1>1 DEF OneDeleter, Bypassed, Deleting, Before74
<1>3. next[c] # Nil => rank[c] > rank[next[c]] /\ next[c] \in Channels
  BY <1>1 DEF OrderInv, Below, TypeOK, Pointers
<1>4. prev[c] # Nil => rank[prev[c]] > rank[c] /\ prev[c] \in Channels
  BY <1>1 DEF OrderInv, Above, TypeOK, Pointers
<1>5. rank[c] \in Nat
  BY <1>1 DEF TypeOK
<1>6. next[c] # c /\ prev[c] # c
  BY <1>1, <1>3, <1>4, <1>5
<1>7. \A z \in Listed : Bypassed(z) => z = c
  BY <1>2 DEF Listed
<1>8. After(prev[c]) = c /\ prev[c] \in Listed \cup {Nil}
  BY <1>7 DEF BothWays
<1>9. /\ next[c] \in Listed \cup {Nil}
      /\ next[c] # Nil => prev[next[c]] = IF Bypassed(c) THEN prev[c] ELSE c
  BY <1>1 DEF BothWays, After
<1> QED
  BY <1>1, <1>2, <1>6, <1>8, <1>9

LEMMA SerialStorePrev ==
    ASSUME TypeOK, OrderInv, OneDeleter, SerialLinks, NEW c \in Channels, StorePrevOfNext(c)
    PROVE  SerialLinks'
<1> USE DEF SerialLinks
<1>1. PICK n \in Pointers, p \in Pointers : n = next[c] /\ p = prev[c] /\ n = loc[c].n /\ p = loc[c].p
  BY DEF StorePrevOfNext, Registers, TypeOK
<1>2. n # Nil /\ n \in Channels /\ rank[c] > 0
  <2>1. n # Nil
    BY <1>1 DEF StorePrevOfNext, OrderInv
  <2>2. n \in Channels /\ rank[c] > rank[n] /\ rank[n] > 0 /\ rank[c] \in Nat /\ rank[n] \in Nat
    BY <1>1, <2>1 DEF OrderInv, Below, TypeOK, Pointers
  <2> QED
    BY <2>1, <2>2
<1>3. c \in Listed /\ pc[c] = "66w" /\ pc[c] \in Deleting /\ ~Bypassed(c) /\ pc'[c] = "68"
  BY <1>2 DEF StorePrevOfNext, Listed, Deleting, Before74, Bypassed, TypeOK, Goto
<1>4. /\ \A x \in Channels : /\ prev'[x] = IF x = n THEN p ELSE prev[x]
                             /\ x # c => pc'[x] = pc[x] /\ pc[x] \notin Deleting
      /\ next' = next /\ head' = head /\ UNCHANGED <<loc, walk, hist>>
  BY <1>1, <1>3 DEF StorePrevOfNext, TypeOK, Goto, OneDeleter
<1>5. /\ n \in Listed /\ n # c /\ prev[n] = c /\ p \in Listed \cup {Nil} /\ p # c /\ After(p) = c
      /\ \A d \in Channels : ~Bypassed(d)
  BY <1>1, <1>2, <1>3, Neighbours
<1>6. Listed' = Listed /\ Listed \subseteq Channels
  BY <1>2, <1>3, <1>4 DEF Listed, Before74, hist
<1>7. \A y : After(y)' = After(y)
  BY <1>4 DEF After
<1>8. \A d \in Channels : Bypassed(d)' <=> d = c
  BY <1>3, <1>4, <1>5 DEF Bypassed
<1>9. ASSUME NEW y \in Listed \cup {Nil}, After(y) # Nil
      PROVE  /\ After(y) \in Listed
             /\ prev'[After(y)] = IF y \in Listed /\ Bypassed(y)' THEN prev'[y] ELSE y
  <2>1. After(y) \in Listed /\ prev[After(y)] = y
    BY <1>5, <1>6, <1>9 DEF BothWays
  <2>2. CASE y = c
    <3>1. After(y) = n
      BY <1>1, <1>2, <2>2, NilAssumption DEF After
    <3>2. y \in Listed /\ Bypassed(y)' /\ prev'[y] = p
      BY <1>1, <1>3, <1>4, <1>5, <1>8, <2>2
    <3> QED
      BY <1>2, <1>4, <2>1, <3>1, <3>2
  <2>3. CASE y # c
    <3>1. After(y) # n
      BY <1>5, <2>1, <2>3
    <3>2. y \in Listed => ~Bypassed(y)'
      BY <1>6, <1>8, <2>3
    <3> QED
      BY <1>4, <1>6, <2>1, <3>1, <3>2
  <2> QED
    BY <2>2, <2>3
<1>10. ASSUME NEW x \in Listed
       PROVE  /\ prev'[x] \in Listed \cup {Nil}
              /\ \/ After(prev'[x]) = x
                 \/ \E z \in Listed : Bypassed(z)' /\ After(prev'[x]) = z /\ next[z] = x /\ prev'[z] = prev'[x]
  <2>1. prev[x] \in Listed \cup {Nil} /\ After(prev[x]) = x
    BY <1>5, <1>6 DEF BothWays
  <2>2. CASE x = n
    <3>1. prev'[x] = p /\ prev'[c] = p /\ next[c] = x
      BY <1>1, <1>2, <1>4, <1>5, <2>2
    <3> QED
      BY <1>3, <1>5, <1>8, <3>1
  <2>3. CASE x # n
    BY <1>4, <1>6, <2>1, <2>3
  <2> QED
    BY <2>2, <2>3
<1>11. BothWays'
  <2>1. \A x \in Listed : After(prev[x])' = After(prev'[x])
    BY <1>4 DEF After
  <2> QED
    BY <1>4, <1>6, <1>7, <1>9, <1>10, <2>1 DEF BothWays
<1>12. NoneSkipped' /\ DistinctRanks'
  BY <1>4, <1>6, <1>7 DEF NoneSkipped, Passes, DistinctRanks, hist
<1>13. Registers'
  BY <1>3, <1>4 DEF Registers, Deleting, Before74
<1>14. NoneMissed'
  BY <1>4, <1>6 DEF NoneMissed, walk, hist
<1> QED
  BY <1>11, <1>12, <1>13, <1>14

LEMMA SerialStoreNext ==
    ASSUME TypeOK, OrderInv, CountInv, OneDeleter, SerialLinks, NEW c \in Channels, StoreNext(c) \/ StoreHead(c)
    PROVE  SerialLinks'
<1> USE DEF SerialLinks
<1>1. PICK n \in Pointers, p \in Pointers : n = next[c] /\ p = prev[c] /\ n = loc[c].n /\ p = loc[c].p
  BY DEF StoreNext, StoreHead, Registers, TypeOK
<1>2. /\ pc[c] \in {"70w", "72w"} /\ pc'[c] = "74" /\ pc[c] \in Deleting
      /\ \A x \in Channels : /\ next'[x] = IF p # Nil /\ x = p THEN n ELSE next[x]
                             /\ x # c => pc'[x] = pc[x] /\ pc[x] \notin Deleting
      /\ head' = IF p = Nil THEN n ELSE head
      /\ prev' = prev /\ UNCHANGED <<loc, walk, hist>>
  BY <1>1 DEF StoreNext, StoreHead, TypeOK, OrderInv, Goto, OneDeleter, Deleting, Before74
<1>3. Listed' = Listed \ {c} /\ Listed \subseteq Channels
  BY <1>2 DEF Listed, Before74, hist
<1>4. \A d \in Channels : ~Bypassed(d)'
  BY <1>2 DEF Bypassed, Deleting, Before74
<1>5. Registers' /\ DistinctRanks'
  BY <1>2 DEF Registers, DistinctRanks, Deleting, Before74, hist
<1>6. NoneMissed'
  BY <1>2, <1>3 DEF NoneMissed, walk, hist
(* A refused connection has no links and finds the list empty. *)
<1>7. CASE rank[c] = 0
  <2>1. n = Nil /\ p = Nil
    BY <1>1, <1>7 DEF OrderInv, Below, Above, TypeOK, Pointers
  <2>2. Members = {}
    BY <1>2, <1>7 DEF CountInv, RefusedEmpty, Refusals
  <2>3. Listed' = {}
    BY <1>3, <2>2 DEF Listed, Members, Before74
  <2>4. After(Nil)' = Nil
    BY <1>2, <2>1 DEF After
  <2>5. BothWays'
    BY <2>3, <2>4 DEF BothWays
  <2>6. NoneSkipped'
    BY <2>3 DEF NoneSkipped
  <2> QED
    BY <1>5, <1>6, <2>5, <2>6
<1>8. CASE rank[c] # 0
  <2>1. c \in Listed /\ Bypassed(c)
    BY <1>2, <1>8 DEF Listed, Bypassed, Before74, TypeOK
  <2>2. /\ c # Nil /\ rank[c] > 0
        /\ \A d \in Channels : d # c => ~Bypassed(d)
        /\ n \in Listed \cup {Nil} /\ n # c /\ p \in Listed \cup {Nil} /\ p # c
        /\ After(p) = c /\ (n # Nil => prev[n] = p)
    BY <1>1, <1>2, <2>1, Neighbours
  <2>3. \A y \in Pointers : After(y)' = IF y = p THEN n ELSE After(y)
    BY <1>2, NilAssumption DEF After, Pointers
  <2>4. \A y \in Listed' \cup {Nil} : y \in Pointers /\ y # c
    BY <1>3, <2>2 DEF Pointers
  <2>5. ASSUME NEW y \in Listed' \cup {Nil}, After(y)' # Nil
        PROVE  After(y)' \in Listed' /\ prev[After(y)'] = y
    <3>1. CASE y = p
      BY <1>3, <2>2, <2>3, <2>4, <2>5, <3>1
    <3>2. CASE y # p
      <4>1. After(y)' = After(y) /\ y # c
        BY <2>3, <2>4, <3>2
      <4>2. y \in Listed \cup {Nil} /\ (y \in Listed => ~Bypassed(y))
        BY <1>3, <2>2, <4>1
      <4>3. After(y) \in Listed /\ prev[After(y)] = y
        BY <2>5, <4>1, <4>2 DEF BothWays
      <4>4. After(y) # c
        BY <1>1, <3>2, <4>3
      <4> QED
        BY <1>3, <4>1, <4>3, <4>4
    <3> QED
      BY <3>1, <3>2
  <2>6. ASSUME NEW x \in Listed'
        PROVE  prev[x] \in Listed' \cup {Nil} /\ After(prev[x])' = x
    <3>1. x \in Listed /\ x # c /\ x \in Channels
      BY <1>3
    <3>2. PICK y \in Pointers : y = prev[x]
      BY <3>1 DEF TypeOK
    <3>3. y \in Listed \cup {Nil} /\ (After(y) = x \/ (After(y) = c /\ n = x /\ p = y))
      BY <1>1, <1>3, <2>2, <3>1, <3>2 DEF BothWays
    <3>4. y # c
      <4>1. y = c => After(y) = n
        BY <1>1, <2>2 DEF After
      <4> QED
        BY <2>2, <3>1, <3>2, <3>3, <4>1, NilAssumption
    <3>5. After(y)' = x
      BY <2>2, <2>3, <3>1, <3>3
    <3>6. After(prev[x])' = After(y)'
      BY <1>2, <3>2
    <3> QED
      BY <1>3, <3>2, <3>3, <3>4, <3>5, <3>6
  <2>7. BothWays'
    <3>1. \A y \in Listed' : ~Bypassed(y)'
      BY <1>3, <1>4
    <3>2. \A y \in Listed' \cup {Nil} : After(y)' # Nil => After(y)' \in Listed' /\ prev'[After(y)'] = y
      BY <1>2, <2>5
    <3>3. \A x \in Listed' : prev'[x] \in Listed' \cup {Nil} /\ After(prev[x])' = x
      BY <1>2, <2>6
    <3> QED
      BY <3>1, <3>2, <3>3, Zenon DEF BothWays
  <2>8. NoneSkipped'
    <3> SUFFICES ASSUME NEW d \in Listed', NEW y \in Pointers, y = Nil \/ rank[y] > rank[d]
                 PROVE  Passes(y, d)'
      BY <1>2 DEF NoneSkipped, hist
    <3>1. d \in Listed /\ d # c /\ d \in Channels
      BY <1>3
    <3>2. Passes(y, d)
      BY <3>1 DEF NoneSkipped
    <3>3. CASE y = p
      <4>1. rank[d] <= rank[c]
        BY <2>2, <3>2, <3>3 DEF Passes
      <4>2. rank[d] # rank[c]
        BY <2>2, <3>1 DEF DistinctRanks
      <4>3. rank[c] > rank[d]
        <5>1. rank[c] \in Nat /\ rank[d] \in Nat
          BY <3>1 DEF TypeOK
        <5> QED
          BY <4>1, <4>2, <5>1
      <4>4. Passes(c, d)
        BY <3>1, <4>3 DEF NoneSkipped, Pointers
      <4>5. n # Nil /\ rank[d] <= rank[n]
        BY <1>1, <2>2, <4>4 DEF Passes, After
      <4> QED
        BY <1>2, <2>3, <3>3, <4>5 DEF Passes, hist
    <3>4. CASE y # p
      BY <1>2, <2>3, <3>2, <3>4 DEF Passes, hist
    <3> QED
      BY <3>3, <3>4
  <2> QED
    BY <1>5, <1>6, <2>7, <2>8
<1> QED
  BY <1>7, <1>8

LEMMA SerialLinksStep ==
    TypeOK /\ OrderInv /\ CountInv /\ OneDeleter /\ SerialLinks /\ [Next]_vars => SerialLinks'
<1> SUFFICES ASSUME TypeOK, OrderInv, CountInv, OneDeleter, SerialLinks, [Next]_vars PROVE SerialLinks'
  OBVIOUS
<1>1. ASSUME UNCHANGED <<links, walk, hist>>, Listed' = Listed, Registers',
             \A d \in Listed : /\ Bypassed(d) => Bypassed(d)'
                               /\ Bypassed(d)' => Bypassed(d) \/ next[d] = Nil
      PROVE  SerialLinks'
  <2>1. NoneMissed'
    BY <1>1 DEF SerialLinks, NoneMissed, walk, hist
  <2> QED
    BY <1>1, <2>1, SerialLinksKept
<1>2. Registers
  BY DEF SerialLinks
<1>3. ASSUME NEW c \in Channels, PutLock(c) \/ PutRefused(c) \/ Disconnect(c) PROVE SerialLinks'
  <2>1. Listed' = Listed
    BY <1>3 DEF PutLock, PutRefused, Disconnect, CountInv, PhaseRank, Listed, Before74, TypeOK, Goto, hist
  <2>2. UNCHANGED <<links, walk, hist, loc>> /\ pc[c] \in {"new", "locking", "member", "refused"}
        /\ pc'[c] \in {"locking", "refused", "closing"}
        /\ \A d \in Channels : d # c => pc'[d] = pc[d]
    BY <1>3 DEF PutLock, PutRefused, Disconnect, TypeOK, Goto
  <2>3. Registers'
    BY <1>2, <2>2 DEF Registers, links
  <2> QED
    BY <1>1, <2>1, <2>2, <2>3 DEF Bypassed, Listed
<1>4. ASSUME NEW c \in Channels,
             \/ DeleteRLock(c) \/ ReloadNext(c) \/ LoadPrevOfNext(c)
             \/ LoadPrev(c) \/ ReloadPrev(c) \/ LoadNext(c)
      PROVE  SerialLinks'
  <2>1. Listed' = Listed
    BY <1>4 DEF DeleteRLock, ReloadNext, LoadPrevOfNext, LoadPrev, ReloadPrev, LoadNext, Listed, Before74, TypeOK, Goto, hist
  <2>2. /\ UNCHANGED <<links, walk, hist>>
        /\ \A d \in Channels : d # c => pc'[d] = pc[d] /\ loc'[d] = loc[d]
    BY <1>4 DEF DeleteRLock, ReloadNext, LoadPrevOfNext, LoadPrev, ReloadPrev, LoadNext, TypeOK, Goto
  <2>3. /\ pc'[c] \in {"66", "66p", "66w", "70w", "72w"} => loc'[c].n = next[c]
        /\ pc'[c] \in {"66w", "70", "70n", "70w", "72", "72w"} => loc'[c].p = prev[c]
    BY <1>2, <1>4 DEF DeleteRLock, ReloadNext, LoadPrevOfNext, LoadPrev, ReloadPrev, LoadNext, Registers, TypeOK, Goto
  <2>4. /\ Bypassed(c) => Bypassed(c)'
        /\ Bypassed(c)' => Bypassed(c) \/ next[c] = Nil
    BY <1>4 DEF DeleteRLock, ReloadNext, LoadPrevOfNext, LoadPrev, ReloadPrev, LoadNext, Bypassed, TypeOK, Goto
  <2>5. Registers'
    BY <1>2, <2>2, <2>3 DEF Registers, links
  <2>6. \A d \in Channels : d # c => (Bypassed(d)' <=> Bypassed(d))
    BY <2>2 DEF Bypassed
  <2>7. Listed \subseteq Channels
    BY DEF Listed
  <2> QED
    BY <1>1, <2>1, <2>2, <2>4, <2>5, <2>6, <2>7
<1>8. ASSUME NEW c \in Channels, NilNext(c) \/ NilPrev(c) PROVE FALSE
  BY <1>2, <1>8 DEF NilNext, NilPrev, Registers, OrderInv
<1>5. ASSUME NEW c \in Channels,
             LoadCount(c) \/ StoreCount(c) \/ ClearDrop(c) \/ TestCount(c) \/ SetDrop(c) \/ ReturnDrop(c)
      PROVE  SerialLinks'
  <2>1. /\ UNCHANGED <<links, walk, hist>>
        /\ pc[c] \in {"74", "74w", "75", "76", "77", "80"}
        /\ pc'[c] \in {"74w", "75", "76", "77", "80", "dropped", "kept"}
        /\ \A d \in Channels : d # c => pc'[d] = pc[d] /\ loc'[d] = loc[d]
    BY <1>5 DEF LoadCount, StoreCount, ClearDrop, TestCount, SetDrop, ReturnDrop, TypeOK, Goto
  <2>2. Listed' = Listed
    BY <2>1 DEF Listed, Before74, hist
  <2>3. Registers'
    BY <1>2, <2>1 DEF Registers, links
  <2> QED
    BY <1>1, <2>1, <2>2, <2>3 DEF Bypassed, Listed
<1>6. ASSUME NEW p \in Pushers, PushBegin(p) \/ PushTo(p) \/ PushEnd(p) PROVE SerialLinks'
  <2>1. UNCHANGED <<links, hist, pc, loc>>
    BY <1>6 DEF PushBegin, PushTo, PushEnd
  <2>2. Listed' = Listed /\ Registers' /\ \A d : Bypassed(d)' <=> Bypassed(d)
    BY <1>2, <2>1 DEF Listed, Registers, Bypassed, links, hist
  <2>3. ASSUME NEW q \in pushing', NEW d \in Listed \ visited'[q]
        PROVE  cursor'[q] # Nil /\ rank[d] <= rank[cursor'[q]]
    <3>1. CASE q # p
      <4>1. q \in pushing /\ cursor'[q] = cursor[q] /\ visited'[q] = visited[q]
        BY <1>6, <2>3, <3>1 DEF PushBegin, PushTo, PushEnd, TypeOK
      <4> QED
        BY <2>3, <4>1 DEF SerialLinks, NoneMissed
    <3>2. CASE q = p /\ PushBegin(p)
      <4>1. cursor'[q] = head
        BY <3>2 DEF PushBegin, TypeOK
      <4>2. Passes(Nil, d)
        BY <2>3 DEF SerialLinks, NoneSkipped, Pointers
      <4> QED
        BY <4>1, <4>2 DEF Passes, After
    <3>3. CASE q = p /\ PushTo(p)
      <4>1. PICK c \in Channels : c = cursor[p]
        BY <3>3 DEF PushTo, TypeOK, Pointers
      <4>2. /\ p \in pushing /\ visited'[p] = visited[p] \cup {c} /\ cursor'[p] = next[c]
        BY <3>3, <4>1 DEF PushTo, TypeOK
      <4>3. d \in Listed \ visited[p] /\ d # c /\ d \in Channels
        BY <2>3, <3>3, <4>2 DEF Listed
      <4>4. rank[d] <= rank[c]
        BY <4>1, <4>2, <4>3 DEF SerialLinks, NoneMissed
      <4>5. rank[d] # rank[c]
        BY <4>3 DEF SerialLinks, DistinctRanks, Listed
      <4>6. rank[c] > rank[d]
        <5>1. rank[c] \in Nat /\ rank[d] \in Nat
          BY <4>3 DEF TypeOK
        <5> QED
          BY <4>4, <4>5, <5>1
      <4>7. Passes(c, d)
        BY <4>3, <4>6 DEF SerialLinks, NoneSkipped, Pointers
      <4> QED
        BY <3>3, <4>2, <4>7, NilAssumption DEF Passes, After
    <3>4. CASE q = p /\ PushEnd(p)
      BY <2>3, <3>4 DEF PushEnd
    <3> QED
      BY <1>6, <3>1, <3>2, <3>3, <3>4
  <2>4. NoneMissed'
    BY <2>1, <2>2, <2>3 DEF NoneMissed, hist
  <2> QED
    BY <2>1, <2>2, <2>4, SerialLinksKept
<1>7. CASE UNCHANGED vars
  <2>1. Listed' = Listed /\ Registers' /\ \A d : Bypassed(d)' <=> Bypassed(d)
    BY <1>2, <1>7 DEF vars, Listed, Registers, Bypassed, links, hist
  <2> QED
    BY <1>1, <1>7, <2>1 DEF vars
<1> QED
  BY <1>3, <1>4, <1>5, <1>6, <1>7, <1>8, SerialPutLink, SerialStorePrev, SerialStoreNext DEF Next, DeleteStep

LEMMA SerialLinksCorrect == SerialSpec => [](TypeOK /\ OrderInv /\ SerialLinks)
<1>1. TypeOK /\ OrderInv /\ CountInv /\ OneDeleter /\ SerialLinks /\ [Next /\ OneDeleter']_vars => SerialLinks'
  BY SerialLinksStep
<1> QED
  BY <1>1, SerialCorrect, SerialLinksInit, PTL DEF SerialSpec

(* Where no two DeleteChannel calls overlap, none of them meets the nil pointer of line 66
   or 70: nobody changes a neighbour between its test and its use. *)
THEOREM DeletesDoNotPanic == SerialSpec => []Running
<1>1. Init => Running
  BY DEF Init, Running
<1>2. TypeOK /\ OrderInv /\ SerialLinks /\ Running /\ [Next /\ OneDeleter']_vars => Running'
  <2> SUFFICES ASSUME TypeOK, OrderInv, SerialLinks, Running, [Next]_vars, NEW d \in Channels
               PROVE  pc'[d] # "panic"
    BY DEF Running
  <2>1. \A c \in Channels : ~NilNext(c) /\ ~NilPrev(c)
    BY DEF NilNext, NilPrev, SerialLinks, Registers, OrderInv
  <2>2. \A c \in Channels : DeleteStep(c) => pc'[d] # "panic"
    BY <2>1, SMTT(20)
       DEF DeleteStep, DeleteRLock, ReloadNext, LoadPrevOfNext, StorePrevOfNext, LoadPrev,
           ReloadPrev, LoadNext, StoreNext, StoreHead, LoadCount, StoreCount, ClearDrop,
           TestCount, SetDrop, ReturnDrop, Goto, TypeOK, Running
  <2>3. \A c \in Channels : PutLock(c) \/ PutLink(c) \/ PutRefused(c) \/ Disconnect(c) => pc'[d] # "panic"
    BY DEF PutLock, PutLink, PutRefused, Disconnect, Goto, TypeOK, Running
  <2>4. \A p \in Pushers : PushBegin(p) \/ PushTo(p) \/ PushEnd(p) => pc' = pc
    BY DEF PushBegin, PushTo, PushEnd
  <2> QED
    BY <2>2, <2>3, <2>4 DEF Next, vars, Running
<1> QED
  BY <1>1, <1>2, SerialLinksCorrect, PTL DEF SerialSpec

(* Where no two DeleteChannel calls overlap, a Push that has reached the end of the list has
   pushed to everybody in the room, although connections left under the walk: it goes on from
   one that has left to one that it has not passed yet. *)
THEOREM NobodyIsMissed == SerialSpec => []EveryMemberPushed
<1>1. SerialLinks => EveryMemberPushed
  BY DEF SerialLinks, NoneMissed, EveryMemberPushed, Listed
<1> QED
  BY <1>1, SerialLinksCorrect, PTL

-----------------------------------------------------------------------------
(***************************************************************************)
(* The list as Push walks it.  The walk is recursive over its index: its   *)
(* equations, and what holds at every index, are proved by induction, for  *)
(* predicates given as sets.                                               *)
(***************************************************************************)

(* A set of numbers that is not empty has a least one: its initial segments are finite. *)
LEMMA LeastNumber ==
    ASSUME NEW T \in SUBSET Nat, T # {}
    PROVE  \E m \in T : \A k \in T : m <= k
<1> DEFINE Segments == {0 .. k : k \in T}
<1>1. Segments # {} /\ Segments \subseteq FiniteSubsetsOf(Nat)
  <2>1. \A k \in T : IsFiniteSet(0 .. k) /\ 0 .. k \in SUBSET Nat
    BY FS_Interval
  <2> QED
    BY <2>1 DEF FiniteSubsetsOf
<1>2. IsWellFoundedOn(StrictSubsetOrdering(Nat), FiniteSubsetsOf(Nat))
  BY FS_StrictSubsetOrderingWellFounded
<1>3. PICK X \in Segments : \A Y \in Segments : <<Y, X>> \notin StrictSubsetOrdering(Nat)
  <2> HIDE DEF Segments
  <2> QED
    BY <1>1, <1>2, WFMin
<1>4. PICK m \in T : X = 0 .. m
  OBVIOUS
<1>5. ASSUME NEW k \in T, k < m PROVE FALSE
  <2>1. 0 .. k \in Segments /\ 0 .. k \subseteq 0 .. m /\ m \notin 0 .. k /\ m \in 0 .. m
    BY <1>5
  <2>2. <<0 .. k, 0 .. m>> \in StrictSubsetOrdering(Nat)
    BY <2>1 DEF StrictSubsetOrdering
  <2> QED
    BY <1>3, <1>4, <2>1, <2>2
<1> QED
  BY <1>5

LEMMA Induction ==
    ASSUME NEW S, 0 \in S, \A n \in Nat : n \in S => n + 1 \in S
    PROVE  \A n \in Nat : n \in S
<1> SUFFICES ASSUME {n \in Nat : n \notin S} # {} PROVE FALSE
  OBVIOUS
<1>1. PICK m \in Nat : m \notin S /\ \A k \in Nat : k \notin S => m <= k
  BY LeastNumber
<1>2. m # 0
  BY <1>1
<1>3. m - 1 \in Nat /\ m - 1 \in S /\ m = (m - 1) + 1
  BY <1>1, <1>2
<1> QED
  BY <1>1, <1>3

Last == Cardinality(Channels)

(* f is the first n pointers from Room.next on. *)
IsWalk(f, n) ==
    f = [i \in 0 .. n |-> IF i = 0 THEN head ELSE IF f[i - 1] = Nil THEN Nil ELSE next[f[i - 1]]]

LEMMA LastIsNat == Last \in Nat
BY FiniteAssumption, FS_CardinalityType DEF Last

LEMMA WalkExists == \A n \in Nat : \E f : IsWalk(f, n)
<1> DEFINE S == {n \in Nat : \E f : IsWalk(f, n)}
<1>1. 0 \in S
  <2> DEFINE g == [i \in 0 .. 0 |-> head]
  <2>1. IsWalk(g, 0)
    BY DEF IsWalk
  <2> QED
    BY <2>1
<1>2. ASSUME NEW n \in Nat, n \in S PROVE n + 1 \in S
  <2> PICK f : IsWalk(f, n)
    BY <1>2
  <2> DEFINE g == [i \in 0 .. n + 1 |-> IF i = n + 1 THEN IF f[n] = Nil THEN Nil ELSE next[f[n]] ELSE f[i]]
  <2>1. \A i \in 0 .. n : f[i] = IF i = 0 THEN head ELSE IF f[i - 1] = Nil THEN Nil ELSE next[f[i - 1]]
    BY DEF IsWalk
  <2>2. \A i \in 0 .. n : g[i] = f[i]
    OBVIOUS
  <2>3. \A i \in 0 .. n + 1 : g[i] = IF i = 0 THEN head ELSE IF g[i - 1] = Nil THEN Nil ELSE next[g[i - 1]]
    <3> TAKE i \in 0 .. n + 1
    <3>1. CASE i = n + 1
      <4>1. i # 0 /\ i - 1 = n /\ g[n] = f[n]
        BY <2>2, <3>1
      <4>2. g[i] = IF f[n] = Nil THEN Nil ELSE next[f[n]]
        BY <3>1
      <4> HIDE DEF g
      <4> QED
        BY <4>1, <4>2
    <3>2. CASE i # n + 1
      <4>1. i \in 0 .. n /\ (i # 0 => i - 1 \in 0 .. n)
        BY <3>2
      <4> HIDE DEF g
      <4> QED
        BY <2>1, <2>2, <4>1
    <3> QED
      BY <3>1, <3>2
  <2>4. IsWalk(g, n + 1)
    <3>1. g = [i \in 0 .. n + 1 |-> g[i]]
      OBVIOUS
    <3> HIDE DEF g
    <3> QED
      BY <2>3, <3>1 DEF IsWalk
  <2> HIDE DEF g
  <2> QED
    BY <2>4
<1> HIDE DEF S
<1>3. \A n \in Nat : n \in S
  BY <1>1, <1>2, Induction
<1> QED
  BY <1>3 DEF S

(* Chain is what a walk of the length of the set of connections meets. *)
LEMMA ChainIsWalk == \E f : IsWalk(f, Last) /\ Chain = {f[i] : i \in 0 .. Last} \ {Nil}
<1>1. \E f : IsWalk(f, Last)
  BY WalkExists, LastIsNat
<1> DEFINE w == CHOOSE f : f = [i \in 0 .. Last |-> IF i = 0 THEN head
                                                    ELSE IF f[i - 1] = Nil THEN Nil ELSE next[f[i - 1]]]
<1>2. IsWalk(w, Last)
  BY <1>1 DEF IsWalk
<1>3. Chain = {w[i] : i \in 0 .. Last} \ {Nil}
  BY DEF Chain, Last
<1> HIDE DEF w
<1> QED
  BY <1>2, <1>3

(* There are not enough connections for a walk that does not end: it only goes down. *)
LEMMA WalkEnds ==
    ASSUME TypeOK, OrderInv, NEW w, IsWalk(w, Last)
    PROVE  w[Last] = Nil /\ \A i \in 0 .. Last : w[i] \in Pointers
<1>0. Last \in Nat
  BY LastIsNat
<1>1. \A i \in 0 .. Last : w[i] = IF i = 0 THEN head ELSE IF w[i - 1] = Nil THEN Nil ELSE next[w[i - 1]]
  BY DEF IsWalk
<1>2. w = [i \in 0 .. Last |-> w[i]]
  BY DEF IsWalk
<1> DEFINE Down(n) == /\ w[n] \in Pointers
                      /\ w[n] # Nil => \A i \in 0 .. n - 1 : w[i] \in Channels /\ rank[w[n]] < rank[w[i]]
           S == {n \in Nat : n <= Last => Down(n)}
<1>3. 0 \in S
  <2>1. w[0] = head
    BY <1>0, <1>1
  <2> QED
    BY <2>1 DEF TypeOK
<1>4. ASSUME NEW n \in Nat, n \in S PROVE n + 1 \in S
  <2> SUFFICES ASSUME n + 1 <= Last PROVE Down(n + 1)
    OBVIOUS
  <2>1. Down(n)
    BY <1>0, <1>4
  <2>2. w[n + 1] = IF w[n] = Nil THEN Nil ELSE next[w[n]]
    <3>1. n + 1 \in 0 .. Last /\ n + 1 # 0 /\ (n + 1) - 1 = n
      BY <1>0
    <3> QED
      BY <1>1, <3>1
  <2>3. CASE w[n + 1] = Nil
    BY <2>3 DEF Pointers
  <2>4. CASE w[n + 1] # Nil
    <3>1. w[n] \in Channels /\ w[n + 1] = next[w[n]]
      BY <2>1, <2>2, <2>4 DEF Pointers
    <3>2. w[n + 1] \in Channels /\ rank[w[n + 1]] < rank[w[n]]
      BY <2>4, <3>1 DEF OrderInv, Below, TypeOK, Pointers
    <3>3. ASSUME NEW i \in 0 .. (n + 1) - 1 PROVE w[i] \in Channels /\ rank[w[n + 1]] < rank[w[i]]
      <4>1. CASE i = n
        BY <3>1, <3>2, <4>1
      <4>2. CASE i # n
        <5>1. i \in 0 .. n - 1 /\ w[n] # Nil
          BY <3>1, <4>2, NilAssumption
        <5>2. w[i] \in Channels /\ rank[w[n]] < rank[w[i]]
          BY <2>1, <5>1
        <5>3. rank[w[n + 1]] \in Nat /\ rank[w[n]] \in Nat /\ rank[w[i]] \in Nat
          BY <3>1, <3>2, <5>2 DEF TypeOK
        <5> QED
          BY <3>2, <5>2, <5>3
      <4> QED
        BY <4>1, <4>2
    <3> QED
      BY <3>2, <3>3 DEF Pointers
  <2> QED
    BY <2>3, <2>4
<1>5. \A n \in Nat : n \in S
  <2> HIDE DEF S
  <2> QED
    BY <1>3, <1>4, Induction
<1>6. \A n \in 0 .. Last : Down(n)
  BY <1>0, <1>5
<1>7. ASSUME w[Last] # Nil PROVE FALSE
  <2>1. \A i \in 0 .. Last : w[i] \in Channels
    <3>1. Last \in 0 .. Last
      BY <1>0
    <3> QED
      BY <1>0, <1>6, <1>7, <3>1 DEF Pointers
  <2>2. w \in [0 .. Last -> Channels]
    BY <1>2, <2>1
  <2>3. IsFiniteSet(0 .. Last) /\ Cardinality(0 .. Last) = Last + 1
    BY <1>0, FS_Interval
  <2>4. PICK i, j \in 0 .. Last : i # j /\ w[i] = w[j]
    <3>1. Cardinality(Channels) < Cardinality(0 .. Last)
      BY <1>0, <2>3 DEF Last
    <3> QED
      BY <2>2, <2>3, <3>1, FiniteAssumption, FS_PigeonHole
  <2>5. \A a, b \in 0 .. Last : a < b => w[a] # w[b]
    <3> SUFFICES ASSUME NEW a \in 0 .. Last, NEW b \in 0 .. Last, a < b PROVE w[a] # w[b]
      OBVIOUS
    <3>1. w[b] # Nil /\ a \in 0 .. b - 1
      BY <2>1, NilAssumption
    <3>2. rank[w[b]] < rank[w[a]] /\ rank[w[b]] \in Nat /\ rank[w[a]] \in Nat
      BY <1>6, <2>1, <3>1 DEF TypeOK
    <3> QED
      BY <3>2
  <2> QED
    BY <1>0, <2>4, <2>5
<1> QED
  BY <1>6, <1>7

(* What the head leads to is exactly who is in the list: a link leads to nobody else, and a
   walk that skips no one and ends has met everybody. *)
LEMMA ChainIsListed ==
    ASSUME TypeOK, OrderInv, SerialLinks
    PROVE  Chain = Listed
<1>1. PICK w : IsWalk(w, Last) /\ Chain = {w[i] : i \in 0 .. Last} \ {Nil}
  BY ChainIsWalk
<1>0. Last \in Nat
  BY LastIsNat
<1>2. \A i \in 0 .. Last : w[i] = IF i = 0 THEN After(Nil) ELSE IF w[i - 1] = Nil THEN Nil ELSE After(w[i - 1])
  BY <1>1 DEF IsWalk, After
<1>3. w[Last] = Nil /\ \A i \in 0 .. Last : w[i] \in Pointers
  BY <1>1, WalkEnds
<1>4. ASSUME NEW n \in Nat, n + 1 <= Last PROVE w[n + 1] = IF w[n] = Nil THEN Nil ELSE After(w[n])
  <2>1. n + 1 \in 0 .. Last /\ n + 1 # 0 /\ (n + 1) - 1 = n
    BY <1>0, <1>4
  <2> QED
    BY <1>2, <2>1
<1>5. w[0] = After(Nil)
  BY <1>0, <1>2
<1>6. Listed \subseteq Channels
  BY DEF Listed
<1>7. Chain \subseteq Listed
  <2> DEFINE S == {n \in Nat : n <= Last => w[n] \in Listed \cup {Nil}}
  <2>1. 0 \in S
    BY <1>5 DEF SerialLinks, BothWays
  <2>2. ASSUME NEW n \in Nat, n \in S PROVE n + 1 \in S
    <3> SUFFICES ASSUME n + 1 <= Last PROVE w[n + 1] \in Listed \cup {Nil}
      OBVIOUS
    <3>1. w[n] \in Listed \cup {Nil}
      BY <1>0, <2>2
    <3> QED
      BY <1>4, <3>1 DEF SerialLinks, BothWays
  <2> HIDE DEF S
  <2>3. \A n \in Nat : n \in S
    BY <2>1, <2>2, Induction
  <2>4. \A n \in 0 .. Last : w[n] \in Listed \cup {Nil}
    BY <1>0, <2>3 DEF S
  <2> QED
    BY <1>1, <2>4
<1>8. ASSUME NEW d \in Listed, d \notin Chain PROVE FALSE
  <2> DEFINE S == {n \in Nat : n <= Last => w[n] \in Channels /\ rank[d] < rank[w[n]]}
  <2>1. ASSUME NEW n \in 0 .. Last, w[n] # Nil, rank[d] <= rank[w[n]]
        PROVE  w[n] \in Channels /\ rank[d] < rank[w[n]]
    <3>1. w[n] \in Channels /\ w[n] # d
      BY <1>1, <1>3, <1>8, <2>1 DEF Pointers
    <3>2. rank[d] # rank[w[n]]
      BY <3>1 DEF SerialLinks, DistinctRanks, Listed
    <3>3. rank[d] \in Nat /\ rank[w[n]] \in Nat
      BY <1>6, <3>1 DEF TypeOK
    <3> QED
      BY <2>1, <3>1, <3>2, <3>3
  <2>2. 0 \in S
    <3>1. Passes(Nil, d)
      BY DEF SerialLinks, NoneSkipped, Pointers
    <3> QED
      BY <1>0, <1>5, <2>1, <3>1 DEF Passes
  <2>3. ASSUME NEW n \in Nat, n \in S PROVE n + 1 \in S
    <3> SUFFICES ASSUME n + 1 <= Last PROVE w[n + 1] \in Channels /\ rank[d] < rank[w[n + 1]]
      OBVIOUS
    <3>1. w[n] \in Channels /\ rank[d] < rank[w[n]]
      BY <1>0, <2>3
    <3>2. rank[w[n]] > rank[d]
      BY <1>6, <3>1 DEF TypeOK
    <3>3. Passes(w[n], d)
      BY <3>1, <3>2 DEF SerialLinks, NoneSkipped, Pointers
    <3>4. w[n + 1] = After(w[n]) /\ n + 1 \in 0 .. Last
      BY <1>0, <1>4, <3>1, NilAssumption
    <3> QED
      BY <2>1, <3>3, <3>4 DEF Passes
  <2> HIDE DEF S
  <2>4. \A n \in Nat : n \in S
    BY <2>2, <2>3, Induction
  <2>5. w[Last] \in Channels
    BY <1>0, <2>4 DEF S
  <2> QED
    BY <1>3, <2>5, NilAssumption
<1> QED
  BY <1>7, <1>8

(* Where no two DeleteChannel calls overlap, the list is the members whenever none is in
   progress, linked both ways: nobody is lost from it, and nobody who left stays in it. *)
THEOREM ListIsExact == SerialSpec => []ListExact
<1>1. TypeOK /\ OrderInv /\ SerialLinks => ListExact
  <2> SUFFICES ASSUME TypeOK, OrderInv, SerialLinks, Quiet
               PROVE  Chain = Members /\ \A c \in Members : next[c] # Nil => prev[next[c]] = c
    BY DEF ListExact
  <2>1. Members = Listed
    BY DEF Quiet, Members, Listed, Deleting, Before74
  <2>2. \A c \in Channels : ~Bypassed(c)
    BY DEF Quiet, Bypassed, Deleting, Before74
  <2>3. ASSUME NEW c \in Listed, next[c] # Nil PROVE prev[next[c]] = c
    <3>1. c \in Channels /\ c # Nil
      BY NilAssumption DEF Listed
    <3> QED
      BY <2>2, <2>3, <3>1 DEF SerialLinks, BothWays, After
  <2> QED
    BY <2>1, <2>3, ChainIsListed
<1> QED
  BY <1>1, SerialLinksCorrect, PTL
=============================================================================
