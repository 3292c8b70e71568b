-------------------------------- MODULE Room --------------------------------
(***************************************************************************)
(* connect/room.go and the links of connect/channel.go: the doubly linked  *)
(* list of the connections of one room, its RWMutex, its OnlineCount and   *)
(* its drop mark, under any number of connections that join and leave and  *)
(* any number of broadcast goroutines (bucket.go PushRoom) that walk it.   *)
(*                                                                         *)
(* DeleteChannel changes the list under the READ lock, so several of them  *)
(* and the walks interleave.  A step of DeleteChannel is one load or store *)
(* of shared memory; a pc is the number of the source line about to run,   *)
(* "n" and "p" marking its load of ch.Next or ch.Prev, "w" its store.      *)
(* Put runs under the write lock and is one step.                          *)
(***************************************************************************)
EXTENDS Integers, FiniteSets

CONSTANTS Channels,     \* the connections (type Channel) that ever meet this room
          Pushers,      \* the goroutines that push broadcasts to it
          Nil           \* the nil *Channel

ASSUME NilAssumption == Nil \notin Channels
ASSUME FiniteAssumption == IsFiniteSet(Channels)

VARIABLES
    next, prev,         \* Channel.Next, Channel.Prev
    head,               \* Room.next
    OnlineCount, drop,  \* Room.OnlineCount, Room.drop
    pc,                 \* where the goroutine of each connection stands
    loc,                \* the registers of its DeleteChannel: n = ch.Next, p = ch.Prev, k = OnlineCount
    pushing,            \* the pushers inside Push
    cursor, visited,    \* their loop variable, and (history) whom they pushed to
    rank, joins         \* history: order of arrival in the list, 0 when never linked

links == <<next, prev, head>>
walk  == <<pushing, cursor, visited>>
hist  == <<rank, joins>>
vars  == <<links, OnlineCount, drop, pc, loc, walk, hist>>

Pointers == Channels \cup {Nil}
NoLocals == [n |-> Nil, p |-> Nil, k |-> 0]

Before74 == {"66", "66p", "66w", "68", "70", "70n", "70w", "72", "72w", "74", "74w", "panic"}
Deleting == Before74 \cup {"75", "76", "77"}
Returned == {"dropped", "kept"}

(* The connections that OnlineCount should be counting: linked by Put and not yet
   subtracted by the store of line 74. *)
Members  == {c \in Channels : rank[c] > 0 /\ pc[c] \in {"member", "closing"} \cup Before74}
(* The connections whose Put answered "room drop". *)
Refusals == {c \in Channels : rank[c] = 0 /\ pc[c] \notin {"new", "locking"}}

(* sync.RWMutex: a waiting writer keeps new readers out; there is one writer at a
   time, the others wait on the inner mutex. *)
WriterWaiting == \E c \in Channels : pc[c] = "locking"
(* Mutant: Put does not wait for DeleteChannel. *)
PushLocked    == pushing # {}
ReadLocked    == pushing # {} \/ \E c \in Channels : pc[c] \in Deleting

Goto(c, label) == pc' = [pc EXCEPT ![c] = label]

Init ==
    /\ next = [c \in Channels |-> Nil]
    /\ prev = [c \in Channels |-> Nil]
    /\ head = Nil
    /\ OnlineCount = 0
    /\ drop = FALSE
    /\ pc = [c \in Channels |-> "new"]
    /\ loc = [c \in Channels |-> NoLocals]
    /\ pushing = {}
    /\ cursor = [p \in Pushers |-> Nil]
    /\ visited = [p \in Pushers |-> {}]
    /\ rank = [c \in Channels |-> 0]
    /\ joins = 0

-----------------------------------------------------------------------------
(* Room.Put *)

PutLock(c) ==
    /\ pc[c] = "new"
    /\ ~WriterWaiting
    /\ Goto(c, "locking")
    /\ UNCHANGED <<links, OnlineCount, drop, loc, walk, hist>>

(* Mutant: the two stores to the links swapped. *)
PutLinkSwapped(c) ==
    /\ pc[c] = "locking"
    /\ ~ReadLocked
    /\ ~drop
    /\ prev' = [x \in Channels |-> IF x = c THEN Nil ELSE IF x = head THEN c ELSE prev[x]]
    /\ head' = c
    /\ next' = [next EXCEPT ![c] = head']
    /\ OnlineCount' = OnlineCount + 1
    /\ rank' = [rank EXCEPT ![c] = joins + 1]
    /\ joins' = joins + 1
    /\ Goto(c, "member")
    /\ UNCHANGED <<drop, loc, walk>>

PutLink(c) ==
    /\ pc[c] = "locking"
    /\ ~ReadLocked
    /\ ~drop
    /\ prev' = [x \in Channels |-> IF x = c THEN Nil ELSE IF x = head THEN c ELSE prev[x]]
    /\ next' = [next EXCEPT ![c] = head]
    /\ head' = c
    /\ OnlineCount' = OnlineCount + 1
    /\ rank' = [rank EXCEPT ![c] = joins + 1]
    /\ joins' = joins + 1
    /\ Goto(c, "member")
    /\ UNCHANGED <<drop, loc, walk>>

(* Mutant: the test of the drop mark is missing. *)
PutRefusedAlways(c) ==
    /\ pc[c] = "locking"
    /\ ~ReadLocked
    /\ Goto(c, "refused")
    /\ UNCHANGED <<links, OnlineCount, drop, loc, walk, hist>>

PutRefused(c) ==
    /\ pc[c] = "locking"
    /\ ~ReadLocked
    /\ drop
    /\ Goto(c, "refused")
    /\ UNCHANGED <<links, OnlineCount, drop, loc, walk, hist>>

-----------------------------------------------------------------------------
(* Room.DeleteChannel.  The connection ends, and its cleanup calls DeleteChannel
   whether Put linked it or refused it: Bucket.Put set ch.Room in both cases. *)

Disconnect(c) ==
    /\ pc[c] \in {"member", "refused"}
    /\ Goto(c, "closing")
    /\ UNCHANGED <<links, OnlineCount, drop, loc, walk, hist>>

DeleteRLock(c) ==
    /\ pc[c] = "closing"
    /\ ~WriterWaiting
    /\ loc' = [loc EXCEPT ![c].n = next[c]]
    /\ Goto(c, IF next[c] # Nil THEN "66" ELSE "68")
    /\ UNCHANGED <<links, OnlineCount, drop, walk, hist>>

(* Line 66 evaluates ch.Next again after the test of line 64: the compiler may keep the
   value it tested or load what memory holds now, which another DeleteChannel may have
   set to nil in between.  The store through nil is a panic, and nothing recovers it. *)
ReloadNext(c) ==
    /\ pc[c] = "66"
    /\ \E n \in {loc[c].n, next[c]} \ {Nil} : loc' = [loc EXCEPT ![c].n = n]
    /\ Goto(c, "66p")
    /\ UNCHANGED <<links, OnlineCount, drop, walk, hist>>

NilNext(c) ==
    /\ pc[c] = "66"
    /\ next[c] = Nil
    /\ Goto(c, "panic")
    /\ UNCHANGED <<links, OnlineCount, drop, loc, walk, hist>>

LoadPrevOfNext(c) ==
    /\ pc[c] = "66p"
    /\ loc' = [loc EXCEPT ![c].p = prev[c]]
    /\ Goto(c, "66w")
    /\ UNCHANGED <<links, OnlineCount, drop, walk, hist>>

(* Mutant: the connection behind becomes a head. *)
StorePrevNil(c) ==
    /\ pc[c] = "66w"
    /\ prev' = [prev EXCEPT ![loc[c].n] = Nil]
    /\ Goto(c, "68")
    /\ UNCHANGED <<next, head, OnlineCount, drop, loc, walk, hist>>

StorePrevOfNext(c) ==
    /\ pc[c] = "66w"
    /\ prev' = [prev EXCEPT ![loc[c].n] = loc[c].p]
    /\ Goto(c, "68")
    /\ UNCHANGED <<next, head, OnlineCount, drop, loc, walk, hist>>

(* Mutant: the test "if ch.Prev != nil" is missing. *)
LoadPrevUntested(c) ==
    /\ pc[c] = "68"
    /\ loc' = [loc EXCEPT ![c].p = prev[c]]
    /\ Goto(c, "72")
    /\ UNCHANGED <<links, OnlineCount, drop, walk, hist>>

LoadPrev(c) ==
    /\ pc[c] = "68"
    /\ loc' = [loc EXCEPT ![c].p = prev[c]]
    /\ Goto(c, IF prev[c] # Nil THEN "70" ELSE "72")
    /\ UNCHANGED <<links, OnlineCount, drop, walk, hist>>

(* Line 70 evaluates ch.Prev again after the test of line 68. *)
ReloadPrev(c) ==
    /\ pc[c] = "70"
    /\ \E p \in {loc[c].p, prev[c]} \ {Nil} : loc' = [loc EXCEPT ![c].p = p]
    /\ Goto(c, "70n")
    /\ UNCHANGED <<links, OnlineCount, drop, walk, hist>>

NilPrev(c) ==
    /\ pc[c] = "70"
    /\ prev[c] = Nil
    /\ Goto(c, "panic")
    /\ UNCHANGED <<links, OnlineCount, drop, loc, walk, hist>>

LoadNext(c) ==
    /\ pc[c] \in {"70n", "72"}
    /\ loc' = [loc EXCEPT ![c].n = next[c]]
    /\ Goto(c, IF pc[c] = "70n" THEN "70w" ELSE "72w")
    /\ UNCHANGED <<links, OnlineCount, drop, walk, hist>>

StoreNext(c) ==
    /\ pc[c] = "70w"
    /\ next' = [next EXCEPT ![loc[c].p] = loc[c].n]
    /\ Goto(c, "74")
    /\ UNCHANGED <<prev, head, OnlineCount, drop, loc, walk, hist>>

StoreHead(c) ==
    /\ pc[c] = "72w"
    /\ head' = loc[c].n
    /\ Goto(c, "74")
    /\ UNCHANGED <<next, prev, OnlineCount, drop, loc, walk, hist>>

(* Mutant: the count is read through a getter that takes the read lock once more. *)
LoadCountNested(c) ==
    /\ pc[c] = "74"
    /\ ~WriterWaiting
    /\ loc' = [loc EXCEPT ![c].k = OnlineCount]
    /\ Goto(c, "74w")
    /\ UNCHANGED <<links, OnlineCount, drop, walk, hist>>

LoadCount(c) ==
    /\ pc[c] = "74"
    /\ loc' = [loc EXCEPT ![c].k = OnlineCount]
    /\ Goto(c, "74w")
    /\ UNCHANGED <<links, OnlineCount, drop, walk, hist>>

(* Mutant: the decrement is missing. *)
StoreCountSame(c) ==
    /\ pc[c] = "74w"
    /\ OnlineCount' = loc[c].k
    /\ Goto(c, "75")
    /\ UNCHANGED <<links, drop, loc, walk, hist>>

StoreCount(c) ==
    /\ pc[c] = "74w"
    /\ OnlineCount' = loc[c].k - 1
    /\ Goto(c, "75")
    /\ UNCHANGED <<links, drop, loc, walk, hist>>

ClearDrop(c) ==
    /\ pc[c] = "75"
    /\ drop' = FALSE
    /\ Goto(c, "76")
    /\ UNCHANGED <<links, OnlineCount, loc, walk, hist>>

(* Mutants: off by one, upwards and downwards. *)
TestCountOne(c) ==
    /\ pc[c] = "76"
    /\ \E count \in {OnlineCount, loc[c].k - 1} :
          Goto(c, IF count <= 1 THEN "77" ELSE "80")
    /\ UNCHANGED <<links, OnlineCount, drop, loc, walk, hist>>

TestCountNegative(c) ==
    /\ pc[c] = "76"
    /\ \E count \in {OnlineCount, loc[c].k - 1} :
          Goto(c, IF count < 0 THEN "77" ELSE "80")
    /\ UNCHANGED <<links, OnlineCount, drop, loc, walk, hist>>

(* Line 76 tests either what memory holds now or the value line 74 stored, which the
   compiler may keep in its register.  On the false branch the read lock is released. *)
TestCount(c) ==
    /\ pc[c] = "76"
    /\ \E count \in {OnlineCount, loc[c].k - 1} :
          Goto(c, IF count <= 0 THEN "77" ELSE "80")
    /\ UNCHANGED <<links, OnlineCount, drop, loc, walk, hist>>

SetDrop(c) ==
    /\ pc[c] = "77"
    /\ drop' = TRUE
    /\ Goto(c, "80")
    /\ UNCHANGED <<links, OnlineCount, loc, walk, hist>>

(* Mutant: the result is computed from the count. *)
ReturnCount(c) ==
    /\ pc[c] = "80"
    /\ Goto(c, IF OnlineCount < 0 THEN "dropped" ELSE "kept")
    /\ loc' = [loc EXCEPT ![c] = NoLocals]
    /\ UNCHANGED <<links, OnlineCount, drop, walk, hist>>

(* "return r.drop", read after RUnlock; TRUE makes Bucket.DeleteChannel remove the room. *)
ReturnDrop(c) ==
    /\ pc[c] = "80"
    /\ Goto(c, IF drop THEN "dropped" ELSE "kept")
    /\ loc' = [loc EXCEPT ![c] = NoLocals]
    /\ UNCHANGED <<links, OnlineCount, drop, walk, hist>>

DeleteStep(c) ==
    \/ DeleteRLock(c) \/ ReloadNext(c) \/ NilNext(c) \/ LoadPrevOfNext(c)
    \/ StorePrevOfNext(c) \/ LoadPrev(c) \/ ReloadPrev(c) \/ NilPrev(c)
    \/ LoadNext(c) \/ StoreNext(c) \/ StoreHead(c)
    \/ LoadCount(c) \/ StoreCount(c) \/ ClearDrop(c) \/ TestCount(c)
    \/ SetDrop(c) \/ ReturnDrop(c)

-----------------------------------------------------------------------------
(* Room.Push: Channel.Push never blocks, so a loop turn is one step. *)

PushBegin(p) ==
    /\ p \notin pushing
    /\ ~WriterWaiting
    /\ pushing' = pushing \cup {p}
    /\ cursor' = [cursor EXCEPT ![p] = head]
    /\ UNCHANGED <<links, OnlineCount, drop, pc, loc, visited, hist>>

PushTo(p) ==
    /\ p \in pushing
    /\ cursor[p] # Nil
    /\ visited' = [visited EXCEPT ![p] = @ \cup {cursor[p]}]
    /\ cursor' = [cursor EXCEPT ![p] = next[cursor[p]]]
    /\ UNCHANGED <<links, OnlineCount, drop, pc, loc, pushing, hist>>

PushEnd(p) ==
    /\ p \in pushing
    /\ cursor[p] = Nil
    /\ pushing' = pushing \ {p}
    /\ visited' = [visited EXCEPT ![p] = {}]
    /\ UNCHANGED <<links, OnlineCount, drop, pc, loc, cursor, hist>>

-----------------------------------------------------------------------------
(* A panic in a cleanup ends the process. *)
Running == \A c \in Channels : pc[c] # "panic"

Next ==
    /\ Running
    /\ \/ \E c \in Channels : PutLock(c) \/ PutLink(c) \/ PutRefused(c)
                              \/ Disconnect(c) \/ DeleteStep(c)
       \/ \E p \in Pushers : PushBegin(p) \/ PushTo(p) \/ PushEnd(p)

(* The Go scheduler runs every goroutine that can run.  Nobody has to connect, to
   disconnect or to broadcast. *)
Fairness ==
    /\ \A c \in Channels : /\ WF_vars(Running /\ (PutLink(c) \/ PutRefused(c)))
                           /\ WF_vars(Running /\ DeleteStep(c))
    /\ \A p \in Pushers : WF_vars(Running /\ (PushTo(p) \/ PushEnd(p)))

Spec     == Init /\ [][Next]_vars
FairSpec == Spec /\ Fairness

(* The behaviours in which no two DeleteChannel calls of the room overlap. *)
OneDeleter == \A c, d \in Channels : pc[c] \in Deleting /\ pc[d] \in Deleting => c = d
SerialSpec == Init /\ [][Next /\ OneDeleter']_vars

-----------------------------------------------------------------------------
(* Every variable has its type. *)
TypeOK ==
    /\ next \in [Channels -> Pointers]
    /\ prev \in [Channels -> Pointers]
    /\ head \in Pointers
    /\ OnlineCount \in Int
    /\ drop \in BOOLEAN
    /\ pc \in [Channels -> {"new", "locking", "member", "refused", "closing", "80"}
                            \cup Deleting \cup Returned]
    /\ loc \in [Channels -> [n : Pointers, p : Pointers, k : Int]]
    /\ pushing \subseteq Pushers
    /\ cursor \in [Pushers -> Pointers]
    /\ visited \in [Pushers -> SUBSET Channels]
    /\ rank \in [Channels -> Nat]
    /\ joins \in Nat

(* However the unlocked stores of lines 66 to 72 interleave, no walk of Push (lines 52-56)
   meets the same connection twice: no message is delivered twice, no walk goes round. *)
NoRepeatVisit == \A p \in pushing : cursor[p] \notin visited[p]

(* The unlocked "OnlineCount--" of line 74 may lose decrements but never one too many:
   while somebody is in the room the count is at least the number of those inside. *)
CountCovers == Members # {} => OnlineCount >= Cardinality(Members)

(* A room marked dropped (line 77) has nobody inside, so removing it from the bucket
   strands no one. *)
DropMeansEmpty == drop => Members = {}

(* When the mark is up, some DeleteChannel has returned it or is about to (line 80): the
   bucket is told that the room can go. *)
DropReported == drop => \E c \in Channels : pc[c] \in {"80", "dropped"}

(* The room implements its abstract specification. *)
status == [c \in Channels |->
              IF rank[c] = 0
                 THEN IF pc[c] \in {"new", "locking"} THEN "out" ELSE "refused"
                 ELSE IF c \in Members THEN "in" ELSE "left"]
Membership == INSTANCE RoomMembership WITH Channels <- Channels, status <- status
Implements == Membership!Spec

(* As long as the process does not die of the nil pointer of line 66 or 70, Put always
   gets the write lock, DeleteChannel always returns, and Push always reaches the end of
   the list, although all three share one lock and the list moves under the walk. *)
OperationsReturn ==
    /\ \A c \in Channels : pc[c] = "locking" ~> pc[c] # "locking" \/ ~Running
    /\ \A c \in Channels : pc[c] = "closing" ~> pc[c] \in Returned \/ ~Running
    /\ \A p \in Pushers : p \in pushing ~> p \notin pushing \/ ~Running

-----------------------------------------------------------------------------
(* What holds when DeleteChannel calls of one room do not overlap (SerialSpec), and
   what the comments of the code say of the room at all times. *)

Quiet == \A c \in Channels : pc[c] \notin Deleting

(* The list as Push walks it from Room.next: the first N pointers. *)
Chain == LET N == Cardinality(Channels)
             walked[i \in 0 .. N] == IF i = 0 THEN head
                                     ELSE IF walked[i - 1] = Nil THEN Nil
                                     ELSE next[walked[i - 1]]
         IN  {walked[i] : i \in 0 .. N} \ {Nil}

(* When a Push has reached the end of the list it has pushed to every connection that is
   in the room (room.go:48, "push one by one from the head"). *)
EveryMemberPushed ==
    \A p \in pushing : cursor[p] = Nil => {c \in Channels : rank[c] > 0 /\ pc[c] = "member"} \subseteq visited[p]

(* With no DeleteChannel in progress the list holds exactly the members, linked both
   ways: nobody who has left is still pushed to. *)
ListExact ==
    Quiet => /\ Chain = Members
             /\ \A c \in Members : next[c] # Nil => prev[next[c]] = c

(* With no DeleteChannel in progress OnlineCount is the number of connections in the room
   (room.go:14, "number of people online in the room"). *)
OnlineCountExact == Quiet /\ Refusals = {} => OnlineCount = Cardinality(Members)

(* When the last member has left, the room is marked for removal (bucket.go:112, "if the
   room is empty, delete it"). *)
EmptyRoomDropped == Quiet /\ joins > 0 /\ Members = {} => drop
=============================================================================
