---------------------------- MODULE SessionProofs ----------------------------
(***************************************************************************)
(* Theorems about Session: for any requests, names and bounds, and however *)
(* the connections of the pool go from one request to another.             *)
(***************************************************************************)
EXTENDS Session, FiniteSetTheorems, SequenceTheorems, TLAPS

-----------------------------------------------------------------------------
(* What the commands make of the data *)

LEMMA ApplyData ==
    ASSUME NEW db \in Db, NEW c \in Writable
    PROVE  /\ Apply(db, c) \in Db
           /\ \A t \in Requests : Apply(db, c).session[t] # Nil =>
                 \/ db.session[t] # Nil /\ Apply(db, c).session[t].user = db.session[t].user
                 \/ c.op = "HMSET" /\ c.key = t /\ Apply(db, c).session[t] = c.val
<1>0. Nil \notin Requests /\ Nil \notin Names
  BY ValuesAssumption
<1>1. CASE c.op = "HMSET"
  <2>1. c.key \in Requests /\ c.val \in Sessions
    BY <1>1 DEF Writable
  <2>2. Apply(db, c) = [db EXCEPT !.session = [db.session EXCEPT ![c.key] = c.val]]
    BY <1>1 DEF Apply, Db
  <2> QED
    BY <1>1, <2>1, <2>2 DEF Db
<1>2. CASE c.op = "EXPIRE"
  <2>1. c.key \in Requests
    BY <1>2 DEF Writable
  <2>2. CASE db.session[c.key] = Nil
    BY <1>2, <2>2 DEF Apply
  <2>3. CASE db.session[c.key] # Nil
    <3>1. db.session[c.key] \in Sessions
      BY <2>1, <2>3 DEF Db
    <3> DEFINE kept == [db.session[c.key] EXCEPT !.ttl = TRUE]
    <3>2. kept \in Sessions /\ kept.user = db.session[c.key].user
      BY <3>1 DEF Sessions
    <3>3. Apply(db, c) = [db EXCEPT !.session = [db.session EXCEPT ![c.key] = kept]]
      BY <1>2, <2>1, <2>3 DEF Apply, Db
    <3> HIDE DEF kept
    <3>4. Apply(db, c) \in Db
      BY <2>1, <3>2, <3>3 DEF Db
    <3>5. \A t \in Requests : Apply(db, c).session[t] = IF t = c.key THEN kept ELSE db.session[t]
      BY <2>1, <3>3 DEF Db
    <3> QED
      BY <2>3, <3>2, <3>4, <3>5
  <2> QED
    BY <2>2, <2>3
<1>3. CASE c.op = "SET"
  <2>1. c.key \in Names /\ c.val \in Requests
    BY <1>3 DEF Writable
  <2>2. Apply(db, c) = [db EXCEPT !.token = [db.token EXCEPT ![c.key] = c.val]]
    BY <1>3 DEF Apply, Db
  <2> QED
    BY <2>1, <2>2 DEF Db
<1> QED
  BY <1>1, <1>2, <1>3 DEF Writable

LEMMA ValueOfData ==
    ASSUME NEW cmds, NEW op, NEW key, NEW was
    PROVE  \/ ValueOf(cmds, op, key, was) = was
           \/ \E i \in DOMAIN cmds : cmds[i].op = op /\ cmds[i].key = key /\ ValueOf(cmds, op, key, was) = cmds[i].val
<1>1. CASE LastOf(cmds, op, key) = {}
  BY <1>1 DEF ValueOf
<1>2. CASE LastOf(cmds, op, key) # {}
  <2> DEFINE i == CHOOSE i \in LastOf(cmds, op, key) : TRUE
  <2>1. i \in LastOf(cmds, op, key)
    BY <1>2
  <2>2. ValueOf(cmds, op, key, was) = cmds[i].val
    BY <1>2 DEF ValueOf
  <2>3. i \in DOMAIN cmds /\ cmds[i].op = op /\ cmds[i].key = key
    BY <2>1 DEF LastOf
  <2> QED
    BY <2>2, <2>3
<1> QED
  BY <1>1, <1>2

LEMMA ReplayData ==
    ASSUME NEW db \in Db, NEW cmds \in Seq(Writable)
    PROVE  /\ Replay(db, cmds) \in Db
           /\ \A t \in Requests : Replay(db, cmds).session[t] # Nil =>
                 \/ db.session[t] # Nil /\ Replay(db, cmds).session[t].user = db.session[t].user
                 \/ \E i \in DOMAIN cmds : /\ cmds[i].op = "HMSET" /\ cmds[i].key = t
                                           /\ Replay(db, cmds).session[t].user = cmds[i].val.user
<1> DEFINE kept(t) == ValueOf(cmds, "HMSET", t, db.session[t])
           now(t)  == Replay(db, cmds).session[t]
<1>1. \A i \in DOMAIN cmds : cmds[i] \in Writable
  OBVIOUS
<1>2. ASSUME NEW t \in Requests
      PROVE  /\ kept(t) \in Sessions \cup {Nil}
             /\ kept(t) # Nil => \/ db.session[t] # Nil /\ kept(t) = db.session[t]
                                 \/ \E i \in DOMAIN cmds : cmds[i].op = "HMSET" /\ cmds[i].key = t /\ kept(t) = cmds[i].val
  <2>1. \/ kept(t) = db.session[t]
        \/ \E i \in DOMAIN cmds : cmds[i].op = "HMSET" /\ cmds[i].key = t /\ kept(t) = cmds[i].val
    BY ValueOfData
  <2>2. \A i \in DOMAIN cmds : cmds[i].op = "HMSET" => cmds[i].val \in Sessions
    BY <1>1 DEF Writable
  <2>3. db.session[t] \in Sessions \cup {Nil}
    BY DEF Db
  <2> HIDE DEF kept
  <2> QED
    BY <2>1, <2>2, <2>3
<1>3. ASSUME NEW t \in Requests
      PROVE  now(t) = kept(t) \/ (kept(t) # Nil /\ now(t) = [kept(t) EXCEPT !.ttl = TRUE])
  BY DEF Replay
<1>4. ASSUME NEW t \in Requests
      PROVE  now(t) \in Sessions \cup {Nil} /\ (now(t) # Nil => kept(t) # Nil /\ now(t).user = kept(t).user)
  <2>1. now(t) = kept(t) \/ (kept(t) # Nil /\ now(t) = [kept(t) EXCEPT !.ttl = TRUE])
    BY <1>3
  <2>2. kept(t) \in Sessions \cup {Nil}
    BY <1>2
  <2> HIDE DEF now, kept
  <2> QED
    BY <2>1, <2>2 DEF Sessions
<1>5. \A u \in Names : ValueOf(cmds, "SET", u, db.token[u]) \in Requests \cup {Nil}
  <2> TAKE u \in Names
  <2>1. \/ ValueOf(cmds, "SET", u, db.token[u]) = db.token[u]
        \/ \E i \in DOMAIN cmds : cmds[i].op = "SET" /\ cmds[i].key = u /\ ValueOf(cmds, "SET", u, db.token[u]) = cmds[i].val
    BY ValueOfData
  <2>2. \A i \in DOMAIN cmds : cmds[i].op = "SET" => cmds[i].val \in Requests
    BY <1>1 DEF Writable
  <2> QED
    BY <2>1, <2>2 DEF Db
<1>6. Replay(db, cmds) \in Db
  <2> DEFINE ses == [t \in Requests |-> now(t)]
             tok == [u \in Names |-> ValueOf(cmds, "SET", u, db.token[u])]
  <2>1. Replay(db, cmds) = [session |-> ses, token |-> tok]
    BY DEF Replay
  <2>2. ses \in [Requests -> Sessions \cup {Nil}]
    BY <1>4
  <2>3. tok \in [Names -> Requests \cup {Nil}]
    BY <1>5
  <2> HIDE DEF ses, tok
  <2> QED
    BY <2>1, <2>2, <2>3 DEF Db
<1>7. ASSUME NEW t \in Requests, now(t) # Nil
      PROVE  \/ db.session[t] # Nil /\ now(t).user = db.session[t].user
             \/ \E i \in DOMAIN cmds : cmds[i].op = "HMSET" /\ cmds[i].key = t /\ now(t).user = cmds[i].val.user
  <2>1. kept(t) # Nil /\ now(t).user = kept(t).user
    BY <1>4, <1>7
  <2> HIDE DEF now, kept
  <2> QED
    BY <1>2, <2>1
<1> QED
  BY <1>6, <1>7

-----------------------------------------------------------------------------
(* The connections of the pool *)

(* Connection c has the write of session t queued; it is queued somewhere. *)
Holds(c, t) == c # Nil /\ \E i \in DOMAIN c.queued : c.queued[i].op = "HMSET" /\ c.queued[i].key = t
Pending(t)  == (\E k \in DOMAIN idle : Holds(idle[k], t)) \/ (\E h \in Requests : Holds(conn[h], t))

(* The write of a session is queued on one connection. *)
PlaceInv ==
    \A t \in Requests :
       /\ \A k, l \in DOMAIN idle : Holds(idle[k], t) /\ Holds(idle[l], t) => k = l
       /\ \A g, h \in Requests : Holds(conn[g], t) /\ Holds(conn[h], t) => g = h
       /\ \A h \in Requests, k \in DOMAIN idle : ~(Holds(conn[h], t) /\ Holds(idle[k], t))

PoolType == idle \in Seq(Conns) /\ conn \in [Requests -> Conns \cup {Nil}]

LEMMA PlainHoldsNothing == Plain \in Conns /\ \A t : ~Holds(Plain, t)
BY DEF Plain, Conns, Holds

(* Request h puts connection c back, which may have one more write queued than it took. *)
LEMMA PutBackPool ==
    ASSUME PoolType, PlaceInv, NEW h \in Requests, NEW c \in Conns, PutBack(h, c),
           \A t \in Requests : Holds(c, t) => Holds(conn[h], t) \/ ~Pending(t)
    PROVE  /\ PoolType' /\ PlaceInv'
           /\ \A k \in DOMAIN idle' : idle'[k] = c \/ (k \in DOMAIN idle /\ idle'[k] = idle[k])
           /\ \A g \in Requests : conn'[g] = IF g = h THEN Nil ELSE conn[g]
           /\ \A t \in Requests : Pending(t)' =>
                 Holds(c, t) \/ (Pending(t) /\ ~Holds(conn[h], t))
<1>1. idle' = Append(idle, c) /\ conn' = [conn EXCEPT ![h] = Nil]
  BY DEF PutBack
<1>2. PoolType'
  BY <1>1 DEF PoolType
<1>3. \A k \in DOMAIN idle' : \/ k \in DOMAIN idle /\ idle'[k] = idle[k]
                              \/ k \notin DOMAIN idle /\ k = Len(idle) + 1 /\ idle'[k] = c
  <2>1. idle \in Seq(Conns) /\ Len(idle) \in Nat /\ DOMAIN idle = 1 .. Len(idle)
    BY DEF PoolType
  <2> QED
    BY <1>1, <2>1
<1>4. \A g \in Requests : conn'[g] = IF g = h THEN Nil ELSE conn[g]
  BY <1>1 DEF PoolType
<1>5. \A t : ~Holds(Nil, t)
  BY DEF Holds
<1>6. ASSUME NEW t \in Requests, Pending(t)' PROVE Holds(c, t) \/ (Pending(t) /\ ~Holds(conn[h], t))
  <2>1. CASE \E k \in DOMAIN idle' : Holds(idle'[k], t)
    <3> PICK k \in DOMAIN idle' : Holds(idle'[k], t)
      BY <2>1
    <3>1. CASE k \in DOMAIN idle /\ idle'[k] = idle[k]
      <4>1. Pending(t) /\ ~Holds(conn[h], t)
        BY <3>1 DEF Pending, PlaceInv
      <4> QED
        BY <4>1
    <3> QED
      BY <1>3, <3>1
  <2>2. CASE \E g \in Requests : Holds(conn'[g], t)
    <3> PICK g \in Requests : Holds(conn'[g], t)
      BY <2>2
    <3>1. g # h /\ Holds(conn[g], t)
      BY <1>4, <1>5
    <3> QED
      BY <3>1 DEF Pending, PlaceInv
  <2>3. (\E k \in DOMAIN idle' : Holds(idle'[k], t)) \/ (\E g \in Requests : Holds(conn'[g], t))
    BY <1>6 DEF Pending, Holds
  <2> QED
    BY <2>1, <2>2, <2>3
<1>7. PlaceInv'
  <2> SUFFICES ASSUME NEW t \in Requests
               PROVE  /\ \A k, l \in DOMAIN idle' : Holds(idle'[k], t) /\ Holds(idle'[l], t) => k = l
                      /\ \A g, f \in Requests : Holds(conn'[g], t) /\ Holds(conn'[f], t) => g = f
                      /\ \A g \in Requests, k \in DOMAIN idle' : ~(Holds(conn'[g], t) /\ Holds(idle'[k], t))
    BY DEF PlaceInv, Holds
  <2>1. Holds(c, t) => (\A k \in DOMAIN idle : ~Holds(idle[k], t)) /\ (\A g \in Requests : g # h => ~Holds(conn[g], t))
    BY DEF PlaceInv, Pending
  <2>2. \A k, l \in DOMAIN idle' : Holds(idle'[k], t) /\ Holds(idle'[l], t) => k = l
    BY <1>3, <2>1 DEF PlaceInv
  <2>3. \A g, f \in Requests : Holds(conn'[g], t) /\ Holds(conn'[f], t) => g = f
    BY <1>4, <1>5 DEF PlaceInv
  <2>4. \A g \in Requests, k \in DOMAIN idle' : ~(Holds(conn'[g], t) /\ Holds(idle'[k], t))
    BY <1>3, <1>4, <1>5, <2>1 DEF PlaceInv
  <2> QED
    BY <2>2, <2>3, <2>4
<1> QED
  BY <1>2, <1>3, <1>4, <1>6, <1>7

(* A connection that was there before, or a new one. *)
Known(c) == c \in {Nil, Plain} \/ (\E k \in DOMAIN idle : c = idle[k]) \/ (\E h \in Requests : c = conn[h])

(* The steps that queue nothing: a connection is taken, closed, or dropped, or all are. *)
LEMMA ClosePool ==
    ASSUME PoolType, PlaceInv, NEW h \in Requests, Close(h)
    PROVE  /\ PoolType' /\ PlaceInv'
           /\ \A k \in DOMAIN idle' : Known(idle'[k])
           /\ \A g \in Requests : Known(conn'[g]) /\ (g # h => conn'[g] = conn[g])
           /\ conn'[h] = Nil
           /\ \A t \in Requests : Pending(t)' => Pending(t)
<1>1. idle' = idle /\ conn' = [conn EXCEPT ![h] = Nil]
  BY DEF Close
<1>2. \A g \in Requests : conn'[g] = IF g = h THEN Nil ELSE conn[g]
  BY <1>1 DEF PoolType
<1>3. \A t : ~Holds(Nil, t)
  BY DEF Holds
<1>4. \A t : \A g \in Requests : Holds(conn'[g], t) => Holds(conn[g], t)
  BY <1>2, <1>3
<1>5. PoolType'
  BY <1>1 DEF PoolType
<1>6. \A t \in Requests : Pending(t)' => Pending(t)
  BY <1>1, <1>4 DEF Pending, Holds
<1>7. PlaceInv'
  <2> SUFFICES ASSUME NEW t \in Requests
               PROVE  /\ \A k, l \in DOMAIN idle' : Holds(idle'[k], t) /\ Holds(idle'[l], t) => k = l
                      /\ \A g, f \in Requests : Holds(conn'[g], t) /\ Holds(conn'[f], t) => g = f
                      /\ \A g \in Requests, k \in DOMAIN idle' : ~(Holds(conn'[g], t) /\ Holds(idle'[k], t))
    BY DEF PlaceInv, Holds
  <2> QED
    BY <1>1, <1>4 DEF PlaceInv
<1> QED
  BY <1>1, <1>2, <1>5, <1>6, <1>7 DEF Known

LEMMA TakePool ==
    ASSUME PoolType, PlaceInv, NEW h \in Requests, Take(h)
    PROVE  /\ PoolType' /\ PlaceInv'
           /\ \A k \in DOMAIN idle' : Known(idle'[k])
           /\ \A g \in Requests : Known(conn'[g]) /\ (g # h => conn'[g] = conn[g])
           /\ \A t \in Requests : Pending(t)' => Pending(t)
<1>0. DOMAIN conn = Requests
  BY DEF PoolType
<1>1. CASE idle = <<>>
  <2>1. idle' = idle /\ conn' = [conn EXCEPT ![h] = Plain]
    BY <1>1 DEF Take
  <2>2. \A g \in Requests : conn'[g] = IF g = h THEN Plain ELSE conn[g]
    BY <1>0, <2>1
  <2>3. \A t : \A g \in Requests : Holds(conn'[g], t) => Holds(conn[g], t)
    BY <2>2, PlainHoldsNothing
  <2>4. PoolType'
    BY <2>1, PlainHoldsNothing DEF PoolType
  <2>5. \A t \in Requests : Pending(t)' => Pending(t)
    BY <2>1, <2>3 DEF Pending, Holds
  <2>6. PlaceInv'
    <3> SUFFICES ASSUME NEW t \in Requests
                 PROVE  /\ \A k, l \in DOMAIN idle' : Holds(idle'[k], t) /\ Holds(idle'[l], t) => k = l
                        /\ \A g, f \in Requests : Holds(conn'[g], t) /\ Holds(conn'[f], t) => g = f
                        /\ \A g \in Requests, k \in DOMAIN idle' : ~(Holds(conn'[g], t) /\ Holds(idle'[k], t))
      BY DEF PlaceInv, Holds
    <3> QED
      BY <2>1, <2>3 DEF PlaceInv
  <2> QED
    BY <2>1, <2>2, <2>4, <2>5, <2>6 DEF Known
<1>2. CASE idle # <<>>
  <2>0. conn[h] = Nil /\ \A t : ~Holds(Nil, t)
    BY DEF Take, Holds
  <2>1. idle' = SubSeq(idle, 1, Len(idle) - 1) /\ conn' = [conn EXCEPT ![h] = idle[Len(idle)]]
    BY <1>2 DEF Take, Last, Front
  <2> PICK n : n = Len(idle)
    OBVIOUS
  <2>2. idle \in Seq(Conns) /\ n \in Nat /\ n # 0 /\ DOMAIN idle = 1 .. n
    BY <1>2 DEF PoolType
  <2>3. idle' \in Seq(Conns) /\ \A k \in DOMAIN idle' : k \in DOMAIN idle /\ k # n /\ idle'[k] = idle[k]
    BY <2>1, <2>2
  <2>4. n \in DOMAIN idle /\ idle[n] \in Conns
    BY <2>2
  <2>5. \A g \in Requests : conn'[g] = IF g = h THEN idle[n] ELSE conn[g]
    BY <1>0, <2>1
  <2>6. PoolType'
    BY <2>1, <2>3, <2>4 DEF PoolType
  <2>7. \A t \in Requests : Pending(t)' => Pending(t)
    <3> SUFFICES ASSUME NEW t \in Requests,
                        (\E k \in DOMAIN idle' : Holds(idle'[k], t)) \/ (\E g \in Requests : Holds(conn'[g], t))
                 PROVE  Pending(t)
      BY DEF Pending, Holds
    <3> QED
      BY <2>3, <2>4, <2>5 DEF Pending
  <2>8. PlaceInv'
    <3> SUFFICES ASSUME NEW t \in Requests
                 PROVE  /\ \A k, l \in DOMAIN idle' : Holds(idle'[k], t) /\ Holds(idle'[l], t) => k = l
                        /\ \A g, f \in Requests : Holds(conn'[g], t) /\ Holds(conn'[f], t) => g = f
                        /\ \A g \in Requests, k \in DOMAIN idle' : ~(Holds(conn'[g], t) /\ Holds(idle'[k], t))
      BY DEF PlaceInv, Holds
    <3>1. \A k, l \in DOMAIN idle' : Holds(idle'[k], t) /\ Holds(idle'[l], t) => k = l
      BY <2>3 DEF PlaceInv
    <3>2. \A g, f \in Requests : Holds(conn'[g], t) /\ Holds(conn'[f], t) => g = f
      BY <2>4, <2>5 DEF PlaceInv
    <3>3. \A g \in Requests, k \in DOMAIN idle' : ~(Holds(conn'[g], t) /\ Holds(idle'[k], t))
      BY <2>3, <2>4, <2>5 DEF PlaceInv
    <3> QED
      BY <3>1, <3>2, <3>3
  <2> QED
    BY <2>3, <2>4, <2>5, <2>6, <2>7, <2>8 DEF Known
<1> QED
  BY <1>1, <1>2

(* Removing a connection moves those behind it down by one. *)
LEMMA AgeEntries ==
    ASSUME PoolType, Age
    PROVE  /\ idle' \in Seq(Conns) /\ Len(idle') = Len(idle) - 1
           /\ \A k \in DOMAIN idle' : \E l \in DOMAIN idle : idle'[k] = idle[l] /\ l \in {k, k + 1}
           /\ \E f \in [DOMAIN idle' -> DOMAIN idle] :
                 \A k, l \in DOMAIN idle' : idle'[k] = idle[f[k]] /\ (f[k] = f[l] => k = l)
<1>0. PICK j \in DOMAIN idle : idle' = SubSeq(idle, 1, j - 1) \o SubSeq(idle, j + 1, Len(idle))
  BY DEF Age, RemoveAt
<1> PICK n : n = Len(idle)
  OBVIOUS
<1>2. idle \in Seq(Conns) /\ n \in Nat /\ DOMAIN idle = 1 .. n /\ j \in 1 .. n
  BY DEF PoolType
<1> DEFINE s == SubSeq(idle, 1, j - 1)
           r == SubSeq(idle, j + 1, n)
<1>3. s \in Seq(Conns) /\ Len(s) = j - 1 /\ \A k \in 1 .. j - 1 : s[k] = idle[k]
  BY <1>2
<1>4. r \in Seq(Conns) /\ Len(r) = n - j /\ \A k \in 1 .. n - j : r[k] = idle[k + j]
  <2>1. \A m \in 1 .. n + 1 : /\ SubSeq(idle, m, n) \in Seq(Conns) /\ Len(SubSeq(idle, m, n)) = n - m + 1
                              /\ \A k \in 1 .. n - m + 1 : SubSeq(idle, m, n)[k] = idle[m + k - 1]
    <3> TAKE m \in 1 .. n + 1
    <3>1. \A i \in m .. n : i \in DOMAIN idle
      BY <1>2
    <3> QED
      BY <1>2, <3>1, SubSeqProperties
  <2> PICK m : m = j + 1
    OBVIOUS
  <2>2. m \in 1 .. n + 1 /\ n - m + 1 = n - j /\ \A k \in Int : m + k - 1 = k + j
    BY <1>2
  <2>3. r = SubSeq(idle, m, n)
    OBVIOUS
  <2> HIDE DEF r
  <2>4. /\ SubSeq(idle, m, n) \in Seq(Conns) /\ Len(SubSeq(idle, m, n)) = n - m + 1
        /\ \A k \in 1 .. n - m + 1 : SubSeq(idle, m, n)[k] = idle[m + k - 1]
    BY <2>1, <2>2
  <2>5. ASSUME NEW k \in 1 .. n - j PROVE r[k] = idle[k + j]
    <3>1. k \in 1 .. n - m + 1 /\ m + k - 1 = k + j
      BY <2>2
    <3> QED
      BY <2>3, <2>4, <3>1
  <2> QED
    BY <2>2, <2>3, <2>4, <2>5
<1>5. idle' \in Seq(Conns) /\ Len(idle') = n - 1 /\ DOMAIN idle' = 1 .. n - 1
  <2>1. idle' = s \o r
    BY <1>0
  <2> HIDE DEF s, r
  <2>2. s \o r \in Seq(Conns) /\ Len(s \o r) = Len(s) + Len(r)
    <3>1. s \in Seq(Conns) /\ r \in Seq(Conns)
      BY <1>3, <1>4
    <3> QED
      BY <3>1, ConcatProperties, Zenon
  <2>3. (j - 1) + (n - j) = n - 1
    BY <1>2
  <2> QED
    BY <1>2, <1>3, <1>4, <2>1, <2>2, <2>3
<1>6. \A k \in 1 .. n - 1 :
         \/ k < j /\ k \in DOMAIN idle /\ idle'[k] = idle[k]
         \/ ~(k < j) /\ k + 1 \in DOMAIN idle /\ idle'[k] = idle[k + 1]
  <2> TAKE k \in 1 .. n - 1
  <2>1. idle' = s \o r
    BY <1>0
  <2> HIDE DEF s, r
  <2>2. CASE k < j
    <3>1. k \in 1 .. j - 1 /\ k \in 1 .. n
      BY <1>2, <2>2
    <3>2. (s \o r)[k] = s[k]
      BY <1>3, <1>4, <3>1
    <3>3. s[k] = idle[k]
      BY <1>3, <3>1
    <3>4. k \in DOMAIN idle
      BY <1>2, <3>1
    <3>5. idle'[k] = idle[k]
      BY <2>1, <3>2, <3>3, Zenon
    <3> QED
      BY <2>2, <3>4, <3>5, Zenon
  <2>3. CASE ~(k < j)
    <3>1. k - (j - 1) \in 1 .. n - j /\ (k - (j - 1)) + j = k + 1 /\ k + 1 \in 1 .. n
      BY <1>2, <2>3
    <3>2. (s \o r)[k] = r[k - (j - 1)]
      BY <1>2, <1>3, <1>4, <2>3
    <3> QED
      BY <1>2, <1>4, <2>1, <2>3, <3>1, <3>2
  <2> QED
    BY <2>2, <2>3
<1> HIDE DEF s, r
<1> HIDE DEF s, r
<1>7. \A k \in DOMAIN idle' : \E l \in DOMAIN idle : idle'[k] = idle[l] /\ l \in {k, k + 1}
  BY <1>5, <1>6
<1> DEFINE f == [k \in DOMAIN idle' |-> IF k < j THEN k ELSE k + 1]
<1>8. f \in [DOMAIN idle' -> DOMAIN idle] /\ \A k \in DOMAIN idle' : idle'[k] = idle[f[k]]
  BY <1>5, <1>6
<1>9. \A k, l \in DOMAIN idle' : f[k] = f[l] => k = l
  BY <1>2, <1>5
<1> HIDE DEF f
<1>10. \E g \in [DOMAIN idle' -> DOMAIN idle] :
          \A k, l \in DOMAIN idle' : idle'[k] = idle[g[k]] /\ (g[k] = g[l] => k = l)
  BY <1>8, <1>9
<1>11. Len(idle') = Len(idle) - 1
  BY <1>5
<1> QED
  BY <1>5, <1>7, <1>10, <1>11

LEMMA AgePool ==
    ASSUME PoolType, PlaceInv, Age
    PROVE  /\ PoolType' /\ PlaceInv' /\ conn' = conn
           /\ \A k \in DOMAIN idle' : Known(idle'[k])
           /\ \A t \in Requests : Pending(t)' => Pending(t)
<1>1. conn' = conn
  BY DEF Age
<1>2. PoolType'
  BY <1>1, AgeEntries DEF PoolType
<1>3. \A k \in DOMAIN idle' : \E l \in DOMAIN idle : idle'[k] = idle[l]
  BY AgeEntries
<1>4. PICK f \in [DOMAIN idle' -> DOMAIN idle] :
              \A k, l \in DOMAIN idle' : idle'[k] = idle[f[k]] /\ (f[k] = f[l] => k = l)
  BY AgeEntries
<1>5. \A t \in Requests : Pending(t)' => Pending(t)
  <2>1. \A t : \A h \in Requests : Holds(conn'[h], t) <=> Holds(conn[h], t)
    BY <1>1
  <2>2. \A t : Pending(t)' => (\E k \in DOMAIN idle' : Holds(idle'[k], t)) \/ \E h \in Requests : Holds(conn'[h], t)
    BY DEF Pending, Holds
  <2>3. \A t : \A k \in DOMAIN idle' : Holds(idle'[k], t) => \E l \in DOMAIN idle : Holds(idle[l], t)
    BY <1>3
  <2> QED
    BY <2>1, <2>2, <2>3 DEF Pending
<1>6. PlaceInv'
  <2> SUFFICES ASSUME NEW t \in Requests
               PROVE  /\ \A k, l \in DOMAIN idle' : Holds(idle'[k], t) /\ Holds(idle'[l], t) => k = l
                      /\ \A g, h \in Requests : Holds(conn'[g], t) /\ Holds(conn'[h], t) => g = h
                      /\ \A g \in Requests, k \in DOMAIN idle' : ~(Holds(conn'[g], t) /\ Holds(idle'[k], t))
    BY DEF PlaceInv, Holds
  <2>1. \A k, l \in DOMAIN idle' : Holds(idle'[k], t) /\ Holds(idle'[l], t) => k = l
    BY <1>4 DEF PlaceInv
  <2>2. \A g, h \in Requests : Holds(conn'[g], t) /\ Holds(conn'[h], t) => g = h
    BY <1>1 DEF PlaceInv
  <2>3. \A g \in Requests, k \in DOMAIN idle' : ~(Holds(conn'[g], t) /\ Holds(idle'[k], t))
    BY <1>1, <1>3 DEF PlaceInv
  <2> QED
    BY <2>1, <2>2, <2>3
<1> QED
  BY <1>1, <1>2, <1>3, <1>5, <1>6 DEF Known

LEMMA DiePool ==
    ASSUME LogicDies
    PROVE  /\ PoolType' /\ PlaceInv' /\ DOMAIN idle' = {} /\ \A h \in Requests : conn'[h] = Nil
           /\ \A t \in Requests : ~Pending(t)'
<1>1. idle' = <<>> /\ conn' = [h \in Requests |-> Nil]
  BY DEF LogicDies
<1>2. DOMAIN idle' = {} /\ \A h \in Requests : conn'[h] = Nil
  BY <1>1
<1>3. PoolType'
  BY <1>1 DEF PoolType
<1> QED
  BY <1>2, <1>3 DEF PlaceInv, Pending, Holds

-----------------------------------------------------------------------------
(* Types *)

TokenKinds == {"checkAuth", "logout", "push", "pushRoom", "count", "roomInfo"}

(* Label l is one of the endpoint k; value v is what its request may have read by then. *)
Stage(k, l) ==
    \/ k \in TokenKinds \cup {"register", "login"} /\ l \in Over
    \/ k = "register" /\ l \in {"29", "34", "48", "49", "50", "51"}
    \/ k = "login" /\ l \in {"83", "87", "92", "93", "94", "95", "96"}
    \/ k \in TokenKinds /\ l = "guard"
    \/ k \in {"checkAuth", "push", "pushRoom"} /\ l = "auth"
    \/ k = "logout" /\ l \in {"148", "161", "170", "177"}
    \/ k = "push" /\ l = "199"
    \/ k = "pushRoom" /\ l = "224"
    \/ k = "count" /\ l = "260"
    \/ k = "roomInfo" /\ l = "280"
    \/ k \in {"push", "pushRoom", "count", "roomInfo"} /\ l = "LPUSH"

Read(k, l, v) ==
    /\ k # "login" => v \in Names \cup {Nil}
    /\ l = "87" => v \in Requests \cup {Queued}
    /\ l = "161" => v \in Names

(* A request that has begun has an argument of its endpoint; a token is the one of a request
   that was answered. *)
HasArg(h) ==
    \/ kind[h] \in {"register", "login"} /\ arg[h] \in Names
    \/ /\ kind[h] \in TokenKinds /\ arg[h] \in Requests
       /\ pc[arg[h]] = "ok" /\ kind[arg[h]] \in {"register", "login"}

CallType ==
    /\ pc \in [Requests -> {"new", "29", "34"} \cup Over \cup Commands]
    /\ kind \in [Requests -> Kinds \cup {Nil}]
    /\ arg \in [Requests -> Names \cup Requests \cup {Nil}]
    /\ mem \in [Requests -> Names \cup Requests \cup {Nil, Queued}]
    /\ published \in [Requests -> Seq(Names \cup {Nil})]
    /\ \A h \in Requests :
          \/ pc[h] = "new" /\ mem[h] = Nil /\ published[h] = <<>>
          \/ Stage(kind[h], pc[h]) /\ Read(kind[h], pc[h], mem[h]) /\ HasArg(h)

PoolTypeInv ==
    /\ PoolType
    /\ \A k \in DOMAIN idle : idle[k].queued # <<>> => idle[k].multi
    /\ \A h \in Requests : conn[h] # Nil => pc[h] \in Commands /\ (conn[h].queued # <<>> => conn[h].multi)

RestType ==
    /\ users \subseteq Names /\ redis \in Db
    /\ aged \in 0 .. MaxFaults /\ lost \subseteq Requests /\ overlaps \in 0 .. MaxOverlaps

TypeInv == CallType /\ PoolTypeInv /\ RestType

LEMMA TypeInit == Init => TypeInv
<1> SUFFICES ASSUME Init PROVE TypeInv
  OBVIOUS
<1> USE DEF Init
<1>1. CallType
  BY DEF CallType
<1>2. PoolTypeInv
  BY DEF PoolTypeInv, PoolType
<1>3. redis \in Db
  BY DEF Db
<1>4. RestType
  BY <1>3, BoundsAssumption DEF RestType
<1> QED
  BY <1>1, <1>2, <1>4 DEF TypeInv

(* What a command queues on the connection it puts back. *)
Queues(h, c) ==
    /\ c \in Conns /\ (c.queued # <<>> => c.multi)
    /\ \A i \in DOMAIN c.queued :
          \/ \E j \in DOMAIN conn[h].queued : c.queued[i] = conn[h].queued[j]
          \/ c.queued[i].op # "HMSET"
          \/ pc[h] \in {"49", "93"} /\ c.queued[i].key = h /\ c.queued[i].val.user = arg[h]

LEMMA WritesPool ==
    ASSUME TypeInv, NEW h \in Requests, conn[h] # Nil, NEW w \in Writable, Writes(h, w),
           w.op = "HMSET" => pc[h] \in {"49", "93"} /\ w.key = h /\ w.val.user = arg[h]
    PROVE  \E c : PutBack(h, c) /\ Queues(h, c)
<1>1. conn[h] \in Conns
  BY DEF TypeInv, PoolTypeInv, PoolType
<1>2. CASE ~InMulti(h)
  <2>1. PutBack(h, Plain)
    BY <1>2 DEF Writes
  <2>2. Queues(h, Plain)
    BY PlainHoldsNothing DEF Queues, Plain
  <2> QED
    BY <2>1, <2>2
<1>3. CASE InMulti(h)
  <2> DEFINE c == [conn[h] EXCEPT !.queued = Append(@, w)]
  <2>1. PutBack(h, c)
    BY <1>3 DEF Writes
  <2>2. conn[h].queued \in Seq(Writable) /\ conn[h].multi \in BOOLEAN
    BY <1>1 DEF Conns
  <2>3. c.queued = Append(conn[h].queued, w) /\ c.multi = conn[h].multi /\ c \in Conns
    BY <1>1, <2>2, SMTT(20) DEF Conns
  <2>4. \A i \in DOMAIN c.queued : c.queued[i] = w \/ (i \in DOMAIN conn[h].queued /\ c.queued[i] = conn[h].queued[i])
    BY <2>2, <2>3
  <2> HIDE DEF c
  <2>5. Queues(h, c)
    BY <1>3, <2>3, <2>4 DEF Queues, InMulti
  <2> QED
    BY <2>1, <2>5
<1> QED
  BY <1>2, <1>3

(* The three writes, and the one of a session among them. *)
LEMMA CommandWrites ==
    ASSUME TypeInv, NEW h \in Requests, WriteSession(h) \/ Expire(h) \/ SetToken(h)
    PROVE  \E w \in Writable : Writes(h, w) /\ (w.op = "HMSET" => pc[h] \in {"49", "93"} /\ w.key = h /\ w.val.user = arg[h])
<1>1. CASE WriteSession(h)
  <2>1. /\ Writes(h, Cmd("HMSET", h, Data(arg[h], kind[h] = "login"))) /\ pc[h] \in {"49", "93"}
    BY <1>1 DEF WriteSession, From, At
  <2>2. arg[h] \in Names
    BY <2>1 DEF TypeInv, CallType, Stage, HasArg, TokenKinds, Over
  <2>3. Data(arg[h], kind[h] = "login") \in Sessions /\ Data(arg[h], kind[h] = "login").user = arg[h]
    BY <2>2 DEF Data, Sessions
  <2> PICK w : w = Cmd("HMSET", h, Data(arg[h], kind[h] = "login"))
    OBVIOUS
  <2>4. w \in Writable /\ w.key = h /\ w.val.user = arg[h]
    BY <2>3 DEF Writable, Cmd
  <2> QED
    BY <2>1, <2>4
<1>2. CASE Expire(h)
  <2>1. Writes(h, Cmd("EXPIRE", h, Nil))
    BY <1>2 DEF Expire
  <2> PICK w : w = Cmd("EXPIRE", h, Nil)
    OBVIOUS
  <2>2. w \in Writable /\ w.op = "EXPIRE"
    BY DEF Writable, Cmd
  <2> QED
    BY <2>1, <2>2
<1>3. CASE SetToken(h)
  <2>1. Writes(h, Cmd("SET", arg[h], h)) /\ pc[h] = "95"
    BY <1>3 DEF SetToken, From, At
  <2>2. arg[h] \in Names
    BY <2>1 DEF TypeInv, CallType, Stage, HasArg, TokenKinds, Over
  <2> PICK w : w = Cmd("SET", arg[h], h)
    OBVIOUS
  <2>3. w \in Writable /\ w.op = "SET"
    BY <2>2 DEF Writable, Cmd
  <2> QED
    BY <2>1, <2>3
<1> QED
  BY <1>1, <1>2, <1>3

LEMMA CommandPool ==
    ASSUME TypeInv, NEW h \in Requests, Command(h)
    PROVE  conn[h] # Nil /\ (Close(h) \/ \E c : PutBack(h, c) /\ Queues(h, c))
<1>1. conn[h] # Nil
  BY DEF Command, Multi, WriteSession, Expire, SetToken, Exec, GetToken, DelOldSession, Guard, Auth, LogoutReads,
         LogoutDelToken, LogoutDelRoute, LogoutDelSession, PublishGet, PublishHash, Publish, From, At
<1>2. conn[h] \in Conns /\ (conn[h].queued # <<>> => conn[h].multi)
  BY <1>1 DEF TypeInv, PoolTypeInv, PoolType
<1>3. Queues(h, Plain)
  BY PlainHoldsNothing DEF Queues, Plain
<1>4. Queues(h, conn[h])
  BY <1>2 DEF Queues
<1>5. Queues(h, [conn[h] EXCEPT !.multi = TRUE])
  BY <1>2 DEF Queues, Conns
<1>6. CASE Multi(h)
  BY <1>1, <1>5, <1>6 DEF Multi
<1>7. CASE WriteSession(h) \/ Expire(h) \/ SetToken(h)
  BY <1>1, <1>7, CommandWrites, WritesPool
<1>8. CASE Exec(h)
  BY <1>1, <1>3, <1>8 DEF Exec
<1>9. CASE GetToken(h) \/ PublishGet(h)
  BY <1>1, <1>4, <1>9 DEF GetToken, PublishGet
<1>10. CASE DelOldSession(h) \/ LogoutDelToken(h) \/ LogoutDelRoute(h) \/ LogoutDelSession(h)
  BY <1>1, <1>3, <1>10 DEF DelOldSession, LogoutDelToken, LogoutDelRoute, LogoutDelSession, Deletes
<1>11. CASE Guard(h) \/ Auth(h) \/ LogoutReads(h) \/ PublishHash(h) \/ Publish(h)
  BY <1>1, <1>3, <1>11 DEF Guard, Auth, LogoutReads, PublishHash, Publish, ReadsHash
<1> QED
  BY <1>6, <1>7, <1>8, <1>9, <1>10, <1>11 DEF Command

(* A command takes its request to label n, with v read. *)
Moves(h, n, v) ==
    /\ pc[h] \in Commands /\ n \in Over \cup Commands
    /\ pc' = [pc EXCEPT ![h] = n] /\ mem' = [mem EXCEPT ![h] = v]
    /\ v \in Names \cup Requests \cup {Nil, Queued}
    /\ Stage(kind[h], n) /\ Read(kind[h], n, v)
    /\ UNCHANGED <<users, input, aged, lost, overlaps>>

(* The requests that answer "ok" or publish are those the properties are about. *)
LogoutMoves(h, n) ==
    kind[h] = "logout" =>
       /\ n \in {"148", "161", "170", "177"} =>
             pc[h] \in {"148", "161", "170", "177"} \/ (pc[h] = "guard" /\ redis.session[arg[h]] # Nil)
       /\ n = "ok" => pc[h] = "177" /\ redis'.session[arg[h]] = Nil

SenderMoves(h, n, v) ==
    /\ n \in {"199", "224", "LPUSH"} /\ kind[h] \in {"push", "pushRoom"} =>
          \/ pc[h] \in {"199", "224"} /\ v = mem[h]
          \/ pc[h] = "auth" /\ redis.session[arg[h]] # Nil /\ v = redis.session[arg[h]].user
    /\ \/ published' = published
       \/ pc[h] = "LPUSH" /\ published' = [published EXCEPT ![h] = <<mem[h]>>]

Unwritten == {"new", "29", "34", "48", "49", "83", "87", "92", "93"}

(* Labels follow one another by these rules; a session is written once. *)
LEMMA StageFacts ==
    ASSUME CallType, NEW h \in Requests, pc[h] # "new"
    PROVE  /\ Stage(kind[h], pc[h]) /\ Read(kind[h], pc[h], mem[h]) /\ HasArg(h)
           /\ kind[h] \in TokenKinds \cup {"register", "login"}
           /\ pc[h] \in {"guard", "auth", "148", "161", "170", "177", "199", "224", "260", "280", "LPUSH"} => kind[h] \in TokenKinds
<1>1. Stage(kind[h], pc[h]) /\ Read(kind[h], pc[h], mem[h]) /\ HasArg(h)
  BY DEF CallType
<1> QED
  BY <1>1 DEF Stage, TokenKinds, Over

LEMMA CommandMoves ==
    ASSUME TypeInv, NEW h \in Requests, Command(h)
    PROVE  \E n, v : /\ Moves(h, n, v) /\ LogoutMoves(h, n) /\ SenderMoves(h, n, v)
                     /\ pc[h] \notin Unwritten => n \notin Unwritten
                     /\ pc[h] \in {"49", "93"} => n \notin Unwritten
<1> DEFINE Good(n, v) == /\ Moves(h, n, v) /\ LogoutMoves(h, n) /\ SenderMoves(h, n, v)
                         /\ pc[h] \notin Unwritten => n \notin Unwritten
                         /\ pc[h] \in {"49", "93"} => n \notin Unwritten
<1>0. /\ mem' = mem => mem' = [mem EXCEPT ![h] = mem[h]]
      /\ mem[h] \in Names \cup Requests \cup {Nil, Queued}
      /\ pc[h] # "new" => /\ Stage(kind[h], pc[h]) /\ Read(kind[h], pc[h], mem[h]) /\ HasArg(h)
                          /\ kind[h] \in TokenKinds \cup {"register", "login"}
  BY StageFacts DEF TypeInv, CallType
<1>a. /\ redis \in Db /\ redis.session \in [Requests -> Sessions \cup {Nil}] /\ redis.token \in [Names -> Requests \cup {Nil}]
  BY DEF TypeInv, RestType, Db
<1> USE DEF From, At, Goto, Moves, LogoutMoves, SenderMoves, Unwritten, Commands, Over
<1>1. CASE Multi(h)
  <2> DEFINE n == IF pc[h] = "48" THEN "49" ELSE "93"
  <2>1. Stage(kind[h], n) /\ Read(kind[h], n, mem[h]) /\ pc[h] \in {"48", "92"} /\ pc' = [pc EXCEPT ![h] = n]
    BY <1>0, <1>1 DEF Multi, Stage, Read, TokenKinds
  <2>2. Good(n, mem[h])
    BY <1>0, <1>1, <2>1 DEF Multi, Stage, TokenKinds
  <2> QED
    BY <2>2
<1>2. CASE WriteSession(h) \/ Expire(h) \/ SetToken(h)
  <2> DEFINE n == CASE pc[h] = "49" -> "50" [] pc[h] = "50" -> "51" [] pc[h] = "93" -> "94"
                    [] pc[h] = "94" -> "95" [] pc[h] = "95" -> "96"
  <2>1. Stage(kind[h], n) /\ Read(kind[h], n, mem[h]) /\ pc[h] \in {"49", "50", "93", "94", "95"} /\ pc' = [pc EXCEPT ![h] = n]
    BY <1>0, <1>2 DEF WriteSession, Expire, SetToken, Stage, Read, TokenKinds
  <2>2. UNCHANGED <<users, input, mem, published, aged, lost, overlaps>>
    BY <1>2 DEF WriteSession, Expire, SetToken
  <2>3. Good(n, mem[h])
    BY <1>0, <2>1, <2>2 DEF Stage, TokenKinds
  <2> QED
    BY <2>3
<1>3. CASE Exec(h)
  <2> DEFINE n == IF InMulti(h) THEN "ok" ELSE "fail"
  <2>1. Stage(kind[h], n) /\ Read(kind[h], n, mem[h]) /\ pc[h] \in {"51", "96"} /\ pc' = [pc EXCEPT ![h] = n]
    BY <1>0, <1>3 DEF Exec, Stage, Read, TokenKinds
  <2>2. Good(n, mem[h])
    BY <1>0, <1>3, <2>1 DEF Exec, Stage, TokenKinds
  <2> QED
    BY <2>2
<1>4. CASE GetToken(h)
  <2> DEFINE v == IF InMulti(h) THEN Queued ELSE redis.token[arg[h]]
             n == IF v = Nil THEN "92" ELSE "87"
  <2>1. pc[h] = "83" /\ kind[h] = "login" /\ arg[h] \in Names
    BY <1>0, <1>4 DEF GetToken, Stage, TokenKinds, HasArg
  <2>2. v \in Requests \cup {Nil, Queued} /\ (v # Nil => v \in Requests \cup {Queued})
    BY <1>a, <2>1
  <2>3. Stage(kind[h], n) /\ Read(kind[h], n, v) /\ pc' = [pc EXCEPT ![h] = n] /\ mem' = [mem EXCEPT ![h] = v]
    BY <1>4, <2>1, <2>2 DEF GetToken, Stage, Read
  <2>4. UNCHANGED <<users, input, published, aged, lost, overlaps>>
    BY <1>4 DEF GetToken
  <2> HIDE DEF v
  <2>5. Good(n, v)
    BY <2>1, <2>2, <2>3, <2>4
  <2> QED
    BY <2>5
<1>5. CASE DelOldSession(h)
  <2> DEFINE n == IF InMulti(h) THEN "fail" ELSE "92"
  <2>1. pc[h] = "87" /\ kind[h] = "login"
    BY <1>0, <1>5 DEF DelOldSession, Stage, TokenKinds
  <2>2. Stage(kind[h], n) /\ Read(kind[h], n, mem[h]) /\ pc' = [pc EXCEPT ![h] = n]
    BY <1>5, <2>1 DEF DelOldSession, Deletes, Stage, Read
  <2>3. Good(n, mem[h])
    BY <1>0, <1>5, <2>1, <2>2 DEF DelOldSession
  <2> QED
    BY <2>3
<1>6. CASE Guard(h)
  <2> DEFINE n == IF InMulti(h) \/ ~(Session(h) # Nil /\ Session(h).named) THEN "fail" ELSE AfterGuard(h)
  <2>1. pc[h] = "guard" /\ kind[h] \in TokenKinds
    BY <1>0, <1>6 DEF Guard, Stage, TokenKinds
  <2>2. /\ Stage(kind[h], AfterGuard(h)) /\ AfterGuard(h) \in {"auth", "148", "260", "280"}
        /\ kind[h] = "logout" => AfterGuard(h) = "148"
    BY <2>1 DEF AfterGuard, Stage, TokenKinds
  <2>3. Stage(kind[h], n) /\ Read(kind[h], n, mem[h]) /\ pc' = [pc EXCEPT ![h] = n]
    BY <1>0, <1>6, <2>1, <2>2 DEF Guard, ReadsHash, Stage, Read, TokenKinds
  <2>4. n # "fail" => redis.session[arg[h]] # Nil
    BY DEF Session
  <2>5. n \in {"fail", "auth", "148", "260", "280"} /\ (kind[h] = "logout" => n \in {"fail", "148"})
    BY <2>2
  <2>6. UNCHANGED <<users, input, mem, published, aged, lost, overlaps>>
    BY <1>6 DEF Guard
  <2> HIDE DEF n
  <2>7. Good(n, mem[h])
    BY <1>0, <2>1, <2>3, <2>4, <2>5, <2>6
  <2> QED
    BY <2>7
<1>7. CASE Auth(h)
  <2> DEFINE n == IF InMulti(h) \/ Session(h) = Nil THEN "fail" ELSE AfterAuth(h)
             v == IF Session(h) = Nil \/ InMulti(h) THEN Nil ELSE Session(h).user
  <2>1. pc[h] = "auth" /\ kind[h] \in {"checkAuth", "push", "pushRoom"} /\ arg[h] \in Requests
    BY <1>0, <1>7 DEF Auth, Stage, TokenKinds, HasArg
  <2>2. Stage(kind[h], AfterAuth(h)) /\ AfterAuth(h) \in {"ok", "199", "224"}
    BY <2>1 DEF AfterAuth, Stage, TokenKinds
  <2>3. v \in Names \cup {Nil} /\ (n # "fail" => redis.session[arg[h]] # Nil /\ v = redis.session[arg[h]].user)
    BY <1>a, <2>1 DEF Session, Sessions
  <2>4. n \in {"fail", "ok", "199", "224"} /\ Stage(kind[h], n)
    BY <2>1, <2>2 DEF Stage, TokenKinds
  <2>5. pc' = [pc EXCEPT ![h] = n] /\ mem' = [mem EXCEPT ![h] = v]
    BY <1>7 DEF Auth, ReadsHash
  <2>6. UNCHANGED <<users, input, published, aged, lost, overlaps>>
    BY <1>7 DEF Auth
  <2> HIDE DEF n, v
  <2>7. Good(n, v)
    BY <2>1, <2>3, <2>4, <2>5, <2>6 DEF Read
  <2> QED
    BY <2>7
<1>8. CASE LogoutReads(h)
  <2> DEFINE n == IF InMulti(h) \/ Session(h) = Nil THEN "fail" ELSE "161"
             v == IF Session(h) = Nil \/ InMulti(h) THEN Nil ELSE Session(h).user
  <2>1. pc[h] = "148" /\ kind[h] = "logout" /\ arg[h] \in Requests
    BY <1>0, <1>8 DEF LogoutReads, Stage, TokenKinds, HasArg
  <2>2. v \in Names \cup {Nil} /\ (n # "fail" => v \in Names)
    BY <1>a, <2>1 DEF Session, Sessions
  <2>3. n \in {"fail", "161"} /\ Stage(kind[h], n)
    BY <2>1 DEF Stage, TokenKinds
  <2>4. pc' = [pc EXCEPT ![h] = n] /\ mem' = [mem EXCEPT ![h] = v]
    BY <1>8 DEF LogoutReads, ReadsHash
  <2>5. UNCHANGED <<users, input, published, aged, lost, overlaps>>
    BY <1>8 DEF LogoutReads
  <2> HIDE DEF n, v
  <2>6. Good(n, v)
    BY <2>1, <2>2, <2>3, <2>4, <2>5 DEF Read
  <2> QED
    BY <2>6
<1>9. CASE LogoutDelToken(h) \/ LogoutDelRoute(h)
  <2> DEFINE n == IF InMulti(h) THEN "fail" ELSE IF pc[h] = "161" THEN "170" ELSE "177"
  <2>1. pc[h] \in {"161", "170"} /\ kind[h] = "logout"
    BY <1>0, <1>9 DEF LogoutDelToken, LogoutDelRoute, Stage, TokenKinds
  <2>2. pc' = [pc EXCEPT ![h] = n] /\ UNCHANGED <<users, input, mem, published, aged, lost, overlaps>>
    BY <1>9 DEF LogoutDelToken, LogoutDelRoute, Deletes
  <2>3. Stage(kind[h], n) /\ Read(kind[h], n, mem[h])
    BY <1>0, <2>1 DEF Stage, Read, TokenKinds
  <2>4. Good(n, mem[h])
    BY <1>0, <2>1, <2>2, <2>3
  <2> QED
    BY <2>4, ZenonT(60)
<1>10. CASE LogoutDelSession(h)
  <2> DEFINE n == IF InMulti(h) THEN "fail" ELSE "ok"
  <2>1. pc[h] = "177" /\ kind[h] = "logout" /\ arg[h] \in Requests
    BY <1>0, <1>10 DEF LogoutDelSession, Stage, TokenKinds, HasArg
  <2>2. pc' = [pc EXCEPT ![h] = n] /\ UNCHANGED <<users, input, mem, published, aged, lost, overlaps>>
    BY <1>10 DEF LogoutDelSession, Deletes
  <2>3. n = "ok" => redis'.session[arg[h]] = Nil
    BY <1>10, <1>a, <2>1 DEF LogoutDelSession, Deletes, Db
  <2>4. Stage(kind[h], n) /\ Read(kind[h], n, mem[h])
    BY <1>0, <2>1 DEF Stage, Read, TokenKinds
  <2>5. Good(n, mem[h])
    BY <1>0, <2>1, <2>2, <2>3, <2>4
  <2> QED
    BY <2>5
<1>11. CASE PublishGet(h)
  <2>1. /\ \/ pc[h] = "199" /\ kind[h] = "push"
           \/ pc[h] = "260" /\ kind[h] = "count"
        /\ pc' = [pc EXCEPT ![h] = "LPUSH"] /\ UNCHANGED <<users, input, mem, published, aged, lost, overlaps>>
    BY <1>0, <1>11 DEF PublishGet, Stage, TokenKinds
  <2>2. Stage(kind[h], "LPUSH") /\ Read(kind[h], "LPUSH", mem[h])
    BY <1>0, <2>1 DEF Stage, Read
  <2>3. Good("LPUSH", mem[h])
    BY <1>0, <2>1, <2>2
  <2> QED
    BY <2>3
<1>12. CASE PublishHash(h)
  <2>1. /\ \/ pc[h] = "224" /\ kind[h] = "pushRoom"
           \/ pc[h] = "280" /\ kind[h] = "roomInfo"
        /\ UNCHANGED <<users, input, mem, published, aged, lost, overlaps>>
    BY <1>0, <1>12 DEF PublishHash, Stage, TokenKinds
  <2> PICK n \in {"fail", "LPUSH"} : pc' = [pc EXCEPT ![h] = n]
    BY <1>12 DEF PublishHash, ReadsHash
  <2>2. Stage(kind[h], n) /\ Read(kind[h], n, mem[h])
    BY <1>0, <2>1 DEF Stage, Read, TokenKinds
  <2>3. Good(n, mem[h])
    BY <1>0, <2>1, <2>2
  <2> QED
    BY <2>3
<1>13. CASE Publish(h)
  <2>1. /\ pc[h] = "LPUSH" /\ kind[h] \in {"push", "pushRoom", "count", "roomInfo"}
        /\ UNCHANGED <<users, input, mem, aged, lost, overlaps>>
        /\ published' = published \/ published' = [published EXCEPT ![h] = <<mem[h]>>]
    BY <1>0, <1>13 DEF Publish, Stage, TokenKinds
  <2> PICK n \in {"fail", "ok"} : pc' = [pc EXCEPT ![h] = n]
    BY <1>13 DEF Publish, ReadsHash
  <2>2. Stage(kind[h], n) /\ Read(kind[h], n, mem[h])
    BY <1>0, <2>1 DEF Stage, Read, TokenKinds
  <2>3. Good(n, mem[h])
    BY <1>0, <2>1, <2>2
  <2> QED
    BY <2>3
<1> QED
  BY <1>1, <1>2, <1>3, <1>4, <1>5, <1>6, <1>7, <1>8, <1>9, <1>10, <1>11, <1>12, <1>13 DEF Command

(* Where a session that is there after a command of h comes from: it was there, h writes it,
   or h executes the transaction in which it was queued. *)
Source(h, t) ==
    \/ redis.session[t] # Nil /\ redis'.session[t].user = redis.session[t].user
    \/ pc[h] \in {"49", "93"} /\ t = h /\ PutBack(h, Plain) /\ redis'.session[t].user = arg[h]
    \/ /\ pc[h] \in {"51", "96"} /\ PutBack(h, Plain)
       /\ \E i \in DOMAIN conn[h].queued :
             /\ conn[h].queued[i].op = "HMSET" /\ conn[h].queued[i].key = t
             /\ redis'.session[t].user = conn[h].queued[i].val.user

LEMMA DeleteData ==
    ASSUME redis \in Db, NEW h, NEW db \in Db, NEW label, Deletes(h, db, label),
           \A t \in Requests : db.session[t] \in {redis.session[t], Nil}
    PROVE  redis' \in Db /\ \A t \in Requests : redis'.session[t] \in {redis.session[t], Nil}
BY DEF Deletes

LEMMA CommandData ==
    ASSUME TypeInv, NEW h \in Requests, Command(h)
    PROVE  redis' \in Db /\ \A t \in Requests : redis'.session[t] # Nil => Source(h, t)
<1> DEFINE Kept == redis' \in Db /\ \A t \in Requests : redis'.session[t] \in {redis.session[t], Nil}
<1>0. redis \in Db
  BY DEF TypeInv, RestType
<1>1. Kept => redis' \in Db /\ \A t \in Requests : redis'.session[t] # Nil => Source(h, t)
  BY DEF Source
<1>2. redis' = redis => Kept
  BY <1>0
<1>3. \A t : [redis EXCEPT !.session[t] = Nil] \in Db /\ \A u \in Requests : [redis EXCEPT !.session[t] = Nil].session[u] \in {redis.session[u], Nil}
  <2> TAKE t
  <2>1. [redis EXCEPT !.session[t] = Nil] = [redis EXCEPT !.session = [redis.session EXCEPT ![t] = Nil]]
    BY <1>0 DEF Db
  <2> QED
    BY <1>0, <2>1 DEF Db
<1>4. \A u : [redis EXCEPT !.token[u] = Nil] \in Db /\ [redis EXCEPT !.token[u] = Nil].session = redis.session
  BY <1>0 DEF Db
<1>5. CASE Multi(h) \/ GetToken(h) \/ Guard(h) \/ Auth(h) \/ LogoutReads(h) \/ PublishGet(h) \/ PublishHash(h) \/ Publish(h)
  <2>1. redis' = redis
    BY <1>5 DEF Multi, GetToken, Guard, Auth, LogoutReads, PublishGet, PublishHash, Publish
  <2> QED
    BY <1>1, <1>2, <2>1
<1>6. CASE DelOldSession(h)
  <2>1. Deletes(h, IF mem[h] = Queued THEN redis ELSE [redis EXCEPT !.session[mem[h]] = Nil], "92")
    BY <1>6 DEF DelOldSession
  <2> DEFINE db == IF mem[h] = Queued THEN redis ELSE [redis EXCEPT !.session[mem[h]] = Nil]
  <2>2. db \in Db /\ \A t \in Requests : db.session[t] \in {redis.session[t], Nil}
    BY <1>0, <1>3
  <2> HIDE DEF db
  <2>3. Kept
    BY <1>0, <2>1, <2>2, DeleteData DEF db
  <2> QED
    BY <1>1, <2>3
<1>7. CASE LogoutDelToken(h)
  <2>1. Deletes(h, [redis EXCEPT !.token[mem[h]] = Nil], "170")
    BY <1>7 DEF LogoutDelToken
  <2> DEFINE db == [redis EXCEPT !.token[mem[h]] = Nil]
  <2>2. db \in Db /\ \A t \in Requests : db.session[t] \in {redis.session[t], Nil}
    BY <1>4
  <2> HIDE DEF db
  <2>3. Kept
    BY <1>0, <2>1, <2>2, DeleteData DEF db
  <2> QED
    BY <1>1, <2>3
<1>8. CASE LogoutDelRoute(h)
  <2>1. redis' = redis
    BY <1>8 DEF LogoutDelRoute, Deletes
  <2> QED
    BY <1>1, <1>2, <2>1
<1>9. CASE LogoutDelSession(h)
  <2>1. Deletes(h, [redis EXCEPT !.session[arg[h]] = Nil], "ok")
    BY <1>9 DEF LogoutDelSession
  <2> DEFINE db == [redis EXCEPT !.session[arg[h]] = Nil]
  <2>2. db \in Db /\ \A t \in Requests : db.session[t] \in {redis.session[t], Nil}
    BY <1>3
  <2> HIDE DEF db
  <2>3. Kept
    BY <1>0, <2>1, <2>2, DeleteData DEF db
  <2> QED
    BY <1>1, <2>3
<1>10. ASSUME NEW w \in Writable, Writes(h, w),
              w.op = "HMSET" => pc[h] \in {"49", "93"} /\ w.key = h /\ w.val.user = arg[h]
       PROVE  redis' \in Db /\ \A t \in Requests : redis'.session[t] # Nil => Source(h, t)
  <2>1. CASE InMulti(h)
    BY <1>1, <1>2, <1>10, <2>1 DEF Writes
  <2>2. CASE ~InMulti(h)
    <3>1. redis' = Apply(redis, w) /\ PutBack(h, Plain)
      BY <1>10, <2>2 DEF Writes
    <3> QED
      BY <1>0, <1>10, <3>1, ApplyData DEF Source
  <2> QED
    BY <2>1, <2>2
<1>11. CASE WriteSession(h) \/ Expire(h) \/ SetToken(h)
  BY <1>10, <1>11, CommandWrites
<1>12. CASE Exec(h)
  <2>1. /\ pc[h] \in {"51", "96"} /\ conn[h] # Nil /\ PutBack(h, Plain)
        /\ redis' = IF InMulti(h) THEN Replay(redis, conn[h].queued) ELSE redis
    BY <1>12 DEF Exec, At
  <2>2. conn[h].queued \in Seq(Writable)
    BY <2>1 DEF TypeInv, PoolTypeInv, PoolType, Conns
  <2>3. CASE InMulti(h)
    BY <1>0, <2>1, <2>2, <2>3, ReplayData DEF Source
  <2>4. CASE ~InMulti(h)
    BY <1>1, <1>2, <2>1, <2>4
  <2> QED
    BY <2>3, <2>4
<1> QED
  BY <1>5, <1>6, <1>7, <1>8, <1>9, <1>11, <1>12 DEF Command

-----------------------------------------------------------------------------
(* Every step keeps the types *)

LEMMA CallAdvances ==
    ASSUME CallType, NEW h \in Requests, NEW n, NEW v, pc[h] \notin Over \cup {"new"},
           n \in {"34"} \cup Over \cup Commands, v \in Names \cup Requests \cup {Nil, Queued},
           pc' = [pc EXCEPT ![h] = n], mem' = [mem EXCEPT ![h] = v], UNCHANGED <<kind, arg>>,
           \/ published' = published
           \/ mem[h] \in Names \cup {Nil} /\ published' = [published EXCEPT ![h] = <<mem[h]>>],
           Stage(kind[h], n), Read(kind[h], n, v)
    PROVE  CallType'
<1>1. published' \in [Requests -> Seq(Names \cup {Nil})]
  <2>1. mem[h] \in Names \cup {Nil} => <<mem[h]>> \in Seq(Names \cup {Nil})
    OBVIOUS
  <2>2. published \in [Requests -> Seq(Names \cup {Nil})]
    BY DEF CallType
  <2>3. CASE published' = published
    BY <2>2, <2>3
  <2>4. CASE mem[h] \in Names \cup {Nil} /\ published' = [published EXCEPT ![h] = <<mem[h]>>]
    BY <2>1, <2>2, <2>4, Zenon
  <2> QED
    BY <2>3, <2>4
<1>2. ASSUME NEW g \in Requests
      PROVE  \/ pc'[g] = "new" /\ mem'[g] = Nil /\ published'[g] = <<>>
             \/ Stage(kind'[g], pc'[g]) /\ Read(kind'[g], pc'[g], mem'[g]) /\ HasArg(g)'
  <2>1. HasArg(g) => HasArg(g)'
    BY DEF HasArg, CallType, Over
  <2>2. CASE g = h
    <3>1. HasArg(h)
      BY DEF CallType
    <3> QED
      BY <2>1, <2>2, <3>1 DEF CallType
  <2>3. CASE g # h
    <3>1. pc'[g] = pc[g] /\ mem'[g] = mem[g] /\ published'[g] = published[g]
      BY <2>3 DEF CallType
    <3> QED
      BY <2>1, <3>1 DEF CallType
  <2> QED
    BY <2>2, <2>3
<1> QED
  BY <1>1, <1>2 DEF CallType

LEMMA CommandTypes ==
    ASSUME TypeInv, NEW h \in Requests, Command(h)
    PROVE  TypeInv'
<1> PICK n, v : Moves(h, n, v) /\ SenderMoves(h, n, v)
  BY CommandMoves
<1>1. CallType'
  <2>1. pc[h] \notin Over \cup {"new"}
    BY DEF Moves, Over, Commands
  <2>2. pc[h] = "LPUSH" => mem[h] \in Names \cup {Nil}
    BY DEF TypeInv, CallType, Stage, Read, Over
  <2>3. \/ published' = published
        \/ mem[h] \in Names \cup {Nil} /\ published' = [published EXCEPT ![h] = <<mem[h]>>]
    BY <2>2 DEF SenderMoves
  <2> QED
    BY <2>1, <2>3, CallAdvances DEF TypeInv, Moves, input
<1>2. RestType'
  BY CommandData DEF TypeInv, RestType, Moves
<1>3. PoolTypeInv'
  <2>1. conn[h] # Nil /\ (Close(h) \/ \E c : PutBack(h, c) /\ Queues(h, c))
    BY CommandPool
  <2>2. \A g \in Requests : g # h => pc'[g] = pc[g]
    BY DEF Moves, TypeInv, CallType
  <2>3. CASE Close(h)
    <3>1. idle' = idle /\ conn' = [conn EXCEPT ![h] = Nil]
      BY <2>3 DEF Close
    <3> QED
      BY <2>2, <3>1 DEF TypeInv, PoolTypeInv, PoolType
  <2>4. ASSUME NEW c, PutBack(h, c), Queues(h, c) PROVE PoolTypeInv'
    <3>1. idle' = Append(idle, c) /\ conn' = [conn EXCEPT ![h] = Nil]
      BY <2>4 DEF PutBack
    <3>2. idle \in Seq(Conns) /\ conn \in [Requests -> Conns \cup {Nil}] /\ c \in Conns
      BY <2>4 DEF TypeInv, PoolTypeInv, PoolType, Queues
    <3>3. \A k \in DOMAIN idle' : idle'[k] = c \/ (k \in DOMAIN idle /\ idle'[k] = idle[k])
      BY <3>1, <3>2
    <3>4. \A k \in DOMAIN idle' : idle'[k].queued # <<>> => idle'[k].multi
      BY <2>4, <3>3 DEF TypeInv, PoolTypeInv, Queues
    <3>5. \A g \in Requests : conn'[g] = IF g = h THEN Nil ELSE conn[g]
      BY <3>1, <3>2
    <3>6. PoolType'
      BY <3>1, <3>2 DEF PoolType
    <3> QED
      BY <2>2, <3>4, <3>5, <3>6 DEF TypeInv, PoolTypeInv
  <2> QED
    BY <2>1, <2>3, <2>4
<1> QED
  BY <1>1, <1>2, <1>3 DEF TypeInv

LEMMA BeginTypes ==
    ASSUME TypeInv, NEW h \in Requests, NEW k, NEW a, NEW first, Begin(h, k, a, first),
           k \in Kinds, first \in {"29", "83", "guard", "fail"}, Stage(k, first),
           \/ k \in {"register", "login"} /\ a \in Names
           \/ k \in TokenKinds /\ a \in Issued
    PROVE  TypeInv'
<1>1. /\ pc[h] = "new" /\ pc' = [pc EXCEPT ![h] = first] /\ kind' = [kind EXCEPT ![h] = k] /\ arg' = [arg EXCEPT ![h] = a]
      /\ UNCHANGED <<users, redis, idle, conn, mem, published, aged, lost>>
      /\ overlaps' = overlaps + (IF Quiet THEN 0 ELSE 1) /\ overlaps' <= MaxOverlaps
  BY DEF Begin, Goto, pool
<1>2. \A g \in Requests : /\ g # h => pc'[g] = pc[g] /\ kind'[g] = kind[g] /\ arg'[g] = arg[g]
                          /\ g = h => pc'[g] = first /\ kind'[g] = k /\ arg'[g] = a
  BY <1>1 DEF TypeInv, CallType
<1>3. a \in Issued => a \in Requests /\ pc[a] = "ok" /\ kind[a] \in {"register", "login"} /\ a # h
  BY <1>1 DEF Issued
<1>4. \A g \in Requests : pc[g] # "new" /\ HasArg(g) => HasArg(g)'
  BY <1>1, <1>2 DEF HasArg
<1>5. HasArg(h)'
  BY <1>2, <1>3 DEF HasArg
<1>6. mem[h] = Nil /\ Read(k, first, mem[h])
  BY <1>1 DEF TypeInv, CallType, Stage, Over, Read
<1>7. CallType'
  <2>1. pc' \in [Requests -> {"new", "29", "34"} \cup Over \cup Commands]
    BY <1>1 DEF TypeInv, CallType, Over, Commands
  <2>2. kind' \in [Requests -> Kinds \cup {Nil}] /\ arg' \in [Requests -> Names \cup Requests \cup {Nil}]
    BY <1>1, <1>3 DEF TypeInv, CallType
  <2>3. ASSUME NEW g \in Requests
        PROVE  \/ pc'[g] = "new" /\ mem'[g] = Nil /\ published'[g] = <<>>
               \/ Stage(kind'[g], pc'[g]) /\ Read(kind'[g], pc'[g], mem'[g]) /\ HasArg(g)'
    <3>1. CASE g = h
      BY <1>1, <1>2, <1>5, <1>6, <3>1
    <3>2. CASE g # h
      BY <1>1, <1>2, <1>4, <3>2 DEF TypeInv, CallType, Stage, Over
    <3> QED
      BY <3>1, <3>2
  <2> QED
    BY <1>1, <2>1, <2>2, <2>3 DEF TypeInv, CallType
<1>8. PoolTypeInv'
  BY <1>1, <1>2 DEF TypeInv, PoolTypeInv, PoolType, Commands
<1>9. RestType'
  BY <1>1, BoundsAssumption DEF TypeInv, RestType
<1> QED
  BY <1>7, <1>8, <1>9 DEF TypeInv

LEMMA AfterLossFacts ==
    ASSUME CallType, NEW h \in Requests, pc[h] \notin Over \cup {"new"}
    PROVE  /\ AfterLoss(h) \in {"ok", "fail", "199", "224"}
           /\ Stage(kind[h], AfterLoss(h)) /\ Read(kind[h], AfterLoss(h), mem[h])
<1>1. Stage(kind[h], pc[h]) /\ Read(kind[h], pc[h], mem[h]) /\ kind[h] \in TokenKinds \cup {"register", "login"}
  BY StageFacts
<1>2. pc[h] = "auth" => kind[h] \in {"checkAuth", "push", "pushRoom"}
  BY <1>1 DEF Stage, TokenKinds, Over
<1>3. /\ AfterLoss(h) \in {"ok", "fail", "199", "224"}
      /\ AfterLoss(h) = "199" => kind[h] = "push"
      /\ AfterLoss(h) = "224" => kind[h] = "pushRoom"
  BY <1>2 DEF AfterLoss, AfterAuth
<1>4. Stage(kind[h], AfterLoss(h))
  BY <1>1, <1>3 DEF Stage, Over
<1>5. Read(kind[h], AfterLoss(h), mem[h])
  BY <1>1, <1>3 DEF Read
<1> QED
  BY <1>3, <1>4, <1>5

LEMMA LostIsFinite ==
    ASSUME RestType
    PROVE  IsFiniteSet(lost) /\ Cardinality(lost) \in Nat
BY RequestsAssumption, FS_Subset, FS_CardinalityType DEF RestType

LEMMA TypeStep == TypeInv /\ [Next]_vars => TypeInv'
<1> SUFFICES ASSUME TypeInv, [Next]_vars PROVE TypeInv'
  OBVIOUS
<1>1. ASSUME NEW h \in Requests, NEW u \in Names, Register(h, u) PROVE TypeInv'
  <2>1. /\ Begin(h, "register", u, IF u \in users THEN "fail" ELSE "29") /\ "register" \in Kinds
        /\ Stage("register", IF u \in users THEN "fail" ELSE "29")
    BY <1>1 DEF Register, Stage, Over
  <2> QED
    BY <2>1, BeginTypes
<1>2. ASSUME NEW h \in Requests, NEW u \in Names, Login(h, u) PROVE TypeInv'
  <2>1. /\ "login" \in Kinds /\ (Begin(h, "login", u, "fail") \/ Begin(h, "login", u, "83"))
        /\ Stage("login", "fail") /\ Stage("login", "83")
    BY <1>2 DEF Login, Stage, Over
  <2> QED
    BY <2>1, BeginTypes
<1>3. ASSUME NEW h \in Requests, NEW t \in Issued, WithToken(h, t) PROVE TypeInv'
  <2> PICK k \in Kinds \ {"register", "login"} : Begin(h, k, t, "guard")
    BY <1>3 DEF WithToken
  <2>1. k \in TokenKinds /\ Stage(k, "guard")
    BY KindsAssumption DEF TokenKinds, Stage
  <2> QED
    BY <2>1, BeginTypes
<1>4. ASSUME NEW h \in Requests, AddLooksAgain(h) \/ AddCreates(h) PROVE TypeInv'
  <2> PICK n \in {"fail", "48", "34"} : pc' = [pc EXCEPT ![h] = n]
    BY <1>4 DEF AddLooksAgain, AddCreates, Goto
  <2>1. /\ pc[h] \in {"29", "34"} /\ UNCHANGED <<redis, idle, conn, kind, arg, mem, published, aged, lost, overlaps>>
        /\ users' = users \/ users' = users \cup {arg[h]}
    BY <1>4 DEF AddLooksAgain, AddCreates, pool, input
  <2>2. kind[h] = "register" /\ arg[h] \in Names /\ Read(kind[h], pc[h], mem[h]) /\ mem' = [mem EXCEPT ![h] = mem[h]]
        /\ mem[h] \in Names \cup Requests \cup {Nil, Queued}
    BY <2>1 DEF TypeInv, CallType, Stage, HasArg, TokenKinds, Over
  <2>3. Stage(kind[h], n) /\ Read(kind[h], n, mem[h]) /\ n \in {"34"} \cup Over \cup Commands
    BY <2>2 DEF Stage, Read, Over, Commands
  <2>4. CallType'
    BY <2>1, <2>2, <2>3, CallAdvances DEF TypeInv, Over
  <2>5. PoolTypeInv'
    <3>1. \A g \in Requests : conn[g] # Nil => pc'[g] = pc[g]
      BY <2>1 DEF TypeInv, PoolTypeInv, CallType, Commands
    <3> QED
      BY <2>1, <3>1 DEF TypeInv, PoolTypeInv, PoolType
  <2>6. RestType'
    BY <2>1, <2>2 DEF TypeInv, RestType
  <2> QED
    BY <2>4, <2>5, <2>6 DEF TypeInv
<1>5. ASSUME NEW h \in Requests, Take(h) PROVE TypeInv'
  <2>1. UNCHANGED <<users, redis, pc, kind, arg, mem, published, aged, lost, overlaps>> /\ pc[h] \in Commands
    BY <1>5 DEF Take, input
  <2>2. CallType' /\ RestType'
    BY <2>1 DEF TypeInv, CallType, RestType, HasArg
  <2>3. PoolTypeInv'
    <3>1. CASE idle = <<>>
      <4>1. idle' = idle /\ conn' = [conn EXCEPT ![h] = Plain]
        BY <1>5, <3>1 DEF Take
      <4>2. Plain \in Conns /\ Plain.queued = <<>>
        BY PlainHoldsNothing DEF Plain
      <4> QED
        BY <2>1, <4>1, <4>2 DEF TypeInv, PoolTypeInv, PoolType
    <3>2. CASE idle # <<>>
      <4>1. idle' = SubSeq(idle, 1, Len(idle) - 1) /\ conn' = [conn EXCEPT ![h] = idle[Len(idle)]]
        BY <1>5, <3>2 DEF Take, Last, Front
      <4>2. idle \in Seq(Conns) /\ Len(idle) \in Nat /\ Len(idle) # 0 /\ DOMAIN idle = 1 .. Len(idle)
        BY <3>2 DEF TypeInv, PoolTypeInv, PoolType
      <4>3. idle' \in Seq(Conns) /\ \A k \in DOMAIN idle' : k \in DOMAIN idle /\ idle'[k] = idle[k]
        BY <4>1, <4>2
      <4> PICK c : c = idle[Len(idle)]
        OBVIOUS
      <4>4. c \in Conns /\ (c.queued # <<>> => c.multi)
        BY <4>2 DEF TypeInv, PoolTypeInv
      <4>5. conn' = [conn EXCEPT ![h] = c]
        BY <4>1
      <4>6. conn' \in [Requests -> Conns \cup {Nil}] /\ \A g \in Requests : conn'[g] = c \/ conn'[g] = conn[g]
        BY <4>4, <4>5 DEF TypeInv, PoolTypeInv, PoolType
      <4>7. \A g \in Requests : conn'[g] # Nil => pc[g] \in Commands
        BY <2>1, <4>5 DEF TypeInv, PoolTypeInv, PoolType
      <4> QED
        BY <2>1, <4>3, <4>4, <4>6, <4>7 DEF TypeInv, PoolTypeInv, PoolType
    <3> QED
      BY <3>1, <3>2
  <2> QED
    BY <2>2, <2>3 DEF TypeInv
<1>6. ASSUME NEW h \in Requests, Command(h) PROVE TypeInv'
  BY <1>6, CommandTypes
<1>7. ASSUME NEW h \in Requests, Lose(h) PROVE TypeInv'
  <2>1. /\ pc' = [pc EXCEPT ![h] = AfterLoss(h)] /\ conn[h] = Nil /\ lost' = lost \cup {h}
        /\ UNCHANGED <<users, redis, idle, conn, kind, arg, mem, published, aged, overlaps>>
        /\ pc[h] \notin Over \cup {"new"}
    BY <1>7 DEF Lose, Goto, pool, input, Over
  <2> PICK n : n = AfterLoss(h)
    OBVIOUS
  <2>2. n \in {"34"} \cup Over \cup Commands /\ Stage(kind[h], n) /\ Read(kind[h], n, mem[h])
    BY <2>1, AfterLossFacts DEF TypeInv, Over, Commands
  <2>3. mem' = [mem EXCEPT ![h] = mem[h]] /\ mem[h] \in Names \cup Requests \cup {Nil, Queued}
    BY <2>1 DEF TypeInv, CallType
  <2>4. CallType'
    BY <2>1, <2>2, <2>3, CallAdvances DEF TypeInv
  <2>5. PoolTypeInv'
    <3>1. \A g \in Requests : conn[g] # Nil => pc'[g] = pc[g]
      BY <2>1 DEF TypeInv, PoolTypeInv, CallType
    <3> QED
      BY <2>1, <3>1 DEF TypeInv, PoolTypeInv, PoolType
  <2>6. RestType'
    BY <2>1 DEF TypeInv, RestType
  <2> QED
    BY <2>4, <2>5, <2>6 DEF TypeInv
<1>8. CASE Age
  <2>1. UNCHANGED <<users, redis, conn, pc, kind, arg, mem, published, lost, overlaps>>
    BY <1>8 DEF Age, input
  <2>2. aged' \in 0 .. MaxFaults
    <3>1. Cardinality(lost) \in Nat /\ MaxFaults \in Nat
      BY LostIsFinite, BoundsAssumption DEF TypeInv
    <3> QED
      BY <1>8, <3>1 DEF Age, TypeInv, RestType
  <2>3. CallType' /\ RestType'
    BY <2>1, <2>2 DEF TypeInv, CallType, RestType, HasArg
  <2>4. idle' \in Seq(Conns) /\ \A k \in DOMAIN idle' : \E l \in DOMAIN idle : idle'[k] = idle[l]
    BY <1>8, AgeEntries DEF TypeInv, PoolTypeInv, PoolType
  <2>5. PoolTypeInv'
    BY <2>1, <2>4 DEF TypeInv, PoolTypeInv, PoolType
  <2> QED
    BY <2>3, <2>5 DEF TypeInv
<1>9. CASE LogicDies
  <2>1. /\ pc' = [h \in Requests |-> IF h \in Active THEN AfterLoss(h) ELSE pc[h]]
        /\ idle' = <<>> /\ conn' = [h \in Requests |-> Nil] /\ lost' = lost \cup Active
        /\ UNCHANGED <<users, redis, kind, arg, mem, published, aged, overlaps>>
    BY <1>9 DEF LogicDies, input
  <2>2. \A h \in Requests : h \in Active <=> pc[h] \notin Over \cup {"new"}
    BY DEF Active
  <2>3. \A h \in Requests : pc'[h] = pc[h] \/ (pc[h] \notin Over \cup {"new"} /\ pc'[h] = AfterLoss(h))
    BY <2>1, <2>2
  <2>4. ASSUME NEW h \in Requests
        PROVE  /\ pc'[h] \in {"new", "29", "34"} \cup Over \cup Commands
               /\ \/ pc'[h] = "new" /\ mem[h] = Nil /\ published[h] = <<>>
                  \/ Stage(kind[h], pc'[h]) /\ Read(kind[h], pc'[h], mem[h]) /\ HasArg(h)
    <3>1. CASE pc'[h] = pc[h]
      BY <3>1 DEF TypeInv, CallType
    <3>2. CASE pc[h] \notin Over \cup {"new"} /\ pc'[h] = AfterLoss(h)
      <4>1. HasArg(h)
        BY <3>2 DEF TypeInv, CallType
      <4> QED
        BY <3>2, <4>1, AfterLossFacts DEF TypeInv, Over, Commands
    <3> QED
      BY <2>3, <3>1, <3>2
  <2>5. \A h \in Requests : HasArg(h) => HasArg(h)'
    <3>1. \A t \in Requests : pc[t] = "ok" => pc'[t] = "ok"
      BY <2>3 DEF Over
    <3> QED
      BY <2>1, <3>1 DEF HasArg
  <2>6. CallType'
    <3>1. pc' \in [Requests -> {"new", "29", "34"} \cup Over \cup Commands]
      BY <2>1, <2>4
    <3>2. \A h \in Requests : \/ pc'[h] = "new" /\ mem'[h] = Nil /\ published'[h] = <<>>
                              \/ Stage(kind'[h], pc'[h]) /\ Read(kind'[h], pc'[h], mem'[h]) /\ HasArg(h)'
      BY <2>1, <2>4, <2>5
    <3> QED
      BY <2>1, <3>1, <3>2 DEF TypeInv, CallType
  <2>7. PoolTypeInv'
    BY <2>1 DEF PoolTypeInv, PoolType
  <2>8. RestType'
    BY <2>1 DEF TypeInv, RestType, Active
  <2> QED
    BY <2>6, <2>7, <2>8 DEF TypeInv
<1>10. CASE UNCHANGED vars
  BY <1>10 DEF vars, pool, input, TypeInv, CallType, PoolTypeInv, PoolType, RestType, HasArg
<1> QED
  BY <1>1, <1>2, <1>3, <1>4, <1>5, <1>6, <1>7, <1>8, <1>9, <1>10 DEF Next

(* The variables of Session keep their types, and a connection has commands queued only in
   a MULTI, whatever connections the commands of a request get. *)
THEOREM TypeCorrect == Spec => []TypeOK
<1>1. TypeInv => TypeOK
  BY DEF TypeInv, CallType, PoolTypeInv, PoolType, RestType, TypeOK
<1> QED
  BY <1>1, TypeInit, TypeStep, PTL DEF Spec

-----------------------------------------------------------------------------
(* What becomes of a session *)

(* The writes that connection c has queued are of sessions that will not be written again,
   each for the user its request logs in. *)
Sound(c) ==
    c # Nil => \A i \in DOMAIN c.queued : c.queued[i].op = "HMSET" =>
                  pc[c.queued[i].key] \notin Unwritten /\ c.queued[i].val.user = arg[c.queued[i].key]

PoolInv == PlaceInv /\ (\A k \in DOMAIN idle : Sound(idle[k])) /\ (\A h \in Requests : Sound(conn[h]))

(* Session t has been written for the last time. *)
Settled(t) == pc[t] \notin Unwritten /\ ~Pending(t)

DataInv == \A t \in Requests : redis.session[t] # Nil => Settled(t) /\ redis.session[t].user = arg[t]

(* A logout that has seen its session will end it for good. *)
LogoutOf(h) ==
    kind[h] = "logout" /\ h \notin lost =>
       /\ pc[h] \in {"148", "161", "170", "177", "ok"} => Settled(arg[h])
       /\ pc[h] = "ok" => redis.session[arg[h]] = Nil

(* A sender that the handler has found is the user of the token. *)
SenderOf(h) ==
    kind[h] \in {"push", "pushRoom"} /\ h \notin lost =>
       /\ pc[h] \in {"199", "224", "LPUSH"} => mem[h] = arg[arg[h]]
       /\ published[h] # <<>> => published[h] = <<arg[arg[h]]>>

HistoryInv == \A h \in Requests : LogoutOf(h) /\ SenderOf(h)

SessionInv == TypeInv /\ PoolInv /\ DataInv /\ HistoryInv

LEMMA SessionInit == Init => SessionInv
<1> SUFFICES ASSUME Init PROVE SessionInv
  OBVIOUS
<1>1. /\ DOMAIN idle = {} /\ \A h \in Requests : /\ conn[h] = Nil /\ redis.session[h] = Nil
                                                 /\ pc[h] = "new" /\ published[h] = <<>>
  BY DEF Init
<1>2. PoolInv
  BY <1>1 DEF PoolInv, PlaceInv, Sound, Holds
<1>3. DataInv /\ HistoryInv
  BY <1>1 DEF DataInv, HistoryInv, LogoutOf, SenderOf
<1> QED
  BY <1>2, <1>3, TypeInit DEF SessionInv

(* What no step undoes; and a session appears when it is written, once. *)
Orderly ==
    /\ lost \subseteq lost'
    /\ \A t \in Requests :
          /\ pc[t] # "new" => arg'[t] = arg[t] /\ kind'[t] = kind[t]
          /\ pc[t] \notin Unwritten => pc'[t] \notin Unwritten
          /\ Pending(t)' => Pending(t) \/ pc[t] \in Unwritten
          /\ redis'.session[t] # Nil =>
                \/ redis.session[t] # Nil /\ redis'.session[t].user = redis.session[t].user
                \/ /\ Settled(t)' /\ redis'.session[t].user = arg'[t]
                   /\ Pending(t) \/ pc[t] \in Unwritten

LEMMA DataStep ==
    ASSUME DataInv, Orderly
    PROVE  DataInv' /\ \A t \in Requests : Settled(t) =>
              Settled(t)' /\ (redis.session[t] = Nil => redis'.session[t] = Nil)
<1>1. ASSUME NEW t \in Requests, Settled(t)
      PROVE  Settled(t)' /\ (redis.session[t] = Nil => redis'.session[t] = Nil) /\ arg'[t] = arg[t]
  <2>1. pc[t] \notin Unwritten /\ ~Pending(t) /\ pc[t] # "new"
    BY <1>1 DEF Settled, Unwritten
  <2>2. pc'[t] \notin Unwritten /\ ~Pending(t)'
    BY <2>1 DEF Orderly
  <2> QED
    BY <2>1, <2>2 DEF Orderly, Settled
<1>2. DataInv'
  BY <1>1 DEF DataInv, Orderly
<1> QED
  BY <1>1, <1>2

(* A request that stays where it is, or loses its call, keeps its promises. *)
LEMMA HistoryKept ==
    ASSUME SessionInv, Orderly, NEW h \in Requests,
           \/ h \in lost'
           \/ pc[h] = "new" /\ pc'[h] \in {"29", "83", "guard", "fail"} /\ published'[h] = published[h]
           \/ pc'[h] = pc[h] /\ kind'[h] = kind[h] /\ arg'[h] = arg[h] /\ mem'[h] = mem[h] /\ published'[h] = published[h]
    PROVE  LogoutOf(h)' /\ SenderOf(h)'
<1>1. CASE h \in lost'
  BY <1>1 DEF LogoutOf, SenderOf
<1>2. CASE pc[h] = "new" /\ pc'[h] \in {"29", "83", "guard", "fail"} /\ published'[h] = published[h]
  <2>1. published[h] = <<>>
    BY <1>2 DEF SessionInv, TypeInv, CallType, Stage, Over
  <2> QED
    BY <1>2, <2>1 DEF LogoutOf, SenderOf
<1>3. CASE pc'[h] = pc[h] /\ kind'[h] = kind[h] /\ arg'[h] = arg[h] /\ mem'[h] = mem[h] /\ published'[h] = published[h]
  <2>1. CASE pc[h] = "new"
    <3>1. published[h] = <<>>
      BY <2>1 DEF SessionInv, TypeInv, CallType, Stage, Over
    <3> QED
      BY <1>3, <2>1, <3>1 DEF LogoutOf, SenderOf
  <2>2. CASE pc[h] # "new"
    <3>1. HasArg(h)
      BY <2>2, StageFacts DEF SessionInv, TypeInv
    <3>2. kind[h] \in TokenKinds => arg[h] \in Requests /\ pc[arg[h]] = "ok"
      BY <3>1 DEF HasArg, TokenKinds
    <3>3. kind[h] \in TokenKinds => arg'[arg[h]] = arg[arg[h]]
      BY <3>2 DEF Orderly
    <3>4. \A t \in Requests : Settled(t) => Settled(t)' /\ (redis.session[t] = Nil => redis'.session[t] = Nil)
      BY DataStep DEF SessionInv
    <3>5. LogoutOf(h)'
      BY <1>3, <3>2, <3>4 DEF SessionInv, HistoryInv, LogoutOf, Orderly, TokenKinds
    <3>6. SenderOf(h)'
      BY <1>3, <3>2, <3>3 DEF SessionInv, HistoryInv, SenderOf, Orderly, TokenKinds
    <3> QED
      BY <3>5, <3>6
  <2> QED
    BY <2>1, <2>2
<1> QED
  BY <1>1, <1>2, <1>3

(* Connections that were known stay sound as long as no request goes back. *)
LEMMA SoundKept ==
    ASSUME SessionInv, NEW c, c \in Conns \cup {Nil}, Sound(c),
           \A t \in Requests : pc[t] \notin Unwritten => pc'[t] \notin Unwritten /\ arg'[t] = arg[t]
    PROVE  Sound(c)'
<1>1. c # Nil => \A i \in DOMAIN c.queued : c.queued[i] \in Writable
  BY DEF Conns
<1>2. c # Nil => \A i \in DOMAIN c.queued : c.queued[i].op = "HMSET" => c.queued[i].key \in Requests
  BY <1>1 DEF Writable
<1> QED
  BY <1>2 DEF Sound

LEMMA KnownIsSound ==
    ASSUME SessionInv, NEW c, Known(c)
    PROVE  c \in Conns \cup {Nil} /\ Sound(c)
<1>1. Sound(Nil) /\ Sound(Plain) /\ Plain \in Conns
  BY PlainHoldsNothing DEF Sound, Plain
<1>2. \A k \in DOMAIN idle : idle[k] \in Conns /\ Sound(idle[k])
  BY DEF SessionInv, PoolInv, TypeInv, PoolTypeInv, PoolType
<1>3. \A h \in Requests : conn[h] \in Conns \cup {Nil} /\ Sound(conn[h])
  BY DEF SessionInv, PoolInv, TypeInv, PoolTypeInv, PoolType
<1> QED
  BY <1>1, <1>2, <1>3 DEF Known

(* The steps that leave redis alone and queue nothing. *)
LEMMA QuietStep ==
    ASSUME SessionInv, TypeInv', PlaceInv', redis' = redis, lost \subseteq lost',
           \A k \in DOMAIN idle' : Known(idle'[k]), \A h \in Requests : Known(conn'[h]),
           \A t \in Requests :
              /\ Pending(t)' => Pending(t)
              /\ pc[t] # "new" => arg'[t] = arg[t] /\ kind'[t] = kind[t]
              /\ pc[t] \notin Unwritten => pc'[t] \notin Unwritten,
           \A h \in Requests :
              \/ h \in lost'
              \/ pc[h] = "new" /\ pc'[h] \in {"29", "83", "guard", "fail"} /\ published'[h] = published[h]
              \/ pc'[h] = pc[h] /\ kind'[h] = kind[h] /\ arg'[h] = arg[h] /\ mem'[h] = mem[h] /\ published'[h] = published[h]
              \/ pc[h] \in {"29", "34"} /\ pc'[h] \in {"34", "48", "fail"} /\ kind'[h] = kind[h]
    PROVE  SessionInv'
<1>1. Orderly
  BY DEF Orderly
<1>2. DataInv'
  BY <1>1, DataStep DEF SessionInv
<1>3. PoolInv'
  <2>1. ASSUME NEW c, Known(c) PROVE c \in Conns \cup {Nil} /\ Sound(c)
    BY <2>1, KnownIsSound
  <2>2. \A t \in Requests : pc[t] \notin Unwritten => pc'[t] \notin Unwritten /\ arg'[t] = arg[t]
    BY DEF Unwritten
  <2>3. ASSUME NEW c, Known(c) PROVE Sound(c)'
    BY <2>1, <2>2, <2>3, SoundKept
  <2>4. ASSUME NEW c, Known(c), c # Nil, NEW i \in DOMAIN c.queued, c.queued[i].op = "HMSET"
        PROVE  pc'[c.queued[i].key] \notin Unwritten /\ c.queued[i].val.user = arg'[c.queued[i].key]
    BY <2>3, <2>4 DEF Sound
  <2>5. (\A k \in DOMAIN idle : Sound(idle[k]))'
    BY <2>4 DEF Sound
  <2>6. (\A h \in Requests : Sound(conn[h]))'
    BY <2>4 DEF Sound
  <2> QED
    BY <2>5, <2>6 DEF PoolInv
<1>4. ASSUME NEW h \in Requests PROVE LogoutOf(h)' /\ SenderOf(h)'
  <2>1. CASE pc[h] \in {"29", "34"} /\ pc'[h] \in {"34", "48", "fail"} /\ kind'[h] = kind[h]
    <3>1. kind[h] = "register"
      BY <2>1 DEF SessionInv, TypeInv, CallType, Stage, Over
    <3> QED
      BY <2>1, <3>1 DEF LogoutOf, SenderOf
  <2> QED
    BY <1>1, <2>1, HistoryKept
<1> QED
  BY <1>2, <1>3, <1>4 DEF SessionInv, HistoryInv

LEMMA CommandHistory ==
    ASSUME SessionInv, NEW h \in Requests, Command(h)
    PROVE  SessionInv'
<1> USE DEF SessionInv
<1>1. PICK n, v : /\ Moves(h, n, v) /\ LogoutMoves(h, n) /\ SenderMoves(h, n, v)
                  /\ pc[h] \notin Unwritten => n \notin Unwritten
                  /\ pc[h] \in {"49", "93"} => n \notin Unwritten
  BY CommandMoves
<1>2. /\ UNCHANGED <<kind, arg, lost>> /\ pc[h] # "new"
      /\ \A g \in Requests : IF g = h THEN pc'[g] = n /\ mem'[g] = v
                                      ELSE pc'[g] = pc[g] /\ mem'[g] = mem[g] /\ published'[g] = published[g]
  BY <1>1 DEF Moves, SenderMoves, TypeInv, CallType, input, Commands
<1>3. \A t \in Requests : pc[t] \notin Unwritten => pc'[t] \notin Unwritten
  BY <1>1, <1>2
<1>4. PoolType /\ PlaceInv /\ conn[h] # Nil /\ conn[h] \in Conns /\ Sound(conn[h])
  BY CommandPool DEF TypeInv, PoolTypeInv, PoolType, PoolInv
<1>5. \A t \in Requests : pc[t] \in Unwritten => ~Pending(t)
  BY DEF PoolInv, Pending, Sound, Holds
<1>6. ASSUME NEW c, Queues(h, c), NEW t \in Requests, Holds(c, t)
      PROVE  Holds(conn[h], t) \/ (t = h /\ pc[h] \in {"49", "93"})
  BY <1>4, <1>6 DEF Queues, Holds
<1>7. /\ PoolType' /\ PlaceInv'
      /\ \A k \in DOMAIN idle' : Known(idle'[k]) \/ Queues(h, idle'[k])
      /\ \A g \in Requests : conn'[g] \in {conn[g], Nil}
      /\ \A t \in Requests : Pending(t)' => Pending(t) \/ (t = h /\ pc[h] \in {"49", "93"})
      /\ PutBack(h, Plain) => \A t \in Requests : Pending(t)' => Pending(t) /\ ~Holds(conn[h], t)
  <2>1. CASE Close(h)
    <3>1. ~PutBack(h, Plain)
      <4>1. idle \in Seq(Conns) /\ Len(Append(idle, Plain)) = Len(idle) + 1 /\ Len(idle) \in Nat
        BY <1>4 DEF PoolType
      <4> QED
        BY <2>1, <4>1 DEF Close, PutBack
    <3>2. /\ PoolType' /\ PlaceInv'
          /\ \A k \in DOMAIN idle' : Known(idle'[k])
          /\ \A g \in Requests : Known(conn'[g]) /\ (g # h => conn'[g] = conn[g])
          /\ conn'[h] = Nil
          /\ \A t \in Requests : Pending(t)' => Pending(t)
      BY <1>4, <2>1, ClosePool
    <3> QED
      BY <3>1, <3>2
  <2>2. ASSUME NEW c, PutBack(h, c), Queues(h, c)
        PROVE  /\ PoolType' /\ PlaceInv'
               /\ \A k \in DOMAIN idle' : idle'[k] = c \/ Known(idle'[k])
               /\ \A g \in Requests : conn'[g] \in {conn[g], Nil}
               /\ \A t \in Requests : Pending(t)' => Holds(c, t) \/ (Pending(t) /\ ~Holds(conn[h], t))
    <3>1. \A t \in Requests : Holds(c, t) => Holds(conn[h], t) \/ ~Pending(t)
      BY <1>5, <1>6, <2>2 DEF Unwritten
    <3>2. c \in Conns
      BY <2>2 DEF Queues
    <3>3. /\ PoolType' /\ PlaceInv'
          /\ \A k \in DOMAIN idle' : idle'[k] = c \/ (k \in DOMAIN idle /\ idle'[k] = idle[k])
          /\ \A g \in Requests : conn'[g] = IF g = h THEN Nil ELSE conn[g]
          /\ \A t \in Requests : Pending(t)' => Holds(c, t) \/ (Pending(t) /\ ~Holds(conn[h], t))
      BY <1>4, <2>2, <3>1, <3>2, PutBackPool
    <3> QED
      BY <3>3 DEF Known
  <2>3. CASE \E c : PutBack(h, c) /\ Queues(h, c)
    <3> PICK c : PutBack(h, c) /\ Queues(h, c)
      BY <2>3
    <3>1. \A t \in Requests : Holds(conn[h], t) => Pending(t)
      BY DEF Pending
    <3>2. PutBack(h, Plain) => c = Plain
      <4>1. idle \in Seq(Conns) /\ c \in Conns /\ Plain \in Conns
        BY <1>4, PlainHoldsNothing DEF PoolType, Queues
      <4>2. Append(idle, c) = Append(idle, Plain) => c = Plain
        BY <4>1
      <4> QED
        BY <4>2 DEF PutBack
    <3>3. \A t : ~Holds(Plain, t)
      BY PlainHoldsNothing
    <3> QED
      BY <1>6, <2>2, <3>1, <3>2, <3>3
  <2> QED
    BY <2>1, <2>3, CommandPool
<1>8. \A t \in Requests : redis'.session[t] # Nil => Source(h, t)
  BY CommandData
<1>9. Orderly
  <2>1. ASSUME NEW t \in Requests, redis'.session[t] # Nil
        PROVE  \/ redis.session[t] # Nil /\ redis'.session[t].user = redis.session[t].user
               \/ /\ Settled(t)' /\ redis'.session[t].user = arg'[t]
                  /\ Pending(t) \/ pc[t] \in Unwritten
    <3>1. CASE pc[h] \in {"49", "93"} /\ t = h /\ PutBack(h, Plain) /\ redis'.session[t].user = arg[h]
      <4>1. pc[t] \in Unwritten /\ ~Pending(t)
        BY <1>5, <3>1 DEF Unwritten
      <4>2. pc'[t] \notin Unwritten /\ ~Pending(t)'
        BY <1>1, <1>2, <1>7, <3>1, <4>1
      <4> QED
        BY <1>2, <3>1, <4>1, <4>2 DEF Settled
    <3>2. CASE PutBack(h, Plain) /\ \E i \in DOMAIN conn[h].queued :
                  /\ conn[h].queued[i].op = "HMSET" /\ conn[h].queued[i].key = t
                  /\ redis'.session[t].user = conn[h].queued[i].val.user
      <4>1. Holds(conn[h], t) /\ Pending(t)
        BY <1>4, <3>2 DEF Holds, Pending
      <4>2. pc[t] \notin Unwritten /\ redis'.session[t].user = arg[t]
        BY <1>4, <3>2 DEF Sound
      <4>3. pc'[t] \notin Unwritten /\ ~Pending(t)'
        BY <1>3, <1>7, <3>2, <4>1, <4>2
      <4> QED
        BY <1>2, <4>1, <4>2, <4>3 DEF Settled
    <3> QED
      BY <1>8, <2>1, <3>1, <3>2 DEF Source
  <2>2. \A t \in Requests : Pending(t)' => Pending(t) \/ pc[t] \in Unwritten
    BY <1>7 DEF Unwritten
  <2> QED
    BY <1>2, <1>3, <2>1, <2>2 DEF Orderly
<1>10. PoolInv'
  <2>1. ASSUME NEW c, c \in Conns \cup {Nil}, Sound(c), c # Nil, NEW i \in DOMAIN c.queued, c.queued[i].op = "HMSET"
        PROVE  pc'[c.queued[i].key] \notin Unwritten /\ c.queued[i].val.user = arg'[c.queued[i].key]
    <3>1. Sound(c)'
      BY <1>2, <1>3, <2>1, SoundKept
    <3> QED
      BY <2>1, <3>1 DEF Sound
  <2>2. ASSUME NEW c, Known(c) PROVE c \in Conns \cup {Nil} /\ Sound(c)
    BY <2>2, KnownIsSound
  <2>3. ASSUME NEW c, Queues(h, c), NEW i \in DOMAIN c.queued, c.queued[i].op = "HMSET"
        PROVE  pc'[c.queued[i].key] \notin Unwritten /\ c.queued[i].val.user = arg'[c.queued[i].key]
    <3>1. CASE \E j \in DOMAIN conn[h].queued : c.queued[i] = conn[h].queued[j]
      BY <1>4, <2>1, <2>3, <3>1
    <3>2. CASE pc[h] \in {"49", "93"} /\ c.queued[i].key = h /\ c.queued[i].val.user = arg[h]
      BY <1>1, <1>2, <3>2
    <3> QED
      BY <2>3, <3>1, <3>2 DEF Queues
  <2>4. (\A k \in DOMAIN idle : Sound(idle[k]))'
    <3> SUFFICES ASSUME NEW k \in DOMAIN idle', NEW i \in DOMAIN idle'[k].queued, idle'[k] # Nil, idle'[k].queued[i].op = "HMSET"
                 PROVE  pc'[idle'[k].queued[i].key] \notin Unwritten /\ idle'[k].queued[i].val.user = arg'[idle'[k].queued[i].key]
      BY DEF Sound
    <3> PICK c : c = idle'[k]
      OBVIOUS
    <3>1. Known(c) \/ Queues(h, c)
      BY <1>7
    <3> QED
      BY <2>1, <2>2, <2>3, <3>1
  <2>5. (\A g \in Requests : Sound(conn[g]))'
    <3> SUFFICES ASSUME NEW g \in Requests, NEW i \in DOMAIN conn'[g].queued, conn'[g] # Nil, conn'[g].queued[i].op = "HMSET"
                 PROVE  pc'[conn'[g].queued[i].key] \notin Unwritten /\ conn'[g].queued[i].val.user = arg'[conn'[g].queued[i].key]
      BY DEF Sound
    <3> PICK c : c = conn'[g]
      OBVIOUS
    <3>1. c = conn[g] /\ Known(c)
      BY <1>7 DEF Known
    <3> QED
      BY <2>1, <2>2, <3>1
  <2> QED
    BY <1>7, <2>4, <2>5 DEF PoolInv
<1>11. DataInv'
  BY <1>9, DataStep
<1>12. ASSUME NEW g \in Requests PROVE LogoutOf(g)' /\ SenderOf(g)'
  <2>1. CASE g # h
    BY <1>2, <1>9, <2>1, HistoryKept
  <2>2. CASE g = h
    <3>1. HasArg(h) /\ Stage(kind[h], pc[h])
      BY <1>2, StageFacts DEF TypeInv
    <3>2. kind[h] \in TokenKinds => arg[h] \in Requests
      BY <3>1 DEF HasArg, TokenKinds
    <3>3. \A t \in Requests : Settled(t) => Settled(t)' /\ (redis.session[t] = Nil => redis'.session[t] = Nil)
      BY <1>9, DataStep
    <3>4. LogoutOf(h) /\ SenderOf(h)
      BY DEF HistoryInv
    <3>5. LogoutOf(h)'
      <4> SUFFICES ASSUME kind[h] = "logout", h \notin lost
                   PROVE  /\ n \in {"148", "161", "170", "177", "ok"} => Settled(arg[h])'
                          /\ n = "ok" => redis'.session[arg[h]] = Nil
        BY <1>2 DEF LogoutOf
      <4>1. arg[h] \in Requests
        BY <3>2 DEF TokenKinds
      <4>2. n \in {"148", "161", "170", "177", "ok"} => Settled(arg[h])
        BY <1>1, <3>4, <4>1 DEF LogoutMoves, LogoutOf, DataInv
      <4>3. n = "ok" => redis'.session[arg[h]] = Nil
        BY <1>1 DEF LogoutMoves
      <4>4. Settled(arg[h]) => Settled(arg[h])'
        <5> PICK t \in Requests : t = arg[h]
          BY <4>1
        <5>1. Settled(t) => Settled(t)'
          BY <3>3
        <5>2. arg' = arg
          BY <1>2
        <5> QED
          BY <5>1, <5>2 DEF Settled, Pending, Holds
      <4> QED
        BY <4>2, <4>3, <4>4
    <3>6. SenderOf(h)'
      <4> SUFFICES ASSUME kind[h] \in {"push", "pushRoom"}, h \notin lost
                   PROVE  /\ n \in {"199", "224", "LPUSH"} => v = arg[arg[h]]
                          /\ published'[h] # <<>> => published'[h] = <<arg[arg[h]]>>
        BY <1>2 DEF SenderOf
      <4>1. arg[h] \in Requests
        BY <3>2 DEF TokenKinds
      <4>2. n \in {"199", "224", "LPUSH"} => v = arg[arg[h]]
        BY <1>1, <3>4, <4>1 DEF SenderMoves, SenderOf, DataInv
      <4>3. published'[h] = published[h] \/ (pc[h] = "LPUSH" /\ published'[h] = <<mem[h]>>)
        BY <1>1 DEF SenderMoves, TypeInv, CallType
      <4> QED
        BY <3>4, <4>2, <4>3 DEF SenderOf
    <3> QED
      BY <2>2, <3>5, <3>6
  <2> QED
    BY <2>1, <2>2
<1> QED
  BY <1>10, <1>11, <1>12, CommandTypes DEF HistoryInv

LEMMA BeginHistory ==
    ASSUME SessionInv, TypeInv', NEW h \in Requests, NEW k, NEW a, NEW first, Begin(h, k, a, first),
           first \in {"29", "83", "guard", "fail"}
    PROVE  SessionInv'
<1>1. /\ pc[h] = "new" /\ pc' = [pc EXCEPT ![h] = first] /\ kind' = [kind EXCEPT ![h] = k] /\ arg' = [arg EXCEPT ![h] = a]
      /\ UNCHANGED <<redis, idle, conn, mem, published, lost>>
  BY DEF Begin, Goto, pool
<1>2. \A g \in Requests : /\ g # h => pc'[g] = pc[g] /\ kind'[g] = kind[g] /\ arg'[g] = arg[g]
                          /\ g = h => pc'[g] = first
  BY <1>1 DEF SessionInv, TypeInv, CallType
<1>3. \A t \in Requests : Pending(t)' <=> Pending(t)
  BY <1>1 DEF Pending, Holds
<1>4. PlaceInv'
  BY <1>1 DEF SessionInv, PoolInv, PlaceInv, Holds
<1>5. (\A c \in DOMAIN idle' : Known(idle'[c])) /\ (\A g \in Requests : Known(conn'[g]))
  BY <1>1 DEF Known
<1>6. \A t \in Requests : pc[t] \notin Unwritten => pc'[t] \notin Unwritten
  BY <1>1, <1>2 DEF Unwritten
<1>7. \A t \in Requests : pc[t] # "new" => arg'[t] = arg[t] /\ kind'[t] = kind[t]
  BY <1>1, <1>2
<1>8. \A g \in Requests :
         \/ pc[g] = "new" /\ pc'[g] \in {"29", "83", "guard", "fail"} /\ published'[g] = published[g]
         \/ pc'[g] = pc[g] /\ kind'[g] = kind[g] /\ arg'[g] = arg[g] /\ mem'[g] = mem[g] /\ published'[g] = published[g]
  BY <1>1, <1>2
<1> QED
  BY <1>1, <1>3, <1>4, <1>5, <1>6, <1>7, <1>8, QuietStep

LEMMA SessionStep == SessionInv /\ [Next]_vars => SessionInv'
<1> SUFFICES ASSUME SessionInv, [Next]_vars PROVE SessionInv'
  OBVIOUS
<1>0. TypeInv /\ TypeInv' /\ PoolType /\ PlaceInv
  BY TypeStep DEF SessionInv, TypeInv, PoolTypeInv, PoolInv
<1>1. ASSUME NEW h \in Requests, NEW u \in Names, Register(h, u) \/ Login(h, u) PROVE SessionInv'
  <2>1. \E k : \E first \in {"29", "83", "fail"} : Begin(h, k, u, first)
    BY <1>1 DEF Register, Login
  <2> QED
    BY <1>0, <2>1, BeginHistory
<1>2. ASSUME NEW h \in Requests, NEW t \in Issued, WithToken(h, t) PROVE SessionInv'
  <2>1. \E k : Begin(h, k, t, "guard")
    BY <1>2 DEF WithToken
  <2> QED
    BY <1>0, <2>1, BeginHistory
<1>3. ASSUME NEW h \in Requests, Command(h) PROVE SessionInv'
  BY <1>3, CommandHistory
<1>4. (\A k \in DOMAIN idle : Known(idle[k])) /\ (\A h \in Requests : Known(conn[h]))
  BY DEF Known
<1>5. UNCHANGED <<idle, conn>> => /\ PlaceInv' /\ \A t \in Requests : Pending(t)' => Pending(t)
                                  /\ (\A k \in DOMAIN idle' : Known(idle'[k])) /\ (\A h \in Requests : Known(conn'[h]))
  BY <1>0, <1>4 DEF PlaceInv, Pending, Holds
<1>6. ASSUME NEW h \in Requests, AddLooksAgain(h) \/ AddCreates(h) PROVE SessionInv'
  <2>1. /\ pc[h] \in {"29", "34"} /\ pc'[h] \in {"34", "48", "fail"} /\ \A g \in Requests : g # h => pc'[g] = pc[g]
        /\ UNCHANGED <<redis, idle, conn, kind, arg, mem, published, lost>>
    BY <1>0, <1>6 DEF AddLooksAgain, AddCreates, pool, input, Goto, TypeInv, CallType
  <2>2. \A t \in Requests : pc[t] \notin Unwritten => pc'[t] \notin Unwritten
    BY <2>1 DEF Unwritten
  <2> QED
    BY <1>0, <1>5, <2>1, <2>2, QuietStep
<1>7. ASSUME NEW h \in Requests, Take(h) PROVE SessionInv'
  <2>1. UNCHANGED <<redis, pc, kind, arg, mem, published, lost>>
    BY <1>7 DEF Take, input
  <2>2. /\ PlaceInv' /\ \A k \in DOMAIN idle' : Known(idle'[k])
        /\ \A g \in Requests : Known(conn'[g])
        /\ \A t \in Requests : Pending(t)' => Pending(t)
    BY <1>0, <1>7, TakePool
  <2> QED
    BY <1>0, <2>1, <2>2, QuietStep
<1>8. ASSUME NEW h \in Requests, Lose(h) PROVE SessionInv'
  <2>1. /\ pc[h] \notin Over \cup {"new"} /\ pc'[h] = AfterLoss(h) /\ \A g \in Requests : g # h => pc'[g] = pc[g]
        /\ UNCHANGED <<redis, idle, conn, kind, arg, mem, published>> /\ lost' = lost \cup {h}
    BY <1>0, <1>8 DEF Lose, pool, input, Goto, TypeInv, CallType, Over
  <2>2. AfterLoss(h) \notin Unwritten
    BY <1>0, <2>1, AfterLossFacts DEF TypeInv, Unwritten
  <2> QED
    BY <1>0, <1>5, <2>1, <2>2, QuietStep
<1>9. CASE Age
  <2>1. UNCHANGED <<redis, pc, kind, arg, mem, published, lost>>
    BY <1>9 DEF Age, input
  <2>2. /\ PlaceInv' /\ conn' = conn /\ \A k \in DOMAIN idle' : Known(idle'[k])
        /\ \A t \in Requests : Pending(t)' => Pending(t)
    BY <1>0, <1>9, AgePool
  <2>3. \A h \in Requests : Known(conn'[h])
    BY <1>4, <2>2
  <2> QED
    BY <1>0, <2>1, <2>2, <2>3, QuietStep
<1>10. CASE LogicDies
  <2>1. /\ pc' = [h \in Requests |-> IF h \in Active THEN AfterLoss(h) ELSE pc[h]] /\ lost' = lost \cup Active
        /\ UNCHANGED <<redis, kind, arg, mem, published>>
    BY <1>10 DEF LogicDies, input
  <2>2. \A h \in Requests : h \in Active <=> pc[h] \notin Over \cup {"new"}
    BY DEF Active
  <2>3. \A h \in Requests : pc'[h] = pc[h] \/ (h \in lost' /\ pc'[h] \notin Unwritten)
    <3> TAKE h \in Requests
    <3>1. pc[h] \notin Over \cup {"new"} => AfterLoss(h) \notin Unwritten
      BY <1>0, AfterLossFacts DEF TypeInv, Unwritten
    <3> QED
      BY <2>1, <2>2, <3>1
  <2>4. /\ PlaceInv' /\ DOMAIN idle' = {} /\ \A h \in Requests : conn'[h] = Nil
        /\ \A t \in Requests : ~Pending(t)'
    BY <1>10, DiePool
  <2>5. (\A k \in DOMAIN idle' : Known(idle'[k])) /\ (\A h \in Requests : Known(conn'[h]))
    BY <2>4 DEF Known
  <2> QED
    BY <1>0, <2>1, <2>3, <2>4, <2>5, QuietStep
<1>11. CASE UNCHANGED vars
  <2>1. UNCHANGED <<redis, idle, conn, pc, kind, arg, mem, published, lost>>
    BY <1>11 DEF vars, pool, input
  <2> QED
    BY <1>0, <1>5, <2>1, QuietStep
<1> QED
  BY <1>1, <1>2, <1>3, <1>6, <1>7, <1>8, <1>9, <1>10, <1>11 DEF Next

(* The inductive invariant: where writes of sessions are queued, what is in redis, and how
   far the logouts and the senders are. *)
THEOREM SessionCorrect == Spec => []SessionInv
BY SessionInit, SessionStep, PTL DEF Spec

(* A logout that was answered "logout ok!", none of its calls lost, has ended the session
   of its token for good: however many requests overlap, whichever connections carry their
   transactions, and wherever a logic process stops. *)
THEOREM LogoutIsFinal == Spec => []LogoutHolds
<1>1. SessionInv => LogoutHolds
  BY DEF SessionInv, HistoryInv, LogoutOf, LogoutHolds
<1> QED
  BY <1>1, SessionCorrect, PTL

(* The sender of a message is the user whose token came with the request, unless a call was
   lost: a session belongs to one user for as long as it is there. *)
THEOREM SenderIsKnown == Spec => []SenderKnown
<1>1. SessionInv => SenderKnown
  BY DEF SessionInv, HistoryInv, SenderOf, SenderKnown
<1> QED
  BY <1>1, SessionCorrect, PTL

-----------------------------------------------------------------------------
(***************************************************************************)
(* Requests that come one at a time                                        *)
(***************************************************************************)

(* The labels between MULTI and EXEC; what the request has sent by then. *)
Within == {"49", "50", "51", "93", "94", "95", "96"}

Sent(h) ==
    LET stored == Cmd("HMSET", h, Data(arg[h], kind[h] = "login"))
    IN  CASE pc[h] \in {"49", "93"} -> <<>>
          [] pc[h] \in {"50", "94"} -> <<stored>>
          [] pc[h] \in {"51", "95"} -> <<stored, Cmd("EXPIRE", h, Nil)>>
          [] OTHER -> <<stored, Cmd("EXPIRE", h, Nil), Cmd("SET", arg[h], h)>>

Open(c) == c # Nil /\ c.multi

(* One request is active.  The connection it has in a MULTI is in its hand or on top of the
   stack, with all it has sent, unless a connection was dropped: then there may be none. *)
SerialPool ==
    /\ \A g, h \in Active : g = h
    /\ \A h \in Requests : Open(conn[h]) => pc[h] \in Within /\ conn[h].queued = Sent(h)
    /\ \A k \in DOMAIN idle : Open(idle[k]) =>
          k = Len(idle) /\ \E h \in Requests : pc[h] \in Within /\ conn[h] = Nil /\ idle[k].queued = Sent(h)
    /\ aged = 0 => \A h \in Requests : pc[h] \in Within =>
          Open(conn[h]) \/ (conn[h] = Nil /\ \E k \in DOMAIN idle : Open(idle[k]))

Named(t) == redis.session[t] # Nil /\ redis.session[t].named
Full(h)  == [user |-> arg[h], named |-> TRUE, ttl |-> TRUE]

(* A token that is stored is the one of a login of its user that has got that far. *)
TokenOf(u) ==
    redis.token[u] # Nil => /\ kind[redis.token[u]] = "login" /\ arg[redis.token[u]] = u
                            /\ pc[redis.token[u]] \in {"96"} \cup Over

(* What an active login or logout has read, and what it has done by then. *)
ReadOf(h) ==
    /\ kind[h] = "login" =>
          /\ pc[h] = "83" => mem[h] = Nil
          /\ pc[h] = "87" => mem[h] = redis.token[arg[h]]
    /\ kind[h] = "logout" =>
          /\ pc[h] \in {"148", "161"} => Named(arg[h])
          /\ pc[h] = "161" => mem[h] = arg[arg[h]]
          /\ pc[h] \in {"170", "177"} => redis.token[arg[arg[h]]] # arg[h]

(* The session of a login that succeeded, until another login has found its token. *)
OpensOf(h) ==
    /\ kind[h] = "login" /\ pc[h] = "ok" /\ redis.token[arg[h]] = h
    /\ \A g \in Requests : kind[g] = "login" => mem[g] # h
    => redis.session[h] = Full(h)

TokenInv == (\A u \in Names : TokenOf(u)) /\ (\A h \in Requests : ReadOf(h) /\ OpensOf(h))

(* The token of a session with a name is stored, but between lines 93 and 95, and between
   lines 161 and 177; from line 92 on a login finds no other session of its user. *)
SingleInv ==
    /\ \A t \in Requests : Named(t) =>
          \/ redis.token[arg[t]] = t
          \/ pc[t] \in {"94", "95"}
          \/ \E g \in Requests : kind[g] = "logout" /\ pc[g] \in {"170", "177"} /\ arg[g] = t
    /\ \A h \in Requests : pc[h] \in {"92", "93", "94", "95", "96"} =>
          \A t \in Requests : t # h /\ Named(t) => arg[t] # arg[h]

LostInv == \A h \in lost : pc[h] # "new"

SerialInv == LostInv /\ (Serial => SerialPool /\ TokenInv /\ (Spared => SingleInv))

LEMMA SerialInit == Init => SerialInv
<1> SUFFICES ASSUME Init PROVE SerialInv
  OBVIOUS
<1>1. /\ DOMAIN idle = {} /\ \A h \in Requests : conn[h] = Nil /\ redis.session[h] = Nil /\ pc[h] = "new"
      /\ \A u \in Names : redis.token[u] = Nil
  BY DEF Init
<1>2. SerialPool
  BY <1>1 DEF SerialPool, Active, Open, Within
<1>3. TokenInv /\ SingleInv
  BY <1>1 DEF TokenInv, TokenOf, ReadOf, OpensOf, SingleInv, Named
<1>4. LostInv
  BY DEF Init, LostInv
<1> QED
  BY <1>2, <1>3, <1>4 DEF SerialInv

-----------------------------------------------------------------------------
(* The pool, under one request at a time *)

(* No other request than h is active. *)
Alone(h) == \A g \in Requests : g # h => pc[g] \in {"new"} \cup Over

LEMMA ActiveIsAlone ==
    ASSUME SessionInv, SerialPool, NEW h \in Requests, pc[h] \notin {"new"} \cup Over
    PROVE  Alone(h) /\ \A g \in Requests : g # h => conn[g] = Nil
<1>1. Alone(h)
  BY DEF SerialPool, Active, Alone
<1>2. \A g \in Requests : conn[g] # Nil => pc[g] \notin {"new"} \cup Over
  BY DEF SessionInv, TypeInv, PoolTypeInv, Commands, Over
<1> QED
  BY <1>1, <1>2 DEF Alone

(* Outside the labels of a transaction no connection is in a MULTI. *)
LEMMA NoneOpen ==
    ASSUME SessionInv, SerialPool, \A h \in Requests : pc[h] \notin Within
    PROVE  (\A k \in DOMAIN idle : ~Open(idle[k])) /\ (\A h \in Requests : ~Open(conn[h]))
BY DEF SerialPool

(* A step of request h that puts connection c back. *)
LEMMA PoolOfStep ==
    ASSUME SessionInv, SerialPool, NEW h \in Requests, pc[h] \notin {"new"} \cup Over, UNCHANGED <<kind, arg, aged>>,
           \A g \in Requests : g # h => pc'[g] = pc[g],
           NEW c \in Conns, conn[h] # Nil, PutBack(h, c),
           c.multi => pc'[h] \in Within /\ c.queued = Sent(h)',
           pc'[h] \in Within /\ (pc[h] \in Within => Open(conn[h])) => c.multi
    PROVE  SerialPool'
<1>0. Alone(h) /\ (\A g \in Requests : g # h => conn[g] = Nil) /\ c # Nil
  BY ActiveIsAlone, NilAssumption
<1>1. /\ idle' = Append(idle, c) /\ conn' = [conn EXCEPT ![h] = Nil]
      /\ idle \in Seq(Conns) /\ conn \in [Requests -> Conns \cup {Nil}]
  BY DEF PutBack, SessionInv, TypeInv, PoolTypeInv, PoolType
<1>2. PICK n : n = Len(idle')
  OBVIOUS
<1>3. /\ n \in DOMAIN idle' /\ idle'[n] = c
      /\ \A k \in DOMAIN idle' : k = n \/ (k \in DOMAIN idle /\ idle'[k] = idle[k])
  BY <1>1, <1>2
<1>4. \A k \in DOMAIN idle : ~Open(idle[k])
  BY <1>0 DEF SerialPool, Alone, Within, Over
<1>5. \A g \in Requests : conn'[g] = Nil
  BY <1>0, <1>1
<1>6. \A g \in Requests : g # h => pc[g] \notin Within
  BY <1>0 DEF Alone, Within, Over
<1>7. \A f, g \in Active' : f = g
  BY <1>0 DEF Alone, Active
<1>8. \A g \in Requests : ~Open(conn'[g])
  BY <1>5 DEF Open
<1>9. \A k \in DOMAIN idle' : Open(idle'[k]) => k = n /\ c.multi
  BY <1>3, <1>4 DEF Open
<1>10. c.multi => pc'[h] \in Within /\ conn'[h] = Nil /\ c.queued = Sent(h)'
  BY <1>5
<1>11. aged = 0 /\ pc[h] \in Within => Open(conn[h])
  BY DEF SerialPool
<1>12. ASSUME aged = 0, NEW g \in Requests, pc'[g] \in Within
       PROVE  conn'[g] = Nil /\ \E k \in DOMAIN idle' : Open(idle'[k])
  <2>1. g = h
    BY <1>6, <1>12
  <2>2. Open(idle'[n])
    BY <1>0, <1>3, <1>11, <1>12, <2>1 DEF Open
  <2> QED
    BY <1>3, <1>5, <2>2
<1>13. ASSUME NEW k \in DOMAIN idle', Open(idle'[k])
       PROVE  k = Len(idle') /\ \E g \in Requests : pc'[g] \in Within /\ conn'[g] = Nil /\ idle'[k].queued = Sent(g)'
  BY <1>2, <1>3, <1>9, <1>10, <1>13
<1> QED
  BY <1>7, <1>8, <1>12, <1>13 DEF SerialPool, Open

(* A step that leaves the pool alone, while no request is in a transaction before or after. *)
LEMMA PoolOfRest ==
    ASSUME SessionInv, SerialPool, UNCHANGED <<idle, conn>>, \A f, g \in Active' : f = g,
           \A g \in Requests : pc[g] \notin Within /\ pc'[g] \notin Within
    PROVE  SerialPool'
<1>1. (\A k \in DOMAIN idle : ~Open(idle[k])) /\ (\A h \in Requests : ~Open(conn[h]))
  BY NoneOpen
<1>2. (\A k \in DOMAIN idle' : ~Open(idle'[k])) /\ (\A h \in Requests : ~Open(conn'[h]))
  BY <1>1
<1> QED
  BY <1>2 DEF SerialPool, Open

LEMMA PoolOfTake ==
    ASSUME SessionInv, SerialPool, NEW h \in Requests, Take(h)
    PROVE  SerialPool'
<1>0. /\ pc[h] \in Commands /\ conn[h] = Nil /\ UNCHANGED <<pc, kind, arg, aged>>
      /\ idle \in Seq(Conns) /\ conn \in [Requests -> Conns \cup {Nil}]
  BY DEF Take, input, SessionInv, TypeInv, PoolTypeInv, PoolType
<1>1. Alone(h) /\ (\A g \in Requests : g # h => conn[g] = Nil /\ pc[g] \notin Within)
  <2>1. pc[h] \notin {"new"} \cup Over
    BY <1>0 DEF Commands, Over
  <2> QED
    BY <2>1, ActiveIsAlone DEF Alone, Within, Over
<1>2. \A g \in Requests : Sent(g)' = Sent(g)
  BY <1>0 DEF Sent
<1>3. CASE idle = <<>>
  <2>1. idle' = idle /\ \A g \in Requests : conn'[g] = IF g = h THEN Plain ELSE conn[g]
    BY <1>0, <1>3 DEF Take
  <2>2. ~Open(Plain) /\ DOMAIN idle = {}
    BY <1>3 DEF Open, Plain
  <2>3. \A g \in Requests : ~Open(conn'[g])
    BY <1>1, <2>1, <2>2 DEF Open
  <2>4. aged = 0 => \A g \in Requests : pc[g] \notin Within
    BY <1>0, <1>1, <2>2 DEF SerialPool, Open
  <2> QED
    BY <1>0, <2>1, <2>2, <2>3, <2>4 DEF SerialPool, Open, Active
<1>4. CASE idle # <<>>
  <2> PICK n : n = Len(idle)
    OBVIOUS
  <2> PICK c : c = idle[n]
    OBVIOUS
  <2>1. n \in Nat /\ n # 0 /\ DOMAIN idle = 1 .. n /\ c \in Conns
    BY <1>0, <1>4
  <2>2. idle' = SubSeq(idle, 1, n - 1) /\ conn' = [conn EXCEPT ![h] = c]
    BY <1>4 DEF Take, Last, Front
  <2>3. \A k \in DOMAIN idle' : k \in DOMAIN idle /\ k # n /\ idle'[k] = idle[k]
    BY <1>0, <2>1, <2>2
  <2>4. \A g \in Requests : conn'[g] = IF g = h THEN c ELSE conn[g]
    BY <1>0, <2>2
  <2>5. \A k \in DOMAIN idle' : ~Open(idle'[k])
    BY <2>3 DEF SerialPool
  <2>6. Open(c) => pc[h] \in Within /\ c.queued = Sent(h)
    BY <1>1, <2>1 DEF SerialPool
  <2>7. aged = 0 /\ pc[h] \in Within => Open(c)
    BY <1>0, <2>1 DEF SerialPool, Open
  <2>8. \A g \in Requests : Open(conn'[g]) => g = h
    BY <1>1, <2>4 DEF Open
  <2>9. \A g \in Requests : Open(conn'[g]) => pc'[g] \in Within /\ conn'[g].queued = Sent(g)'
    BY <1>0, <1>2, <2>4, <2>6, <2>8
  <2>10. aged' = 0 => \A g \in Requests : pc'[g] \in Within => Open(conn'[g])
    BY <1>0, <1>1, <2>4, <2>7
  <2> QED
    BY <1>0, <2>5, <2>9, <2>10 DEF SerialPool, Open, Active
<1> QED
  BY <1>3, <1>4

LEMMA PoolOfAge ==
    ASSUME SessionInv, SerialPool, Age
    PROVE  SerialPool'
<1>1. UNCHANGED <<conn, pc, kind, arg>> /\ aged' # 0
  <2>1. aged \in Nat /\ aged' = aged + 1
    BY BoundsAssumption DEF Age, SessionInv, TypeInv, RestType
  <2> QED
    BY <2>1 DEF Age, input
<1>2. /\ idle' \in Seq(Conns) /\ Len(idle') = Len(idle) - 1 /\ idle \in Seq(Conns)
      /\ \A k \in DOMAIN idle' : \E l \in DOMAIN idle : idle'[k] = idle[l] /\ l \in {k, k + 1}
  BY AgeEntries DEF SessionInv, TypeInv, PoolTypeInv, PoolType
<1>3. ASSUME NEW k \in DOMAIN idle', Open(idle'[k])
      PROVE  k = Len(idle') /\ \E h \in Requests : pc[h] \in Within /\ conn[h] = Nil /\ idle'[k].queued = Sent(h)
  <2> PICK l \in DOMAIN idle : idle'[k] = idle[l] /\ l \in {k, k + 1}
    BY <1>2
  <2>1. l = Len(idle) /\ \E h \in Requests : pc[h] \in Within /\ conn[h] = Nil /\ idle[l].queued = Sent(h)
    BY <1>3 DEF SerialPool
  <2>2. k = Len(idle')
    <3>1. DOMAIN idle' = 1 .. Len(idle') /\ Len(idle') \in Nat /\ Len(idle) \in Nat
      BY <1>2
    <3> QED
      BY <1>2, <2>1, <3>1
  <2> QED
    BY <2>1, <2>2
<1>4. \A h \in Requests : Sent(h)' = Sent(h)
  BY <1>1 DEF Sent
<1>5. \A k \in DOMAIN idle' : Open(idle'[k]) =>
         k = Len(idle') /\ \E h \in Requests : pc'[h] \in Within /\ conn'[h] = Nil /\ idle'[k].queued = Sent(h)'
  BY <1>1, <1>3, <1>4
<1>6. \A h \in Requests : Open(conn'[h]) => pc'[h] \in Within /\ conn'[h].queued = Sent(h)'
  BY <1>1, <1>4 DEF SerialPool
<1> QED
  BY <1>1, <1>5, <1>6 DEF SerialPool, Open, Active

LEMMA PoolOfDeath ==
    ASSUME SessionInv, SerialPool, LogicDies
    PROVE  SerialPool'
<1>1. /\ pc' = [h \in Requests |-> IF h \in Active THEN AfterLoss(h) ELSE pc[h]]
      /\ idle' = <<>> /\ conn' = [h \in Requests |-> Nil]
  BY DEF LogicDies
<1>2. \A h \in Requests : pc[h] \notin {"new"} \cup Over => AfterLoss(h) \in {"ok", "fail", "199", "224"}
  BY AfterLossFacts DEF SessionInv, TypeInv
<1>3. \A h \in Requests : pc'[h] \notin Within /\ (h \in Active' => h \in Active)
  BY <1>1, <1>2 DEF Active, Within, Over
<1>4. \A f, g \in Active' : f = g
  BY <1>3 DEF SerialPool, Active
<1> QED
  BY <1>1, <1>3, <1>4 DEF SerialPool, Open

(* What a command sends is what its request has sent before, and itself. *)
LEMMA PoolOfWrites ==
    ASSUME SessionInv, SerialPool, NEW h \in Requests, WriteSession(h) \/ Expire(h) \/ SetToken(h)
    PROVE  SerialPool'
<1>1. /\ pc[h] \in {"49", "50", "93", "94", "95"} /\ pc[h] \in Within /\ conn[h] # Nil
      /\ UNCHANGED <<kind, arg, aged>>
      /\ pc[h] = "49" => pc'[h] = "50"
      /\ pc[h] = "50" => pc'[h] = "51"
      /\ pc[h] = "93" => pc'[h] = "94"
      /\ pc[h] = "94" => pc'[h] = "95"
      /\ pc[h] = "95" => pc'[h] = "96"
      /\ \A g \in Requests : g # h => pc'[g] = pc[g]
  BY DEF WriteSession, Expire, SetToken, From, At, Goto, input, Within, SessionInv, TypeInv, CallType
<1>2. pc'[h] \in Within /\ pc[h] \notin {"new"} \cup Over
  BY <1>1 DEF Within, Over
<1>3. PICK w : /\ Writes(h, w) /\ Sent(h)' = Append(Sent(h), w)
  <2> DEFINE stored == Cmd("HMSET", h, Data(arg[h], kind[h] = "login"))
             expire == Cmd("EXPIRE", h, Nil)
             token  == Cmd("SET", arg[h], h)
  <2>1. arg'[h] = arg[h] /\ kind'[h] = kind[h]
    BY <1>1
  <2>2. CASE WriteSession(h)
    <3>1. Writes(h, stored) /\ Sent(h) = <<>> /\ Sent(h)' = <<stored>>
      BY <1>1, <2>1, <2>2 DEF WriteSession, From, At, Sent
    <3> QED
      BY <3>1
  <2>3. CASE Expire(h)
    <3>1. Writes(h, expire) /\ Sent(h) = <<stored>> /\ Sent(h)' = <<stored, expire>>
      BY <1>1, <2>1, <2>3 DEF Expire, From, At, Sent
    <3> HIDE DEF stored, expire
    <3> QED
      BY <3>1
  <2>4. CASE SetToken(h)
    <3>1. Writes(h, token) /\ Sent(h) = <<stored, expire>> /\ Sent(h)' = <<stored, expire, token>>
      BY <1>1, <2>1, <2>4 DEF SetToken, From, At, Sent
    <3> HIDE DEF stored, expire, token
    <3> QED
      BY <3>1
  <2> QED
    BY <2>2, <2>3, <2>4
<1>4. conn[h] \in Conns /\ conn[h].multi \in BOOLEAN
  BY <1>1 DEF SessionInv, TypeInv, PoolTypeInv, PoolType, Conns
<1>5. CASE InMulti(h)
  <2> DEFINE c == [conn[h] EXCEPT !.queued = Append(@, w)]
  <2>1. PutBack(h, c)
    BY <1>3, <1>5 DEF Writes
  <2>2. conn[h].queued = Sent(h)
    BY <1>1, <1>5 DEF SerialPool, Open, InMulti
  <2>3. c.multi /\ c.queued = Sent(h)'
    BY <1>3, <1>4, <1>5, <2>2 DEF InMulti, Conns
  <2>4. c \in Conns
    <3>1. Close(h) \/ \E d : PutBack(h, d) /\ Queues(h, d)
      BY CommandPool DEF SessionInv, Command
    <3> PICK n : n = Len(idle)
      OBVIOUS
    <3>2. idle \in Seq(Conns) /\ n \in Nat
      BY DEF SessionInv, TypeInv, PoolTypeInv, PoolType
    <3>3. idle' = Append(idle, c)
      BY <2>1 DEF PutBack
    <3>4. idle' # idle
      BY <3>2, <3>3
    <3>5. PICK d : PutBack(h, d) /\ Queues(h, d)
      BY <3>1, <3>4 DEF Close
    <3>6. Append(idle, d)[n + 1] = d /\ Append(idle, c)[n + 1] = c
      BY <3>2
    <3>7. c = d
      BY <3>3, <3>5, <3>6 DEF PutBack
    <3> QED
      BY <3>5, <3>7 DEF Queues
  <2> HIDE DEF c
  <2> QED
    BY <1>1, <1>2, <2>1, <2>3, <2>4, PoolOfStep
<1>6. CASE ~InMulti(h)
  <2>1. PutBack(h, Plain)
    BY <1>3, <1>6 DEF Writes
  <2>2. Plain \in Conns /\ ~Plain.multi /\ ~Open(conn[h])
    BY <1>6, PlainHoldsNothing DEF Plain, Open, InMulti
  <2> QED
    BY <1>1, <1>2, <2>1, <2>2, PoolOfStep
<1> QED
  BY <1>5, <1>6

(* Only between MULTI and EXEC a request holds a connection in a MULTI. *)
LEMMA NotInMulti ==
    ASSUME SessionInv, SerialPool, NEW h \in Requests, conn[h] # Nil, pc[h] \notin Within
    PROVE  InMulti(h) = FALSE /\ conn[h] \in Conns /\ conn[h].queued = <<>>
<1>1. conn[h] \in Conns /\ (conn[h].queued # <<>> => conn[h].multi)
  BY DEF SessionInv, TypeInv, PoolTypeInv, PoolType
<1>2. ~conn[h].multi
  BY DEF SerialPool, Open
<1>3. conn[h].multi \in BOOLEAN
  BY <1>1 DEF Conns
<1> QED
  BY <1>1, <1>2, <1>3 DEF InMulti

(* The commands away from the transactions: where they go, and the connection they put back. *)
LEMMA PoolOfOthers ==
    ASSUME SessionInv, SerialPool, NEW h \in Requests,
           \/ GetToken(h) \/ DelOldSession(h) \/ Guard(h) \/ Auth(h)
           \/ LogoutReads(h) \/ LogoutDelToken(h) \/ LogoutDelRoute(h) \/ LogoutDelSession(h)
           \/ PublishGet(h) \/ PublishHash(h) \/ Publish(h)
    PROVE  SerialPool' /\ pc[h] \notin Within /\ pc'[h] \notin Within /\ pc[h] \notin {"new"} \cup Over
           /\ \A g \in Requests : g # h => pc'[g] = pc[g]
<1>1. /\ conn[h] # Nil /\ UNCHANGED <<kind, arg, aged>>
      /\ pc[h] \in {"83", "87", "guard", "auth", "148", "161", "170", "177", "199", "224", "260", "280", "LPUSH"}
      /\ \A g \in Requests : g # h => pc'[g] = pc[g]
  BY DEF GetToken, DelOldSession, Guard, Auth, LogoutReads, LogoutDelToken, LogoutDelRoute, LogoutDelSession,
         PublishGet, PublishHash, Publish, ReadsHash, Deletes, At, Goto, input, SessionInv, TypeInv, CallType
<1>2. pc[h] \notin Within /\ pc[h] \notin {"new"} \cup Over
  BY <1>1 DEF Within, Over
<1>3. InMulti(h) = FALSE /\ conn[h] \in Conns
  BY <1>1, <1>2, NotInMulti
<1>4. pc'[h] \notin Within
  <2>0. pc \in [Requests -> {"new", "29", "34"} \cup Over \cup Commands]
    BY DEF SessionInv, TypeInv, CallType
  <2>1. pc[h] = "guard" => /\ kind[h] \in TokenKinds
                           /\ AfterGuard(h) \in {"auth", "148", "260", "280"}
    <3>1. pc[h] = "guard" => kind[h] \in TokenKinds
      BY StageFacts DEF SessionInv, TypeInv
    <3> QED
      BY <3>1 DEF AfterGuard, TokenKinds
  <2>2. pc[h] = "auth" => AfterAuth(h) \in {"ok", "199", "224"}
    <3>1. pc[h] = "auth" => kind[h] \in {"checkAuth", "push", "pushRoom"}
      BY DEF SessionInv, TypeInv, CallType, Stage, Over
    <3> QED
      BY <3>1 DEF AfterAuth
  <2> QED
    BY <2>0, <2>1, <2>2 DEF GetToken, DelOldSession, Guard, Auth, LogoutReads, LogoutDelToken, LogoutDelRoute,
         LogoutDelSession, PublishGet, PublishHash, Publish, ReadsHash, Deletes, At, Goto, Within
<1>5. \E c \in Conns : PutBack(h, c) /\ ~c.multi
  <2>1. Plain \in Conns /\ ~Plain.multi
    BY PlainHoldsNothing DEF Plain
  <2>2. ~conn[h].multi
    BY <1>3 DEF InMulti
  <2>3. PutBack(h, Plain) \/ PutBack(h, conn[h])
    BY <1>3 DEF GetToken, DelOldSession, Guard, Auth, LogoutReads, LogoutDelToken, LogoutDelRoute,
         LogoutDelSession, PublishGet, PublishHash, Publish, ReadsHash, Deletes
  <2> QED
    BY <1>3, <2>1, <2>2, <2>3
<1> QED
  BY <1>1, <1>2, <1>4, <1>5, PoolOfStep

LEMMA PoolOfCommand ==
    ASSUME SessionInv, SerialPool, NEW h \in Requests, Command(h)
    PROVE  SerialPool' /\ pc[h] \notin {"new"} \cup Over
<1>1. CASE WriteSession(h) \/ Expire(h) \/ SetToken(h)
  <2>1. pc[h] \notin {"new"} \cup Over
    BY <1>1 DEF WriteSession, Expire, SetToken, From, At, Over
  <2> QED
    BY <1>1, <2>1, PoolOfWrites
<1>2. CASE Multi(h)
  <2> DEFINE c == [conn[h] EXCEPT !.multi = TRUE]
  <2>1. /\ pc[h] \in {"48", "92"} /\ conn[h] # Nil /\ UNCHANGED <<kind, arg, aged>> /\ PutBack(h, c)
        /\ pc'[h] \in {"49", "93"} /\ \A g \in Requests : g # h => pc'[g] = pc[g]
    BY <1>2 DEF Multi, From, At, Goto, input, SessionInv, TypeInv, CallType
  <2>2. pc[h] \notin Within /\ pc'[h] \in Within /\ pc[h] \notin {"new"} \cup Over
    BY <2>1 DEF Within, Over
  <2>3. conn[h] \in Conns /\ conn[h].queued = <<>>
    BY <2>1, <2>2, NotInMulti
  <2>4. c \in Conns /\ c.multi /\ c.queued = <<>>
    BY <2>3 DEF Conns
  <2>5. Sent(h)' = <<>>
    BY <2>1 DEF Sent
  <2> HIDE DEF c
  <2> QED
    BY <2>1, <2>2, <2>4, <2>5, PoolOfStep
<1>3. CASE Exec(h)
  <2>1. /\ pc[h] \in {"51", "96"} /\ conn[h] # Nil /\ UNCHANGED <<kind, arg, aged>> /\ PutBack(h, Plain)
        /\ pc'[h] \in {"ok", "fail"} /\ \A g \in Requests : g # h => pc'[g] = pc[g]
    BY <1>3 DEF Exec, At, Goto, input, SessionInv, TypeInv, CallType
  <2>2. pc'[h] \notin Within /\ pc[h] \notin {"new"} \cup Over /\ Plain \in Conns /\ ~Plain.multi
    BY <2>1, PlainHoldsNothing DEF Within, Over, Plain
  <2> QED
    BY <2>1, <2>2, PoolOfStep
<1> QED
  BY <1>1, <1>2, <1>3, PoolOfOthers DEF Command

-----------------------------------------------------------------------------
(* What a step of request h, alone, does to the tokens and the sessions *)

LEMMA TokenMove ==
    ASSUME SessionInv, TypeInv', TokenInv, NEW h \in Requests, Alone(h), pc[h] \notin Over,
           \A g \in Requests : g # h => pc'[g] = pc[g] /\ kind'[g] = kind[g] /\ arg'[g] = arg[g] /\ mem'[g] = mem[g],
           pc[h] # "new" => kind'[h] = kind[h] /\ arg'[h] = arg[h],
           \A u \in Names : \/ redis'.token[u] \in {redis.token[u], Nil}
                            \/ /\ redis'.token[u] = h /\ u = arg'[h] /\ kind'[h] = "login"
                               /\ pc'[h] \in {"96"} \cup Over,
           pc[h] = "96" => pc'[h] \in Over,
           \A t \in Requests : t # h =>
               \/ redis'.session[t] = redis.session[t]
               \/ kind'[h] = "login" /\ mem'[h] = t
               \/ redis.token[arg[t]] # t,
           kind'[h] = "login" => mem'[h] = mem[h] \/ mem[h] = Nil,
           kind'[h] = "login" /\ pc'[h] = "ok" => redis'.session[h] = Full(h)',
           ReadOf(h)'
    PROVE  TokenInv'
<1>0. /\ \A u \in Names : redis.token[u] \in Requests \cup {Nil}
      /\ \A g \in Requests : arg[g] \in Names \cup Requests \cup {Nil}
  BY DEF SessionInv, TypeInv, RestType, Db, CallType
<1>1. ASSUME NEW u \in Names PROVE TokenOf(u)'
  <2>1. CASE redis'.token[u] = Nil
    BY <2>1 DEF TokenOf
  <2>2. CASE redis'.token[u] = h /\ u = arg'[h] /\ kind'[h] = "login" /\ pc'[h] \in {"96"} \cup Over
    BY <2>2 DEF TokenOf
  <2>3. CASE redis'.token[u] = redis.token[u] /\ redis.token[u] # Nil
    <3> PICK t : t = redis.token[u]
      OBVIOUS
    <3>1. t \in Requests /\ kind[t] = "login" /\ arg[t] = u /\ pc[t] \in {"96"} \cup Over
      BY <1>0, <2>3 DEF TokenInv, TokenOf
    <3>2. kind'[t] = "login" /\ arg'[t] = u /\ pc'[t] \in {"96"} \cup Over
      BY <3>1 DEF Over
    <3> QED
      BY <2>3, <3>2 DEF TokenOf
  <2> QED
    BY <2>1, <2>2, <2>3
<1>2. ASSUME NEW g \in Requests, g # h PROVE ReadOf(g)'
  <2>1. pc'[g] \in {"new"} \cup Over
    BY <1>2 DEF Alone
  <2> QED
    BY <2>1 DEF ReadOf, Over
<1>3. ASSUME NEW t \in Requests PROVE OpensOf(t)'
  <2> SUFFICES ASSUME t # h, kind'[t] = "login", pc'[t] = "ok", redis'.token[arg'[t]] = t,
                      \A g \in Requests : kind'[g] = "login" => mem'[g] # t
               PROVE  redis'.session[t] = Full(t)'
    BY DEF OpensOf
  <2>1. kind[t] = "login" /\ pc[t] = "ok" /\ arg'[t] = arg[t] /\ arg[t] \in Names
    <3>1. kind[t] = "login" /\ pc[t] = "ok" /\ arg'[t] = arg[t]
      OBVIOUS
    <3>2. HasArg(t)
      BY <3>1, StageFacts DEF SessionInv, TypeInv
    <3> QED
      BY <3>1, <3>2 DEF HasArg, TokenKinds
  <2>2. redis.token[arg[t]] = t
    <3>1. t # Nil
      BY ValuesAssumption
    <3> QED
      BY <2>1, <3>1
  <2>3. \A g \in Requests : kind[g] = "login" => mem[g] # t
    <3> SUFFICES ASSUME NEW g \in Requests, kind[g] = "login", mem[g] = t PROVE FALSE
      OBVIOUS
    <3>1. t # Nil
      BY ValuesAssumption
    <3>2. g = h
      OBVIOUS
    <3>3. pc[h] # "new"
      BY <3>1, <3>2 DEF SessionInv, TypeInv, CallType, Stage, Over
    <3> QED
      BY <3>1, <3>2, <3>3
  <2>4. redis.session[t] = Full(t)
    BY <2>1, <2>2, <2>3 DEF TokenInv, OpensOf
  <2>5. redis'.session[t] = redis.session[t]
    BY <2>2
  <2> QED
    BY <2>1, <2>4, <2>5 DEF Full
<1>4. OpensOf(h)'
  BY DEF OpensOf
<1> QED
  BY <1>1, <1>2, <1>3, <1>4 DEF TokenInv

Last5 == {"92", "93", "94", "95", "96"}

(* SingleInv, when no other request than h is active. *)
SingleOf(h) ==
    /\ \A t \in Requests : t # h /\ Named(t) =>
          redis.token[arg[t]] = t \/ (kind[h] = "logout" /\ pc[h] \in {"170", "177"} /\ arg[h] = t)
    /\ Named(h) => redis.token[arg[h]] = h \/ pc[h] \in {"94", "95"}
    /\ pc[h] \in Last5 => \A t \in Requests : t # h /\ Named(t) => arg[t] # arg[h]

LEMMA SingleAlone ==
    ASSUME SessionInv, NEW h \in Requests, Alone(h), SingleInv
    PROVE  SingleOf(h)
<1>1. kind[h] = "logout" /\ pc[h] \in {"170", "177"} => arg[h] # h
  <2>1. pc[h] \in {"170", "177"} => HasArg(h)
    BY StageFacts DEF SessionInv, TypeInv
  <2> QED
    BY <2>1 DEF HasArg
<1>2. \A g \in Requests : g # h => pc[g] \notin {"94", "95", "170", "177"}
  BY DEF Alone, Over
<1> QED
  BY <1>1, <1>2 DEF SingleInv, SingleOf, Last5

LEMMA SingleBack ==
    ASSUME NEW h \in Requests, Alone(h)', SingleOf(h)'
    PROVE  SingleInv'
<1>1. \A g \in Requests : g # h => pc'[g] \notin Last5
  BY DEF Alone, Over, Last5
<1> QED
  BY <1>1 DEF SingleInv, SingleOf, Last5, Named

(* A step that leaves redis alone. *)
LEMMA KeptMove ==
    ASSUME SessionInv, TypeInv', TokenInv, Spared => SingleInv, Spared' => Spared,
           NEW h \in Requests, Alone(h), pc[h] \notin Over, redis' = redis,
           \A g \in Requests : g # h => pc'[g] = pc[g] /\ kind'[g] = kind[g] /\ arg'[g] = arg[g] /\ mem'[g] = mem[g],
           pc[h] # "new" => kind'[h] = kind[h] /\ arg'[h] = arg[h],
           pc[h] = "96" => pc'[h] \in Over,
           kind'[h] = "login" => pc'[h] # "ok" /\ (mem'[h] = mem[h] \/ mem[h] = Nil),
           ReadOf(h)',
           Spared' /\ kind[h] = "logout" /\ pc[h] \in {"170", "177"} => pc'[h] \in {"170", "177"},
           Spared' /\ pc[h] \in {"94", "95"} => pc'[h] \in {"94", "95"} \/ ~Named(h),
           pc'[h] \in Last5 => pc[h] \in Last5 \/ (pc[h] = "83" /\ redis.token[arg[h]] = Nil)
    PROVE  TokenInv' /\ (Spared' => SingleInv')
<1>1. TokenInv'
  BY TokenMove
<1>2. ASSUME Spared' PROVE SingleInv'
  <2>1. SingleOf(h)
    BY <1>2, SingleAlone
  <2>2. Alone(h)'
    BY DEF Alone
  <2>3. \A t \in Requests : Named(t)' <=> Named(t)
    BY DEF Named
  <2>4. Named(h) => pc[h] # "new"
    BY DEF SessionInv, DataInv, Settled, Unwritten, Named
  <2>5. ASSUME NEW t \in Requests, t # h, Named(t)
        PROVE  redis'.token[arg'[t]] = t \/ (kind'[h] = "logout" /\ pc'[h] \in {"170", "177"} /\ arg'[h] = t)
    BY <1>2, <2>1, <2>5 DEF SingleOf
  <2>6. Named(h) => redis'.token[arg'[h]] = h \/ pc'[h] \in {"94", "95"}
    BY <1>2, <2>1, <2>4 DEF SingleOf
  <2>7. ASSUME pc'[h] \in Last5, NEW t \in Requests, t # h, Named(t) PROVE arg'[t] # arg'[h]
    <3>1. pc[h] # "new"
      BY <2>7 DEF Last5
    <3>2. CASE pc[h] \in Last5
      BY <2>1, <2>7, <3>1, <3>2 DEF SingleOf
    <3>3. CASE pc[h] = "83" /\ redis.token[arg[h]] = Nil
      <4>1. redis.token[arg[t]] = t /\ t # Nil
        BY <2>1, <2>7, <3>3, ValuesAssumption DEF SingleOf
      <4> QED
        BY <2>7, <3>1, <3>3, <4>1
    <3> QED
      BY <2>7, <3>2, <3>3
  <2>8. SingleOf(h)'
    BY <2>3, <2>5, <2>6, <2>7 DEF SingleOf
  <2> QED
    BY <2>2, <2>8, SingleBack
<1> QED
  BY <1>1, <1>2

(* A step that changes redis. *)
LEMMA DataMove ==
    ASSUME SessionInv, Spared => SingleInv, Spared' => Spared, TokenInv',
           NEW h \in Requests, Alone(h),
           \A g \in Requests : g # h => pc'[g] = pc[g],
           SingleOf(h) => SingleOf(h)'
    PROVE  TokenInv' /\ (Spared' => SingleInv')
<1>1. ASSUME Spared' PROVE SingleInv'
  <2>1. SingleOf(h)'
    BY <1>1, SingleAlone
  <2>2. Alone(h)'
    BY DEF Alone
  <2> QED
    BY <2>1, <2>2, SingleBack
<1> QED
  BY <1>1

LEMMA CommandStays ==
    ASSUME SessionInv, SerialPool, NEW h \in Requests, Command(h)
    PROVE  /\ Alone(h) /\ pc[h] \notin {"new"} \cup Over /\ HasArg(h) /\ Stage(kind[h], pc[h])
           /\ UNCHANGED <<kind, arg, lost, aged, overlaps>> /\ (Spared' => Spared) /\ TypeInv'
           /\ \A g \in Requests : g # h => pc'[g] = pc[g] /\ mem'[g] = mem[g]
<1>1. pc[h] \notin {"new"} \cup Over
  BY PoolOfCommand
<1>2. Alone(h)
  BY <1>1, ActiveIsAlone
<1>3. HasArg(h) /\ Stage(kind[h], pc[h])
  BY <1>1, StageFacts DEF SessionInv, TypeInv
<1>4. \E n, v : Moves(h, n, v)
  BY CommandMoves DEF SessionInv
<1>5. UNCHANGED <<kind, arg, lost, aged, overlaps>> /\ \A g \in Requests : g # h => pc'[g] = pc[g] /\ mem'[g] = mem[g]
  BY <1>4 DEF Moves, input, SessionInv, TypeInv, CallType
<1>6. TypeInv'
  BY CommandTypes DEF SessionInv
<1> QED
  BY <1>1, <1>2, <1>3, <1>5, <1>6 DEF Spared

(* The commands that leave redis alone. *)
LEMMA SerialReads ==
    ASSUME SessionInv, SerialPool, TokenInv, Spared => SingleInv, NEW h \in Requests,
           \/ Multi(h) \/ GetToken(h) \/ Guard(h) \/ Auth(h) \/ LogoutReads(h) \/ LogoutDelRoute(h)
           \/ PublishGet(h) \/ PublishHash(h) \/ Publish(h)
    PROVE  TokenInv' /\ (Spared' => SingleInv')
<1>0. /\ Alone(h) /\ pc[h] \notin {"new"} \cup Over /\ HasArg(h) /\ Stage(kind[h], pc[h])
      /\ UNCHANGED <<kind, arg, lost, aged, overlaps>> /\ (Spared' => Spared) /\ TypeInv'
      /\ \A g \in Requests : g # h => pc'[g] = pc[g] /\ mem'[g] = mem[g]
  BY CommandStays DEF Command
<1>a. redis' = redis /\ conn[h] # Nil
  BY DEF Multi, GetToken, Guard, Auth, LogoutReads, LogoutDelRoute, PublishGet, PublishHash, Publish, Deletes, From, At
<1>b. pc[h] \notin Within => InMulti(h) = FALSE
  BY <1>a, NotInMulti
<1>c. pc \in [Requests -> {"new", "29", "34"} \cup Over \cup Commands] /\ mem \in [Requests -> Names \cup Requests \cup {Nil, Queued}]
  BY DEF SessionInv, TypeInv, CallType
<1>1. CASE Multi(h)
  <2>1. pc[h] \in {"48", "92"} /\ mem' = mem /\ pc'[h] = (IF pc[h] = "48" THEN "49" ELSE "93")
    BY <1>1, <1>c DEF Multi, From, At, Goto
  <2>2. ReadOf(h)'
    BY <2>1 DEF ReadOf
  <2> QED
    BY <1>0, <1>a, <2>1, <2>2, KeptMove DEF Last5, Over
<1>2. CASE GetToken(h)
  <2>1. pc[h] = "83" /\ InMulti(h) = FALSE
    BY <1>2, <1>b DEF GetToken, At, Within
  <2>2. kind[h] = "login" /\ mem[h] = Nil
    BY <1>0, <2>1 DEF Stage, TokenKinds, Over, TokenInv, ReadOf
  <2>3. /\ mem'[h] = redis.token[arg[h]]
        /\ pc'[h] = IF redis.token[arg[h]] = Nil THEN "92" ELSE "87"
    BY <1>2, <1>c, <2>1 DEF GetToken, Goto
  <2>4. ReadOf(h)'
    BY <1>0, <1>a, <2>2, <2>3 DEF ReadOf
  <2> QED
    BY <1>0, <1>a, <2>1, <2>2, <2>3, <2>4, KeptMove DEF Last5, Over
<1>3. CASE Guard(h)
  <2>1. pc[h] = "guard" /\ mem' = mem /\ kind[h] \in TokenKinds
    BY <1>0, <1>3 DEF Guard, At, Stage, TokenKinds, Over
  <2>2. pc'[h] \in {"fail", AfterGuard(h)} /\ (pc'[h] # "fail" => Named(arg[h]))
    BY <1>3, <1>c DEF Guard, ReadsHash, Goto, Named, Session
  <2>3. AfterGuard(h) \in {"auth", "148", "260", "280"}
    BY <2>1 DEF AfterGuard, TokenKinds
  <2>4. ReadOf(h)'
    BY <1>0, <1>a, <2>1, <2>2, <2>3 DEF ReadOf, Named, TokenKinds
  <2> QED
    BY <1>0, <1>a, <2>1, <2>2, <2>3, <2>4, KeptMove DEF Last5, Over, TokenKinds
<1>4. CASE Auth(h)
  <2>1. pc[h] = "auth" /\ kind[h] \in {"checkAuth", "push", "pushRoom"}
    BY <1>0, <1>4 DEF Auth, At, Stage, TokenKinds, Over
  <2>2. pc'[h] \in {"fail", AfterAuth(h)}
    BY <1>4, <1>c DEF Auth, ReadsHash, Goto
  <2>3. AfterAuth(h) \in {"ok", "199", "224"}
    BY <2>1 DEF AfterAuth
  <2>4. ReadOf(h)'
    BY <1>0, <2>1 DEF ReadOf
  <2> QED
    BY <1>0, <1>a, <2>1, <2>2, <2>3, <2>4, KeptMove DEF Last5, Over
<1>5. CASE LogoutReads(h)
  <2>1. pc[h] = "148" /\ kind[h] = "logout" /\ InMulti(h) = FALSE
    BY <1>0, <1>5, <1>b DEF LogoutReads, At, Stage, TokenKinds, Over, Within
  <2>2. arg[h] \in Requests /\ Named(arg[h])
    BY <1>0, <2>1 DEF HasArg, TokenInv, ReadOf
  <2>3. pc'[h] \in {"fail", "161"} /\ mem'[h] = arg[arg[h]]
    <3>1. mem'[h] = redis.session[arg[h]].user
      BY <1>5, <1>c, <2>1, <2>2 DEF LogoutReads, Session, Named
    <3>2. redis.session[arg[h]].user = arg[arg[h]]
      BY <2>2 DEF SessionInv, DataInv, Named
    <3> QED
      BY <1>5, <1>c, <3>1, <3>2 DEF LogoutReads, ReadsHash, Goto
  <2>4. ReadOf(h)'
    BY <1>0, <1>a, <2>1, <2>2, <2>3 DEF ReadOf, Named
  <2> QED
    BY <1>0, <1>a, <2>1, <2>3, <2>4, KeptMove DEF Last5, Over
<1>6. CASE LogoutDelRoute(h)
  <2>1. pc[h] = "170" /\ kind[h] = "logout" /\ InMulti(h) = FALSE
    BY <1>0, <1>6, <1>b DEF LogoutDelRoute, At, Stage, TokenKinds, Over, Within
  <2>2. pc'[h] = "177" /\ mem' = mem
    BY <1>6, <1>c, <2>1 DEF LogoutDelRoute, Deletes, Goto
  <2>3. ReadOf(h)'
    BY <1>0, <1>a, <2>1, <2>2 DEF ReadOf, TokenInv
  <2> QED
    BY <1>0, <1>a, <2>1, <2>2, <2>3, KeptMove DEF Last5, Over
<1>7. CASE PublishGet(h) \/ PublishHash(h) \/ Publish(h)
  <2>1. pc[h] \in {"199", "260", "224", "280", "LPUSH"} /\ kind[h] \in TokenKinds \ {"logout"} /\ mem' = mem
    BY <1>0, <1>7 DEF PublishGet, PublishHash, Publish, At, Stage, TokenKinds, Over
  <2>2. pc'[h] \in {"fail", "ok", "LPUSH"}
    BY <1>7, <1>c DEF PublishGet, PublishHash, Publish, ReadsHash, Goto
  <2>3. ReadOf(h)'
    BY <1>0, <2>1 DEF ReadOf, TokenKinds
  <2> QED
    BY <1>0, <1>a, <2>1, <2>2, <2>3, KeptMove DEF Last5, Over, TokenKinds
<1> QED
  BY <1>1, <1>2, <1>3, <1>4, <1>5, <1>6, <1>7

(* The commands that delete. *)
LEMMA SerialDeletes ==
    ASSUME SessionInv, SerialPool, TokenInv, Spared => SingleInv, NEW h \in Requests,
           DelOldSession(h) \/ LogoutDelToken(h) \/ LogoutDelSession(h)
    PROVE  TokenInv' /\ (Spared' => SingleInv')
<1>0. /\ Alone(h) /\ pc[h] \notin {"new"} \cup Over /\ HasArg(h) /\ Stage(kind[h], pc[h])
      /\ UNCHANGED <<kind, arg, lost, aged, overlaps>> /\ (Spared' => Spared) /\ TypeInv'
      /\ \A g \in Requests : g # h => pc'[g] = pc[g] /\ mem'[g] = mem[g]
  BY CommandStays DEF Command
<1>a. conn[h] # Nil /\ mem' = mem /\ pc[h] \in {"87", "161", "177"}
  BY DEF DelOldSession, LogoutDelToken, LogoutDelSession, At
<1>b. InMulti(h) = FALSE
  BY <1>a, NotInMulti DEF Within
<1>c. /\ pc \in [Requests -> {"new", "29", "34"} \cup Over \cup Commands]
      /\ redis \in Db /\ redis.session \in [Requests -> Sessions \cup {Nil}] /\ redis.token \in [Names -> Requests \cup {Nil}]
      /\ Queued \notin Requests \cup {Nil} /\ Nil \notin Requests
  BY ValuesAssumption DEF SessionInv, TypeInv, CallType, RestType, Db
<1>1. CASE DelOldSession(h)
  <2>1. pc[h] = "87" /\ kind[h] = "login" /\ arg[h] \in Names
    BY <1>0, <1>1 DEF DelOldSession, At, Stage, TokenKinds, Over, HasArg
  <2>2. mem[h] = redis.token[arg[h]] /\ mem[h] # Queued
    BY <1>c, <2>1 DEF TokenInv, ReadOf
  <2> PICK old : old = mem[h]
    OBVIOUS
  <2>3. pc'[h] = "92" /\ redis' = [redis EXCEPT !.session[old] = Nil]
    BY <1>1, <1>b, <1>c, <2>2 DEF DelOldSession, Deletes, Goto
  <2>4. /\ redis'.token = redis.token
        /\ \A t \in Requests : redis'.session[t] = IF t = old THEN Nil ELSE redis.session[t]
    BY <1>c, <2>3 DEF Db
  <2>5. ReadOf(h)'
    BY <1>0, <2>1, <2>3 DEF ReadOf
  <2>6. TokenInv'
    BY <1>0, <1>a, <2>1, <2>3, <2>4, <2>5, TokenMove DEF Over
  <2>7. ASSUME SingleOf(h) PROVE SingleOf(h)'
    <3>1. \A t \in Requests : Named(t)' <=> Named(t) /\ t # old
      BY <2>4 DEF Named
    <3>2. \A t \in Requests : t # h /\ Named(t) => redis.token[arg[t]] = t
      BY <2>1, <2>7 DEF SingleOf
    <3>3. Named(h) => redis.token[arg[h]] = h
      BY <2>1, <2>7 DEF SingleOf
    <3> QED
      BY <1>0, <2>1, <2>2, <2>3, <2>4, <3>1, <3>2, <3>3 DEF SingleOf
  <2> QED
    BY <1>0, <2>6, <2>7, DataMove
<1>2. CASE LogoutDelToken(h)
  <2>1. pc[h] = "161" /\ kind[h] = "logout" /\ arg[h] \in Requests
    BY <1>0, <1>2 DEF LogoutDelToken, At, Stage, TokenKinds, Over, HasArg
  <2>2. mem[h] = arg[arg[h]] /\ Named(arg[h])
    BY <2>1 DEF TokenInv, ReadOf
  <2> PICK user : user = mem[h]
    OBVIOUS
  <2>3. user \in Names
    <3>1. Read(kind[h], pc[h], mem[h])
      BY <1>0, StageFacts DEF SessionInv, TypeInv
    <3> QED
      BY <2>1, <3>1 DEF Read
  <2>4. pc'[h] = "170" /\ redis' = [redis EXCEPT !.token[user] = Nil]
    BY <1>2, <1>b, <1>c DEF LogoutDelToken, Deletes, Goto
  <2>5. /\ redis'.session = redis.session
        /\ \A u \in Names : redis'.token[u] = IF u = user THEN Nil ELSE redis.token[u]
    BY <1>c, <2>4 DEF Db
  <2>6. ReadOf(h)'
    BY <1>0, <1>c, <2>1, <2>2, <2>3, <2>4, <2>5 DEF ReadOf
  <2>7. TokenInv'
    BY <1>0, <1>a, <2>1, <2>4, <2>5, <2>6, TokenMove DEF Over
  <2>8. ASSUME SingleOf(h) PROVE SingleOf(h)'
    <3>1. \A t \in Requests : Named(t)' <=> Named(t)
      BY <2>5 DEF Named
    <3>2. \A t \in Requests : t # h /\ Named(t) => redis.token[arg[t]] = t /\ arg[t] \in Names
      <4> TAKE t \in Requests
      <4>1. Named(t) => arg[t] = redis.session[t].user /\ redis.session[t] \in Sessions
        BY <1>c DEF SessionInv, DataInv, Named
      <4> QED
        BY <2>1, <2>8, <4>1 DEF SingleOf, Sessions
    <3>3. arg[h] # h
      BY <1>0, <2>1 DEF HasArg
    <3>4. Named(h) => FALSE
      <4>1. Named(h) => redis.token[arg[h]] = h
        BY <2>1, <2>8 DEF SingleOf
      <4>2. Named(h) => arg[h] \in Names
        BY <1>c DEF SessionInv, DataInv, Named, Sessions
      <4> QED
        BY <1>c, <2>1, <4>1, <4>2 DEF TokenInv, TokenOf
    <3> QED
      BY <1>0, <2>1, <2>2, <2>4, <2>5, <3>1, <3>2, <3>3, <3>4 DEF SingleOf, Last5
  <2> QED
    BY <1>0, <2>7, <2>8, DataMove
<1>3. CASE LogoutDelSession(h)
  <2>1. pc[h] = "177" /\ kind[h] = "logout" /\ arg[h] \in Requests
    BY <1>0, <1>3 DEF LogoutDelSession, At, Stage, TokenKinds, Over, HasArg
  <2>2. redis.token[arg[arg[h]]] # arg[h]
    BY <2>1 DEF TokenInv, ReadOf
  <2> PICK old : old = arg[h]
    OBVIOUS
  <2>3. pc'[h] = "ok" /\ redis' = [redis EXCEPT !.session[old] = Nil]
    BY <1>3, <1>b, <1>c DEF LogoutDelSession, Deletes, Goto
  <2>4. /\ redis'.token = redis.token
        /\ \A t \in Requests : redis'.session[t] = IF t = old THEN Nil ELSE redis.session[t]
    BY <1>c, <2>3 DEF Db
  <2>5. ReadOf(h)'
    BY <1>0, <2>1, <2>3 DEF ReadOf
  <2>6. TokenInv'
    BY <1>0, <1>a, <2>1, <2>2, <2>3, <2>4, <2>5, TokenMove DEF Over
  <2>7. ASSUME SingleOf(h) PROVE SingleOf(h)'
    <3>1. \A t \in Requests : Named(t)' <=> Named(t) /\ t # old
      BY <2>4 DEF Named
    <3> QED
      BY <1>0, <2>1, <2>3, <2>4, <2>7, <3>1 DEF SingleOf, Last5
  <2> QED
    BY <1>0, <2>6, <2>7, DataMove
<1> QED
  BY <1>1, <1>2, <1>3

(* EXEC of the transaction of register, and of that of login. *)
LEMMA ReplayOfSent ==
    ASSUME NEW db \in Db, NEW h \in Requests, NEW d \in Sessions, NEW u \in Names, NEW cmds,
           \/ cmds = <<Cmd("HMSET", h, d), Cmd("EXPIRE", h, Nil)>>
           \/ cmds = <<Cmd("HMSET", h, d), Cmd("EXPIRE", h, Nil), Cmd("SET", u, h)>>
    PROVE  /\ \A t \in Requests : Replay(db, cmds).session[t] = IF t = h THEN [d EXCEPT !.ttl = TRUE] ELSE db.session[t]
           /\ \A v \in Names : Replay(db, cmds).token[v] = IF v = u /\ Len(cmds) = 3 THEN h ELSE db.token[v]
<1> PICK n : n = Len(cmds)
  OBVIOUS
<1>1. /\ n \in {2, 3} /\ DOMAIN cmds = 1 .. n
      /\ cmds[1].op = "HMSET" /\ cmds[1].key = h /\ cmds[1].val = d
      /\ cmds[2].op = "EXPIRE" /\ cmds[2].key = h
      /\ n = 3 => cmds[3].op = "SET" /\ cmds[3].key = u /\ cmds[3].val = h
  BY DEF Cmd
<1>2. \A t : LastOf(cmds, "HMSET", t) = IF t = h THEN {1} ELSE {}
  BY <1>1 DEF LastOf
<1>3. \A t : LastOf(cmds, "EXPIRE", t) = IF t = h THEN {2} ELSE {}
  BY <1>1 DEF LastOf
<1>4. \A v : LastOf(cmds, "SET", v) = IF v = u /\ n = 3 THEN {3} ELSE {}
  BY <1>1 DEF LastOf
<1>5. \A S, i : S = {i} => (CHOOSE j \in S : TRUE) = i
  OBVIOUS
<1>6. ASSUME NEW op, NEW key, NEW was
      PROVE  /\ LastOf(cmds, op, key) = {} => ValueOf(cmds, op, key, was) = was
             /\ \A i : LastOf(cmds, op, key) = {i} => ValueOf(cmds, op, key, was) = cmds[i].val
  <2>1. \A i : LastOf(cmds, op, key) = {i} => LastOf(cmds, op, key) # {} /\ (CHOOSE j \in LastOf(cmds, op, key) : TRUE) = i
    BY <1>5
  <2> QED
    BY <2>1 DEF ValueOf
<1>7. \A v, was : ValueOf(cmds, "SET", v, was) = IF v = u /\ n = 3 THEN h ELSE was
  BY <1>1, <1>4, <1>6
<1>8. \A v \in Names : Replay(db, cmds).token[v] = IF v = u /\ n = 3 THEN h ELSE db.token[v]
  BY <1>7 DEF Replay
<1>9. ASSUME NEW t \in Requests
      PROVE  Replay(db, cmds).session[t] = IF t = h THEN [d EXCEPT !.ttl = TRUE] ELSE db.session[t]
  <2> DEFINE Expires == \E i \in LastOf(cmds, "EXPIRE", t) : \A j \in LastOf(cmds, "HMSET", t) : j < i
             Kept    == ValueOf(cmds, "HMSET", t, db.session[t])
  <2>1. Replay(db, cmds).session[t] = IF Kept # Nil /\ Expires THEN [Kept EXCEPT !.ttl = TRUE] ELSE Kept
    BY DEF Replay
  <2>2. CASE t = h
    <3>1. LastOf(cmds, "EXPIRE", t) = {2} /\ LastOf(cmds, "HMSET", t) = {1}
      BY <1>2, <1>3, <2>2
    <3>2. Expires
      <4>1. \A j \in LastOf(cmds, "HMSET", t) : j < 2
        BY <3>1
      <4> QED
        BY <3>1, <4>1
    <3>3. Kept = d /\ d # Nil
      BY <1>1, <1>6, <3>1, NilAssumption
    <3> HIDE DEF Expires, Kept
    <3> QED
      BY <2>1, <2>2, <3>2, <3>3
  <2>3. CASE t # h
    <3>1. LastOf(cmds, "EXPIRE", t) = {} /\ LastOf(cmds, "HMSET", t) = {}
      BY <1>2, <1>3, <2>3
    <3>2. ~Expires
      BY <3>1
    <3>3. Kept = db.session[t]
      BY <1>6, <3>1
    <3> HIDE DEF Expires, Kept
    <3> QED
      BY <2>1, <2>3, <3>2, <3>3
  <2> QED
    BY <2>2, <2>3
<1> QED
  BY <1>8, <1>9

(* Inside its transaction a request that logs in has no session yet. *)
LEMMA QueuedIsAbsent ==
    ASSUME SessionInv, NEW h \in Requests, pc[h] \in {"50", "51", "94", "95", "96"},
           NEW c, c.queued = Sent(h), Holds(c, h) => Pending(h), c # Nil
    PROVE  redis.session[h] = Nil
<1>1. Sent(h)[1] = Cmd("HMSET", h, Data(arg[h], kind[h] = "login")) /\ 1 \in DOMAIN Sent(h)
  BY DEF Sent
<1>2. Holds(c, h)
  BY <1>1 DEF Holds, Cmd
<1> QED
  BY <1>2 DEF SessionInv, DataInv, Settled

LEMMA DataIsSession ==
    ASSUME NEW u \in Names, NEW b \in BOOLEAN
    PROVE  Data(u, b) \in Sessions /\ [Data(u, b) EXCEPT !.ttl = TRUE] = [user |-> u, named |-> b, ttl |-> TRUE]
<1> PICK d : d = [user |-> u, named |-> b, ttl |-> FALSE]
  OBVIOUS
<1> PICK e : e = [d EXCEPT !.ttl = TRUE]
  OBVIOUS
<1> PICK f : f = [user |-> u, named |-> b, ttl |-> TRUE]
  OBVIOUS
<1>1. d \in Sessions /\ f \in Sessions
  BY SMT DEF Sessions
<1>2. d.user = u /\ d.named = b /\ f.user = u /\ f.named = b /\ f.ttl = TRUE
  BY SMT
<1>3. e \in Sessions
  BY <1>1 DEF Sessions
<1>4. e.user = d.user /\ e.named = d.named /\ e.ttl = TRUE
  BY <1>1, SMT DEF Sessions
<1>5. e.user = f.user /\ e.named = f.named /\ e.ttl = f.ttl
  BY <1>2, <1>4, Zenon
<1>6. \A r, q \in Sessions : r.user = q.user /\ r.named = q.named /\ r.ttl = q.ttl => r = q
  BY SMT DEF Sessions
<1>7. e = f
  BY <1>1, <1>3, <1>5, <1>6, Zenon
<1> QED
  BY <1>1, <1>7, Zenon DEF Data

LEMMA SerialExec ==
    ASSUME SessionInv, SerialPool, TokenInv, Spared => SingleInv, NEW h \in Requests, Exec(h)
    PROVE  TokenInv' /\ (Spared' => SingleInv')
<1>0. /\ Alone(h) /\ pc[h] \notin {"new"} \cup Over /\ HasArg(h) /\ Stage(kind[h], pc[h])
      /\ UNCHANGED <<kind, arg, lost, aged, overlaps>> /\ (Spared' => Spared) /\ TypeInv'
      /\ \A g \in Requests : g # h => pc'[g] = pc[g] /\ mem'[g] = mem[g]
  BY CommandStays DEF Command
<1>1. /\ pc[h] \in {"51", "96"} /\ mem' = mem /\ conn[h] # Nil
      /\ pc'[h] = IF InMulti(h) THEN "ok" ELSE "fail"
      /\ redis' = IF InMulti(h) THEN Replay(redis, conn[h].queued) ELSE redis
  BY DEF Exec, At, Goto, input, SessionInv, TypeInv, CallType
<1>2. /\ arg[h] \in Names /\ (pc[h] = "51" => kind[h] = "register") /\ (pc[h] = "96" => kind[h] = "login")
  BY <1>0, <1>1 DEF Stage, HasArg, TokenKinds, Over
<1>3. ReadOf(h)'
  BY <1>1 DEF ReadOf
<1>4. CASE ~InMulti(h)
  BY <1>0, <1>1, <1>3, <1>4, KeptMove DEF Last5, Over
<1>5. CASE InMulti(h)
  <2> PICK named \in BOOLEAN : named = (kind[h] = "login")
    OBVIOUS
  <2> DEFINE now == [user |-> arg[h], named |-> named, ttl |-> TRUE]
  <2> PICK d : d = Data(arg[h], named)
    OBVIOUS
  <2>1. conn[h].queued = Sent(h)
    BY <1>1, <1>5 DEF SerialPool, Open, InMulti
  <2>2. d \in Sessions /\ [d EXCEPT !.ttl = TRUE] = now
    BY <1>2, DataIsSession
  <2>3. redis \in Db /\ redis.token \in [Names -> Requests \cup {Nil}]
    BY DEF SessionInv, TypeInv, RestType, Db
  <2>4. /\ pc[h] = "51" => Sent(h) = <<Cmd("HMSET", h, d), Cmd("EXPIRE", h, Nil)>> /\ Len(Sent(h)) = 2
        /\ pc[h] = "96" => Sent(h) = <<Cmd("HMSET", h, d), Cmd("EXPIRE", h, Nil), Cmd("SET", arg[h], h)>> /\ Len(Sent(h)) = 3
    BY DEF Sent
  <2>a. now.user = arg[h] /\ now.named = named /\ now \in Sessions /\ now # Nil
    <3>1. now \in Sessions
      BY <1>2 DEF Sessions
    <3> QED
      BY <3>1, NilAssumption
  <2>b. named => now = Full(h)
    BY DEF Full
  <2> HIDE DEF now
  <2>5. redis' = Replay(redis, Sent(h)) /\ pc'[h] = "ok"
    BY <1>1, <1>5, <2>1
  <2>6. \A t \in Requests : redis'.session[t] = IF t = h THEN now ELSE redis.session[t]
    BY <1>1, <1>2, <2>2, <2>3, <2>4, <2>5, ReplayOfSent
  <2>7. \A v \in Names : redis'.token[v] = IF v = arg[h] /\ pc[h] = "96" THEN h ELSE redis.token[v]
    BY <1>1, <1>2, <2>2, <2>3, <2>4, <2>5, ReplayOfSent
  <2>8. kind'[h] = kind[h] /\ arg'[h] = arg[h] /\ Full(h)' = Full(h)
    BY <1>0 DEF Full
  <2>9. TokenInv'
    <3>1. kind'[h] = "login" /\ pc'[h] = "ok" => redis'.session[h] = Full(h)'
      BY <2>6, <2>8, <2>b
    <3>2. \A v \in Names : \/ redis'.token[v] \in {redis.token[v], Nil}
                           \/ /\ redis'.token[v] = h /\ v = arg'[h] /\ kind'[h] = "login"
                              /\ pc'[h] \in {"96"} \cup Over
      BY <1>2, <2>5, <2>7, <2>8 DEF Over
    <3>3. pc[h] = "96" => pc'[h] \in Over
      BY <2>5 DEF Over
    <3> QED
      BY <1>0, <1>1, <1>3, <2>6, <3>1, <3>2, <3>3, TokenMove DEF Over
  <2>10. ASSUME SingleOf(h) PROVE SingleOf(h)'
    <3>1. \A t \in Requests : t # h => (Named(t)' <=> Named(t))
      BY <2>6 DEF Named
    <3>2. Named(h)' <=> named
      BY <2>6, <2>a DEF Named
    <3>3. ASSUME NEW t \in Requests, t # h, Named(t) PROVE redis'.token[arg[t]] = t
      <4>1. redis.token[arg[t]] = t /\ (pc[h] = "96" => arg[t] # arg[h])
        BY <1>1, <1>2, <2>10, <3>3 DEF SingleOf, Last5
      <4>2. arg[t] \in Names
        BY <2>3, <3>3 DEF SessionInv, DataInv, Named, Db, Sessions
      <4> QED
        BY <2>7, <4>1, <4>2
    <3>4. named => redis'.token[arg[h]] = h
      BY <1>1, <1>2, <2>7
    <3> QED
      BY <1>0, <2>5, <2>8, <3>1, <3>2, <3>3, <3>4 DEF SingleOf, Last5
  <2> QED
    BY <1>0, <2>9, <2>10, DataMove
<1> QED
  BY <1>4, <1>5

(* The writes of a transaction: queued in the MULTI, or done at once outside it. *)
LEMMA SerialWrites ==
    ASSUME SessionInv, SerialPool, TokenInv, Spared => SingleInv, NEW h \in Requests,
           WriteSession(h) \/ Expire(h) \/ SetToken(h)
    PROVE  TokenInv' /\ (Spared' => SingleInv')
<1>0. /\ Alone(h) /\ pc[h] \notin {"new"} \cup Over /\ HasArg(h) /\ Stage(kind[h], pc[h])
      /\ UNCHANGED <<kind, arg, lost, aged, overlaps>> /\ (Spared' => Spared) /\ TypeInv'
      /\ \A g \in Requests : g # h => pc'[g] = pc[g] /\ mem'[g] = mem[g]
  BY CommandStays DEF Command
<1>1. /\ mem' = mem /\ conn[h] # Nil
      /\ WriteSession(h) => (pc[h] = "49" /\ pc'[h] = "50") \/ (pc[h] = "93" /\ pc'[h] = "94")
      /\ Expire(h) => (pc[h] = "50" /\ pc'[h] = "51") \/ (pc[h] = "94" /\ pc'[h] = "95")
      /\ SetToken(h) => pc[h] = "95" /\ pc'[h] = "96"
  <2>1. \A n : Goto(h, n) => pc'[h] = n
    BY DEF Goto, SessionInv, TypeInv, CallType
  <2>2. \A l, n : From(h, l, n) => pc[h] = l /\ pc'[h] = n /\ conn[h] # Nil
    BY <2>1 DEF From, At
  <2> QED
    BY <2>2 DEF WriteSession, Expire, SetToken
<1>2. /\ arg[h] \in Names
      /\ kind[h] = (IF pc[h] \in {"49", "50"} THEN "register" ELSE "login")
  BY <1>0, <1>1 DEF Stage, HasArg, TokenKinds, Over
<1>3. ReadOf(h)'
  BY <1>0, <1>1, <1>2 DEF ReadOf
<1>4. kind'[h] = kind[h] /\ arg'[h] = arg[h]
  BY <1>0
<1>5. CASE InMulti(h)
  <2>1. redis' = redis
    BY <1>5 DEF WriteSession, Expire, SetToken, Writes
  <2>2. pc[h] = "95" => ~Named(h)
    <3>1. conn[h].queued = Sent(h)
      BY <1>1, <1>5 DEF SerialPool, Open, InMulti
    <3>2. Holds(conn[h], h) => Pending(h)
      BY DEF Pending
    <3> QED
      BY <1>1, <3>1, <3>2, QueuedIsAbsent DEF Named
  <2> QED
    BY <1>0, <1>1, <1>2, <1>3, <2>1, <2>2, KeptMove DEF Last5, Over
<1>6. redis \in Db /\ redis.session \in [Requests -> Sessions \cup {Nil}] /\ redis.token \in [Names -> Requests \cup {Nil}]
  BY DEF SessionInv, TypeInv, RestType, Db
<1>7. CASE ~InMulti(h) /\ WriteSession(h)
  <2> PICK named \in BOOLEAN : named = (kind[h] = "login")
    OBVIOUS
  <2> PICK d : d = Data(arg[h], named)
    OBVIOUS
  <2>1. d \in Sessions /\ d # Nil /\ d.named = named
    BY <1>2, DataIsSession, NilAssumption DEF Data
  <2>2. redis' = [redis EXCEPT !.session[h] = d]
    BY <1>7 DEF WriteSession, Writes, Apply, Cmd
  <2>3. /\ redis'.token = redis.token
        /\ \A t \in Requests : redis'.session[t] = IF t = h THEN d ELSE redis.session[t]
    BY <1>6, <2>2 DEF Db
  <2>4. TokenInv'
    BY <1>0, <1>1, <1>3, <1>7, <2>3, TokenMove DEF Over
  <2>5. ASSUME SingleOf(h) PROVE SingleOf(h)'
    <3>1. \A t \in Requests : t # h => (Named(t)' <=> Named(t))
      BY <2>3 DEF Named
    <3>2. Named(h)' <=> named
      BY <2>1, <2>3 DEF Named
    <3>3. named => pc'[h] = "94" /\ pc[h] = "93"
      BY <1>1, <1>2, <1>7
    <3>4. ASSUME NEW t \in Requests, t # h, Named(t) PROVE redis.token[arg[t]] = t
      BY <1>2, <2>5, <3>4 DEF SingleOf
    <3> QED
      BY <1>0, <1>1, <1>7, <2>3, <2>5, <3>1, <3>2, <3>3, <3>4 DEF SingleOf, Last5
  <2> QED
    BY <1>0, <2>4, <2>5, DataMove
<1>8. CASE ~InMulti(h) /\ Expire(h)
  <2> PICK was : was = redis.session[h]
    OBVIOUS
  <2> PICK d : d = IF was = Nil THEN Nil ELSE [was EXCEPT !.ttl = TRUE]
    OBVIOUS
  <2>1. was \in Sessions \cup {Nil}
    BY <1>6
  <2>2. was # Nil => d \in Sessions /\ d # Nil /\ d.named = was.named
    <3>1. was # Nil => d \in Sessions /\ d.named = was.named
      BY <2>1 DEF Sessions
    <3> QED
      BY <3>1, NilAssumption
  <2>3. /\ redis'.token = redis.token
        /\ \A t \in Requests : redis'.session[t] = IF t = h THEN d ELSE redis.session[t]
    <3>1. redis' = IF was = Nil THEN redis ELSE [redis EXCEPT !.session[h].ttl = TRUE]
      BY <1>8 DEF Expire, Writes, Apply, Cmd
    <3>2. was # Nil => redis' = [redis EXCEPT !.session = [redis.session EXCEPT ![h] = d]]
      BY <1>6, <3>1 DEF Db
    <3> QED
      BY <1>6, <3>1, <3>2 DEF Db
  <2>4. TokenInv'
    BY <1>0, <1>1, <1>3, <1>8, <2>3, TokenMove DEF Over
  <2>5. ASSUME SingleOf(h) PROVE SingleOf(h)'
    <3>1. \A t \in Requests : Named(t)' <=> Named(t)
      BY <2>2, <2>3 DEF Named
    <3>2. ASSUME NEW t \in Requests, t # h, Named(t) PROVE redis.token[arg[t]] = t
      BY <1>2, <2>5, <3>2 DEF SingleOf
    <3> QED
      BY <1>0, <1>1, <1>8, <2>3, <2>5, <3>1, <3>2 DEF SingleOf, Last5
  <2> QED
    BY <1>0, <2>4, <2>5, DataMove
<1>9. CASE ~InMulti(h) /\ SetToken(h)
  <2> PICK user \in Names : user = arg[h]
    BY <1>2
  <2>1. redis' = [redis EXCEPT !.token[user] = h]
    BY <1>9 DEF SetToken, Writes, Apply, Cmd
  <2>2. /\ redis'.session = redis.session
        /\ \A u \in Names : redis'.token[u] = IF u = user THEN h ELSE redis.token[u]
    BY <1>6, <2>1 DEF Db
  <2>3. TokenInv'
    BY <1>0, <1>1, <1>2, <1>3, <1>4, <1>9, <2>2, TokenMove DEF Over
  <2>4. ASSUME SingleOf(h) PROVE SingleOf(h)'
    <3>1. \A t \in Requests : Named(t)' <=> Named(t)
      BY <2>2 DEF Named
    <3>2. ASSUME NEW t \in Requests, t # h, Named(t) PROVE redis'.token[arg[t]] = t /\ arg[t] # arg[h]
      <4>1. redis.token[arg[t]] = t /\ arg[t] # arg[h]
        BY <1>1, <1>2, <1>9, <2>4, <3>2 DEF SingleOf, Last5
      <4>2. arg[t] \in Names
        BY <1>6, <3>2 DEF SessionInv, DataInv, Named, Sessions
      <4> QED
        BY <2>2, <4>1, <4>2
    <3>3. redis'.token[arg[h]] = h
      BY <2>2
    <3> QED
      BY <1>0, <1>1, <1>9, <3>1, <3>2, <3>3 DEF SingleOf, Last5
  <2> QED
    BY <1>0, <2>3, <2>4, DataMove
<1> QED
  BY <1>5, <1>7, <1>8, <1>9

LEMMA SerialCommand ==
    ASSUME SessionInv, SerialPool, TokenInv, Spared => SingleInv, NEW h \in Requests, Command(h)
    PROVE  TokenInv' /\ (Spared' => SingleInv') /\ SerialPool'
BY SerialReads, SerialDeletes, SerialExec, SerialWrites, PoolOfCommand DEF Command

(* The steps that are no commands.  A request begins when no other is active. *)
LEMMA SerialBegin ==
    ASSUME SessionInv, SerialPool, TokenInv, Spared => SingleInv, LostInv, TypeInv', Quiet,
           NEW h \in Requests, NEW k, NEW a, NEW first, Begin(h, k, a, first), first \in {"29", "83", "guard", "fail"}
    PROVE  TokenInv' /\ (Spared' => SingleInv') /\ SerialPool'
<1>1. /\ pc[h] = "new" /\ pc' = [pc EXCEPT ![h] = first] /\ kind' = [kind EXCEPT ![h] = k] /\ arg' = [arg EXCEPT ![h] = a]
      /\ UNCHANGED <<redis, idle, conn, mem, lost, aged>>
  BY DEF Begin, Goto, pool
<1>2. \A g \in Requests : /\ g # h => pc'[g] = pc[g] /\ kind'[g] = kind[g] /\ arg'[g] = arg[g]
                          /\ g = h => pc'[g] = first /\ kind'[g] = k
  BY <1>1 DEF SessionInv, TypeInv, CallType
<1>3. \A g \in Requests : pc[g] \in {"new"} \cup Over
  BY DEF Quiet, Active
<1>4. mem[h] = Nil
  BY <1>1 DEF SessionInv, TypeInv, CallType, Stage, Over
<1>5. Spared' => Spared
  <2>1. \A g \in lost : g \in Requests /\ g # h
    BY <1>1 DEF LostInv, SessionInv, TypeInv, RestType
  <2> QED
    BY <1>1, <1>2, <2>1 DEF Spared
<1>6. ReadOf(h)'
  BY <1>1, <1>2, <1>4 DEF ReadOf
<1>7. TokenInv' /\ (Spared' => SingleInv')
  <2>1. Alone(h)
    BY <1>3 DEF Alone
  <2>2. pc'[h] # "ok" /\ pc'[h] \notin Last5 /\ pc[h] \notin Over
    BY <1>1, <1>2 DEF Last5, Over
  <2> QED
    BY <1>1, <1>2, <1>5, <1>6, <2>1, <2>2, KeptMove
<1>8. SerialPool'
  <2>1. \A g \in Requests : pc[g] \notin Within /\ pc'[g] \notin Within
    BY <1>2, <1>3 DEF Within, Over
  <2>2. \A f, g \in Active' : f = g
    BY <1>2, <1>3 DEF Active
  <2> QED
    BY <1>1, <2>1, <2>2, PoolOfRest
<1> QED
  BY <1>7, <1>8

LEMMA SerialAdds ==
    ASSUME SessionInv, SerialPool, TokenInv, Spared => SingleInv, TypeInv',
           NEW h \in Requests, AddLooksAgain(h) \/ AddCreates(h) \/ Lose(h)
    PROVE  TokenInv' /\ (Spared' => SingleInv') /\ SerialPool'
<1>1. /\ UNCHANGED <<redis, idle, conn, kind, arg, mem, aged>> /\ lost \subseteq lost' /\ (Lose(h) => h \in lost')
      /\ \A g \in Requests : g # h => pc'[g] = pc[g]
  BY DEF AddLooksAgain, AddCreates, Lose, Goto, pool, input, SessionInv, TypeInv, CallType
<1>2. /\ pc[h] \in {"29", "34", "guard", "auth", "148", "199", "224", "260", "280"}
      /\ pc'[h] \in {"34", "48", "fail", "ok", "199", "224"}
  <2>1. CASE AddLooksAgain(h) \/ AddCreates(h)
    BY <2>1 DEF AddLooksAgain, AddCreates, Goto, SessionInv, TypeInv, CallType
  <2>2. CASE Lose(h)
    <3>1. pc[h] \in {"guard", "auth", "148", "199", "224", "260", "280"} /\ pc'[h] = AfterLoss(h)
      BY <2>2 DEF Lose, Goto, SessionInv, TypeInv, CallType
    <3>2. AfterLoss(h) \in {"ok", "fail", "199", "224"}
      BY <3>1, AfterLossFacts DEF SessionInv, TypeInv, Over
    <3> QED
      BY <3>1, <3>2
  <2> QED
    BY <2>1, <2>2
<1>3. pc[h] \notin {"new"} \cup Over /\ kind[h] # "login"
  BY <1>2 DEF SessionInv, TypeInv, CallType, Stage, Over, TokenKinds
<1>4. Alone(h)
  BY <1>3, ActiveIsAlone
<1>5. Spared' => Spared
  BY <1>1 DEF Spared
<1>6. ReadOf(h)'
  BY <1>1, <1>2, <1>3 DEF ReadOf
<1>7. TokenInv' /\ (Spared' => SingleInv')
  <2>1. pc'[h] \notin Last5 /\ pc[h] \notin {"94", "95", "96", "170", "177"}
    BY <1>2 DEF Last5
  <2> QED
    BY <1>1, <1>3, <1>4, <1>5, <1>6, <2>1, KeptMove
<1>8. SerialPool'
  <2>1. \A g \in Requests : pc[g] \notin Within /\ pc'[g] \notin Within
    BY <1>1, <1>2, <1>4 DEF Within, Over, Alone
  <2>2. \A f, g \in Active' : f = g
    BY <1>1, <1>4 DEF Active, Alone
  <2> QED
    BY <1>1, <2>1, <2>2, PoolOfRest
<1> QED
  BY <1>7, <1>8

(* The steps of the pool alone. *)
LEMMA SerialStill ==
    ASSUME TokenInv, Spared => SingleInv, Spared' => Spared, UNCHANGED <<redis, pc, kind, arg, mem>>
    PROVE  TokenInv' /\ (Spared' => SingleInv')
<1>1. TokenInv'
  <2>1. \A u \in Names : TokenOf(u)' <=> TokenOf(u)
    BY DEF TokenOf
  <2>2. \A h \in Requests : (ReadOf(h)' <=> ReadOf(h)) /\ (OpensOf(h)' <=> OpensOf(h))
    BY DEF ReadOf, Named, OpensOf, Full
  <2> QED
    BY <2>1, <2>2 DEF TokenInv
<1>2. SingleInv => SingleInv'
  BY DEF SingleInv, Named
<1> QED
  BY <1>1, <1>2

(* Logic dies: a login that is cut short between lines 93 and 95 had queued its session, unless
   a connection was dropped. *)
LEMMA SerialDeath ==
    ASSUME SessionInv, SerialPool, TokenInv, Spared => SingleInv, TypeInv', LogicDies
    PROVE  TokenInv' /\ (Spared' => SingleInv') /\ SerialPool'
<1>1. /\ pc' = [h \in Requests |-> IF h \in Active THEN AfterLoss(h) ELSE pc[h]] /\ lost' = lost \cup Active
      /\ UNCHANGED <<redis, kind, arg, mem, aged>>
  BY DEF LogicDies, input
<1> PICK h \in Requests : h \in Active /\ pc[h] \notin {"new"} \cup Over
  BY DEF LogicDies, Active
<1>2. Alone(h) /\ \A g \in Requests : g # h => conn[g] = Nil /\ pc'[g] = pc[g]
  <2>1. Alone(h) /\ \A g \in Requests : g # h => conn[g] = Nil
    BY ActiveIsAlone
  <2> QED
    BY <1>1, <2>1 DEF SerialPool
<1>3. pc'[h] \in {"ok", "fail", "199", "224"} /\ (kind[h] = "login" => pc'[h] = "fail") /\ HasArg(h) /\ Stage(kind[h], pc[h])
  <2>1. pc'[h] = AfterLoss(h) /\ AfterLoss(h) \in {"ok", "fail", "199", "224"} /\ Stage(kind[h], pc[h]) /\ HasArg(h)
    BY <1>1, AfterLossFacts, StageFacts DEF SessionInv, TypeInv
  <2>2. kind[h] = "login" => pc[h] # "auth"
    BY <2>1 DEF Stage, TokenKinds, Over
  <2> QED
    BY <2>1, <2>2 DEF AfterLoss
<1>4. Spared' => Spared /\ kind[h] # "logout" /\ (kind[h] = "login" => aged = 0)
  BY <1>1 DEF Spared
<1>5. ASSUME Spared', pc[h] \in {"94", "95"} PROVE ~Named(h)
  <2>1. kind[h] = "login" /\ aged = 0 /\ pc[h] \in Within
    BY <1>3, <1>4, <1>5 DEF Stage, TokenKinds, Over, Within
  <2>2. CASE Open(conn[h])
    <3>1. conn[h].queued = Sent(h) /\ conn[h] # Nil
      BY <2>2 DEF SerialPool, Open
    <3>2. Holds(conn[h], h) => Pending(h)
      BY DEF Pending
    <3> QED
      BY <1>5, <3>1, <3>2, QueuedIsAbsent DEF Named
  <2>3. CASE \E k \in DOMAIN idle : Open(idle[k])
    <3> PICK k \in DOMAIN idle : Open(idle[k])
      BY <2>3
    <3>1. idle[k].queued = Sent(h) /\ idle[k] # Nil
      BY <1>2 DEF SerialPool, Open, Alone, Within, Over
    <3>2. Holds(idle[k], h) => Pending(h)
      BY DEF Pending
    <3> QED
      BY <1>5, <3>1, <3>2, QueuedIsAbsent DEF Named
  <2> QED
    BY <2>1, <2>2, <2>3 DEF SerialPool
<1>6. ReadOf(h)'
  BY <1>1, <1>3 DEF ReadOf
<1>7. /\ pc'[h] \notin Last5 /\ (pc[h] = "96" => pc'[h] \in Over)
      /\ kind'[h] = "login" => pc'[h] # "ok"
  <2>1. pc[h] = "96" => kind[h] = "login"
    BY <1>3 DEF Stage, TokenKinds, Over
  <2> QED
    BY <1>1, <1>3, <2>1 DEF Last5, Over
<1>8. TokenInv' /\ (Spared' => SingleInv')
  BY <1>1, <1>2, <1>4, <1>5, <1>6, <1>7, KeptMove
<1> QED
  BY <1>8, PoolOfDeath

LEMMA LostStep ==
    ASSUME SessionInv, LostInv, [Next]_vars
    PROVE  LostInv' /\ (Serial' => Serial)
<1>0. overlaps \in Nat /\ pc \in [Requests -> {"new", "29", "34"} \cup Over \cup Commands] /\ lost \subseteq Requests
  BY DEF SessionInv, TypeInv, CallType, RestType
<1>1. ASSUME NEW h \in Requests, NEW k, NEW a, NEW first, Begin(h, k, a, first), first \in {"29", "83", "guard", "fail"}
      PROVE  LostInv' /\ (Serial' => Serial)
  <2>1. pc' = [pc EXCEPT ![h] = first] /\ lost' = lost /\ overlaps' = overlaps + (IF Quiet THEN 0 ELSE 1)
    BY <1>1 DEF Begin, Goto
  <2>2. LostInv'
    BY <1>0, <1>1, <2>1 DEF LostInv
  <2> QED
    BY <1>0, <2>1, <2>2 DEF Serial
<1>2. ASSUME NEW h \in Requests, NEW u \in Names, Register(h, u) \/ Login(h, u) PROVE LostInv' /\ (Serial' => Serial)
  <2>1. \E k : \E first \in {"29", "83", "fail"} : Begin(h, k, u, first)
    BY <1>2 DEF Register, Login
  <2> QED
    BY <1>1, <2>1
<1>3. ASSUME NEW h \in Requests, NEW t \in Issued, WithToken(h, t) PROVE LostInv' /\ (Serial' => Serial)
  <2>1. \E k : Begin(h, k, t, "guard")
    BY <1>3 DEF WithToken
  <2> QED
    BY <1>1, <2>1
<1>4. ASSUME NEW h \in Requests, AddLooksAgain(h) \/ AddCreates(h) PROVE LostInv' /\ (Serial' => Serial)
  <2>1. overlaps' = overlaps /\ lost' = lost /\ \E n \in {"34", "48", "fail"} : pc' = [pc EXCEPT ![h] = n]
    BY <1>4 DEF AddLooksAgain, AddCreates, Goto
  <2> QED
    BY <1>0, <2>1 DEF LostInv, Serial
<1>5. ASSUME NEW h \in Requests, Command(h) PROVE LostInv' /\ (Serial' => Serial)
  <2> PICK n, v : Moves(h, n, v)
    BY <1>5, CommandMoves DEF SessionInv
  <2>1. n # "new" /\ pc' = [pc EXCEPT ![h] = n] /\ lost' = lost /\ overlaps' = overlaps
    BY DEF Moves, Over, Commands
  <2> QED
    BY <1>0, <2>1 DEF LostInv, Serial
<1>6. ASSUME NEW h \in Requests, Lose(h) PROVE LostInv' /\ (Serial' => Serial)
  <2>1. /\ pc[h] \notin Over \cup {"new"} /\ pc' = [pc EXCEPT ![h] = AfterLoss(h)]
        /\ lost' = lost \cup {h} /\ overlaps' = overlaps
    BY <1>6 DEF Lose, Goto, Over
  <2>2. AfterLoss(h) # "new"
    BY <2>1, AfterLossFacts DEF SessionInv, TypeInv
  <2> QED
    BY <1>0, <2>1, <2>2 DEF LostInv, Serial
<1>7. CASE LogicDies
  <2>1. /\ pc' = [h \in Requests |-> IF h \in Active THEN AfterLoss(h) ELSE pc[h]] /\ lost' = lost \cup Active
        /\ overlaps' = overlaps
    BY <1>7 DEF LogicDies
  <2>2. \A h \in Active : h \in Requests /\ pc[h] \notin Over \cup {"new"}
    BY DEF Active
  <2>3. \A h \in Active : AfterLoss(h) # "new"
    <3> TAKE h \in Active
    <3> QED
      BY <2>2, AfterLossFacts DEF SessionInv, TypeInv
  <2>4. ASSUME NEW h \in lost' PROVE pc'[h] # "new"
    BY <1>0, <2>1, <2>2, <2>3, <2>4 DEF LostInv
  <2> QED
    BY <2>1, <2>4 DEF LostInv, Serial
<1>8. ASSUME UNCHANGED <<pc, lost, overlaps>> PROVE LostInv' /\ (Serial' => Serial)
  BY <1>8 DEF LostInv, Serial
<1>9. (\E h \in Requests : Take(h)) \/ Age \/ UNCHANGED vars => UNCHANGED <<pc, lost, overlaps>>
  BY DEF Take, Age, vars
<1> QED
  BY <1>2, <1>3, <1>4, <1>5, <1>6, <1>7, <1>8, <1>9 DEF Next

LEMMA SerialStep == SessionInv /\ SerialInv /\ [Next]_vars => SerialInv'
<1> SUFFICES ASSUME SessionInv, SerialInv, [Next]_vars PROVE SerialInv'
  OBVIOUS
<1>1. LostInv /\ LostInv' /\ (Serial' => Serial)
  BY LostStep DEF SerialInv
<1> SUFFICES ASSUME Serial' PROVE SerialPool' /\ TokenInv' /\ (Spared' => SingleInv')
  BY <1>1 DEF SerialInv
<1>2. SerialPool /\ TokenInv /\ (Spared => SingleInv) /\ TypeInv'
  BY <1>1, SessionStep DEF SerialInv, SessionInv
<1>3. ASSUME NEW h \in Requests, NEW k, NEW a, NEW first, Begin(h, k, a, first), first \in {"29", "83", "guard", "fail"}
      PROVE  SerialPool' /\ TokenInv' /\ (Spared' => SingleInv')
  <2>1. Quiet
    <3>1. overlaps' = overlaps + (IF Quiet THEN 0 ELSE 1) /\ overlaps = 0 /\ overlaps' = 0
      BY <1>1, <1>3 DEF Begin, Serial
    <3> QED
      BY <3>1
  <2> QED
    BY <1>1, <1>2, <1>3, <2>1, SerialBegin
<1>4. ASSUME NEW h \in Requests, NEW u \in Names, Register(h, u) \/ Login(h, u)
      PROVE  SerialPool' /\ TokenInv' /\ (Spared' => SingleInv')
  <2>1. \E k : \E first \in {"29", "83", "fail"} : Begin(h, k, u, first)
    BY <1>4 DEF Register, Login
  <2> QED
    BY <1>3, <2>1
<1>5. ASSUME NEW h \in Requests, NEW t \in Issued, WithToken(h, t)
      PROVE  SerialPool' /\ TokenInv' /\ (Spared' => SingleInv')
  <2>1. \E k : Begin(h, k, t, "guard")
    BY <1>5 DEF WithToken
  <2> QED
    BY <1>3, <2>1
<1>6. ASSUME NEW h \in Requests, AddLooksAgain(h) \/ AddCreates(h) \/ Lose(h)
      PROVE  SerialPool' /\ TokenInv' /\ (Spared' => SingleInv')
  BY <1>2, <1>6, SerialAdds
<1>7. ASSUME NEW h \in Requests, Command(h)
      PROVE  SerialPool' /\ TokenInv' /\ (Spared' => SingleInv')
  BY <1>2, <1>7, SerialCommand
<1>8. ASSUME NEW h \in Requests, Take(h)
      PROVE  SerialPool' /\ TokenInv' /\ (Spared' => SingleInv')
  <2>1. UNCHANGED <<redis, pc, kind, arg, mem, aged, lost>>
    BY <1>8 DEF Take, input
  <2>2. Spared' => Spared
    BY <2>1 DEF Spared
  <2> QED
    BY <1>2, <1>8, <2>1, <2>2, SerialStill, PoolOfTake
<1>9. CASE Age
  <2>1. UNCHANGED <<redis, pc, kind, arg, mem, lost>> /\ aged' # 0
    <3>1. aged \in Nat /\ aged' = aged + 1
      BY <1>9, BoundsAssumption DEF Age, SessionInv, TypeInv, RestType
    <3> QED
      BY <1>9, <3>1 DEF Age, input
  <2>2. Spared' => Spared
    BY <2>1 DEF Spared
  <2> QED
    BY <1>2, <1>9, <2>1, <2>2, SerialStill, PoolOfAge
<1>10. CASE LogicDies
  BY <1>2, <1>10, SerialDeath
<1>11. CASE UNCHANGED vars
  <2>1. UNCHANGED <<redis, idle, conn, pc, kind, arg, mem, aged, lost>>
    BY <1>11 DEF vars, pool, input
  <2>2. Spared' => Spared
    BY <2>1 DEF Spared
  <2>3. SerialPool'
    <3>1. \A h \in Requests : Sent(h)' = Sent(h)
      BY <2>1 DEF Sent
    <3> QED
      BY <1>2, <2>1, <3>1 DEF SerialPool, Open, Active
  <2> QED
    BY <1>2, <2>1, <2>2, <2>3, SerialStill
<1> QED
  BY <1>4, <1>5, <1>6, <1>7, <1>8, <1>9, <1>10, <1>11 DEF Next

(* The inductive invariant of requests that do not overlap. *)
THEOREM SerialCorrect == Spec => [](SessionInv /\ SerialInv)
<1>1. Init => SessionInv /\ SerialInv
  BY SessionInit, SerialInit
<1>2. (SessionInv /\ SerialInv) /\ [Next]_vars => (SessionInv /\ SerialInv)'
  BY SessionStep, SerialStep
<1> QED
  BY <1>1, <1>2, PTL DEF Spec

(* Requests that come one at a time leave each user at most one session that the middleware
   lets pass, the one of the last login; also when logic dies inside a login, unless a
   connection was dropped before.  Between lines 93 and 95, and between lines 161 and 177, it
   is not so: a request has to be active there. *)
THEOREM OneSessionAtATime == Spec => []OneSession
<1>1. ASSUME SessionInv, SerialInv, Serial, Quiet, Spared,
             NEW t \in Requests, redis.session[t] # Nil, redis.session[t].named
      PROVE  redis.token[redis.session[t].user] = t
  <2>1. Named(t) /\ redis.session[t].user = arg[t] /\ SingleInv
    BY <1>1 DEF Named, SessionInv, DataInv, SerialInv
  <2>2. \A g \in Requests : pc[g] \notin {"94", "95", "170", "177"}
    BY <1>1 DEF Quiet, Active, Over
  <2> QED
    BY <2>1, <2>2 DEF SingleInv
<1>2. SessionInv /\ SerialInv => OneSession
  BY <1>1 DEF OneSession
<1> QED
  BY <1>2, SerialCorrect, PTL

(* A login that was answered "login success", and neither logged out nor followed by another
   login, has its session with the name and the expiry, although connections are dropped in
   the middle of transactions or logic dies there: EXEC reports a transaction that was lost. *)
THEOREM LoginsHold == Spec => []LoginHolds
<1>1. SessionInv /\ SerialInv => LoginHolds
  BY DEF SerialInv, TokenInv, OpensOf, Full, LoginHolds, TokenOpens
<1> QED
  BY <1>1, SerialCorrect, PTL
=============================================================================
