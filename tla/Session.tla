------------------------------- MODULE Session -------------------------------
(***************************************************************************)
(* Accounts and sessions: the HTTP endpoints of the api process            *)
(* (api/router, api/handler), the rpc methods they call (logic/rpc.go) and *)
(* the redis connections those share (tools/redis.go).                     *)
(*                                                                         *)
(* A request runs one endpoint.  Its pc is the line of logic/rpc.go of the *)
(* redis or database command it does next; "guard" and "auth" are line     *)
(* 126, CheckAuth, called by the middleware and by the handler itself.     *)
(* The go-redis client (external) keeps idle connections on a stack.  Each *)
(* command takes the top one, or dials, and puts it back.  MULTI belongs   *)
(* to a connection, not to the handler that sent it, so what the commands  *)
(* after it do depends on which connection they get.                       *)
(***************************************************************************)
EXTENDS Integers, FiniteSets, Sequences, SequencesExt

CONSTANTS Requests,   \* also the tokens: request h hands out token h
          Names,      \* user names; a name stands for the id of its row too
          Kinds,      \* the endpoints used
          Concurrent, \* bound: the endpoints whose requests may overlap
          MaxOverlaps,    \* bound: how often a request begins while another one is active
          MaxOverlapping, \* bound: the requests of a history in which that happens
          MaxFaults,  \* bound: connections dropped for their age, and requests that lost a call
          Nil, Queued \* the reply to a GET inside MULTI, taken for a value

ASSUME RequestsAssumption == IsFiniteSet(Requests)
ASSUME KindsAssumption ==
    /\ Kinds \subseteq {"register", "login", "checkAuth", "logout", "push", "pushRoom", "count", "roomInfo"}
    /\ Concurrent \subseteq Kinds
ASSUME BoundsAssumption == {MaxOverlaps, MaxOverlapping, MaxFaults} \subseteq Nat
ASSUME ValuesAssumption == Nil # Queued /\ {Nil, Queued} \cap (Requests \cup Names) = {}

VARIABLES
    users,          \* the rows of table user
    redis,          \* session: what session_<token> holds; token: session__map_<user>
    idle,           \* the stack of idle connections: of each, its transaction
    conn,           \* of each request, the connection its command holds
    pc, kind, arg,  \* of each request: where it is, its endpoint, its name or token
    mem,            \* what it has read: the old token, or the user a session belongs to
    published,      \* the message it put in the queue: its sender, Nil for user 0
    aged, lost,     \* how many connections have been dropped; the requests that lost a call,
                    \* in transport or with the logic process
    overlaps        \* how often a request has begun while another one was active

input == <<kind, arg>>
pool  == <<idle, conn>>
vars  == <<users, redis, pool, pc, input, mem, published, aged, lost, overlaps>>

Over   == {"ok", "fail"}
Active == {h \in Requests : pc[h] \notin Over \cup {"new"}}
Quiet  == Active = {}
Issued == {h \in Requests : pc[h] = "ok" /\ kind[h] \in {"login", "register"}}

Plain == [multi |-> FALSE, queued |-> <<>>]   \* a connection outside any MULTI

Goto(h, label) == pc' = [pc EXCEPT ![h] = label]

Init ==
    /\ users \in SUBSET Names
    /\ redis = [session |-> [h \in Requests |-> Nil], token |-> [u \in Names |-> Nil]]
    /\ idle = <<>>
    /\ conn = [h \in Requests |-> Nil]
    /\ pc = [h \in Requests |-> "new"]
    /\ kind = [h \in Requests |-> Nil]
    /\ arg = [h \in Requests |-> Nil]
    /\ mem = [h \in Requests |-> Nil]
    /\ published = [h \in Requests |-> <<>>]
    /\ aged = 0
    /\ lost = {}
    /\ overlaps = 0

-----------------------------------------------------------------------------
(* The endpoints.  register and login call their rpc method at once: its first database
   read is line 27 or 70.  The others go through the middleware CheckSessionId. *)
Begin(h, k, a, first) ==
    /\ pc[h] = "new"
    /\ overlaps' = overlaps + (IF Quiet THEN 0 ELSE 1)
    /\ overlaps' <= MaxOverlaps
    /\ overlaps' > 0 => Cardinality({g \in Requests : pc[g] # "new"}) < MaxOverlapping
    /\ ~Quiet => {k} \cup {kind[g] : g \in Active} \subseteq Concurrent
    /\ kind' = [kind EXCEPT ![h] = k]
    /\ arg' = [arg EXCEPT ![h] = a]
    /\ Goto(h, first)
    /\ UNCHANGED <<users, redis, pool, mem, published, aged, lost>>

Register(h, u) == "register" \in Kinds /\ Begin(h, "register", u, IF u \in users THEN "fail" ELSE "29")

(* The name is unknown or the password wrong, or they are right. *)
Login(h, u) ==
    /\ "login" \in Kinds
    /\ \/ Begin(h, "login", u, "fail")
       \/ u \in users /\ Begin(h, "login", u, "83")

WithToken(h, t) == \E k \in Kinds \ {"register", "login"} : Begin(h, k, t, "guard")

-----------------------------------------------------------------------------
(* User.Add: a second look for the name, whose row it returns if there is one by now. *)
AddLooksAgain(h) ==
    /\ pc[h] = "29"
    /\ Goto(h, IF arg[h] \in users THEN "48" ELSE "34")
    /\ UNCHANGED <<users, redis, pool, input, mem, published, aged, lost, overlaps>>

(* The insert fails when the name is taken: user_name is UNIQUE in the database file. *)
AddCreates(h) ==
    /\ pc[h] = "34"
    /\ Goto(h, IF arg[h] \in users THEN "fail" ELSE "48")
    /\ users' = users \cup {arg[h]}
    /\ UNCHANGED <<redis, pool, input, mem, published, aged, lost, overlaps>>

-----------------------------------------------------------------------------
(* The redis client: the pool, and what a command does on the connection it got. *)
Commands == {"48", "49", "50", "51", "83", "87", "92", "93", "94", "95", "96", "guard", "auth",
             "148", "161", "170", "177", "199", "224", "260", "280", "LPUSH"}

Take(h) ==
    /\ pc[h] \in Commands /\ conn[h] = Nil
    /\ IF idle = <<>> THEN /\ conn' = [conn EXCEPT ![h] = Plain]
                           /\ UNCHANGED idle
                      ELSE /\ conn' = [conn EXCEPT ![h] = Last(idle)]
                           /\ idle' = Front(idle)
    /\ UNCHANGED <<users, redis, pc, input, mem, published, aged, lost, overlaps>>

At(h, label) == pc[h] = label /\ conn[h] # Nil
From(h, label, next) == At(h, label) /\ Goto(h, next)
InMulti(h) == conn[h].multi

PutBack(h, c) == idle' = Append(idle, c) /\ conn' = [conn EXCEPT ![h] = Nil]
Close(h)      == conn' = [conn EXCEPT ![h] = Nil] /\ UNCHANGED idle

(* A connection 20 seconds old is dropped while it is idle. *)
Age ==
    /\ aged + Cardinality(lost) < MaxFaults
    /\ aged' = aged + 1
    /\ \E k \in DOMAIN idle : idle' = RemoveAt(idle, k)
    /\ UNCHANGED <<users, redis, conn, pc, input, mem, published, lost, overlaps>>

Data(u, named) == [user |-> u, named |-> named, ttl |-> FALSE]

(* The effect of a write: HMSET of a session, EXPIRE of it, SET of the token of a user. *)
Apply(db, c) ==
    CASE c.op = "HMSET"  -> [db EXCEPT !.session[c.key] = c.val]
      [] c.op = "EXPIRE" -> IF db.session[c.key] = Nil THEN db ELSE [db EXCEPT !.session[c.key].ttl = TRUE]
      [] c.op = "SET"    -> [db EXCEPT !.token[c.key] = c.val]

Cmd(op, key, val) == [op |-> op, key |-> key, val |-> val]

(* EXEC applies what was queued, in order: of the writes to one key the last one counts,
   and an EXPIRE of a session that is there by then. *)
LastOf(cmds, op, key) ==
    {i \in DOMAIN cmds : /\ cmds[i].op = op /\ cmds[i].key = key
                         /\ \A j \in DOMAIN cmds : cmds[j].op = op /\ cmds[j].key = key => j <= i}

ValueOf(cmds, op, key, was) ==
    IF LastOf(cmds, op, key) = {} THEN was ELSE cmds[CHOOSE i \in LastOf(cmds, op, key) : TRUE].val

Replay(db, cmds) ==
    LET Kept(t)    == ValueOf(cmds, "HMSET", t, db.session[t])
        Expires(t) == \E i \in LastOf(cmds, "EXPIRE", t) : \A j \in LastOf(cmds, "HMSET", t) : j < i
    IN  [session |-> [t \in Requests |-> IF Kept(t) # Nil /\ Expires(t)
                                            THEN [Kept(t) EXCEPT !.ttl = TRUE] ELSE Kept(t)],
         token   |-> [u \in Names |-> ValueOf(cmds, "SET", u, db.token[u])]]

(* HMSET, EXPIRE and SET return no error inside a MULTI either, where they are queued. *)
Writes(h, c) ==
    /\ redis' = IF InMulti(h) THEN redis ELSE Apply(redis, c)
    /\ PutBack(h, IF InMulti(h) THEN [conn[h] EXCEPT !.queued = Append(@, c)] ELSE Plain)

(* The replies to HGETALL, DEL and LPUSH inside a MULTI cannot be parsed: an error, and the
   connection is closed. *)
ReadsHash(h, found, label) ==
    /\ IF InMulti(h) THEN Close(h) ELSE PutBack(h, Plain)
    /\ Goto(h, IF InMulti(h) \/ ~found THEN "fail" ELSE label)

Deletes(h, db, label) ==
    /\ redis' = IF InMulti(h) THEN redis ELSE db
    /\ IF InMulti(h) THEN Close(h) ELSE PutBack(h, Plain)
    /\ Goto(h, IF InMulti(h) THEN "fail" ELSE label)

-----------------------------------------------------------------------------
(* The transaction of Register (48-51) and of Login (92-96).  Only EXEC's error is looked
   at.  A MULTI inside a MULTI is an error that changes nothing. *)
Multi(h) ==
    /\ From(h, "48", "49") \/ From(h, "92", "93")
    /\ PutBack(h, [conn[h] EXCEPT !.multi = TRUE])
    /\ UNCHANGED <<users, redis, input, mem, published, aged, lost, overlaps>>

(* Register stores the name of uData, which is empty when it gets here. *)
WriteSession(h) ==
    /\ From(h, "49", "50") \/ From(h, "93", "94")
    /\ Writes(h, Cmd("HMSET", h, Data(arg[h], kind[h] = "login")))
    /\ UNCHANGED <<users, input, mem, published, aged, lost, overlaps>>

Expire(h) ==
    /\ From(h, "50", "51") \/ From(h, "94", "95")
    /\ Writes(h, Cmd("EXPIRE", h, Nil))
    /\ UNCHANGED <<users, input, mem, published, aged, lost, overlaps>>

SetToken(h) ==
    /\ From(h, "95", "96")
    /\ Writes(h, Cmd("SET", arg[h], h))
    /\ UNCHANGED <<users, input, mem, published, aged, lost, overlaps>>

(* Mutants: the connection is not put back; the error of EXEC is ignored. *)
ExecLeaking(h) ==
    /\ At(h, "51") \/ At(h, "96")
    /\ redis' = IF InMulti(h) THEN Replay(redis, conn[h].queued) ELSE redis
    /\ Goto(h, IF InMulti(h) THEN "ok" ELSE "fail")
    /\ UNCHANGED <<users, pool, input, mem, published, aged, lost, overlaps>>

ExecUnchecked(h) ==
    /\ At(h, "51") \/ At(h, "96")
    /\ redis' = IF InMulti(h) THEN Replay(redis, conn[h].queued) ELSE redis
    /\ Goto(h, "ok")
    /\ PutBack(h, Plain)
    /\ UNCHANGED <<users, input, mem, published, aged, lost, overlaps>>

Exec(h) ==
    /\ At(h, "51") \/ At(h, "96")
    /\ redis' = IF InMulti(h) THEN Replay(redis, conn[h].queued) ELSE redis
    /\ Goto(h, IF InMulti(h) THEN "ok" ELSE "fail")
    /\ PutBack(h, Plain)
    /\ UNCHANGED <<users, input, mem, published, aged, lost, overlaps>>

(* Login reads the token of the user's last login and ends that session. *)
GetTokenOnly(h) ==  \* mutant: the old session is not deleted
    /\ At(h, "83")
    /\ Goto(h, "92")
    /\ PutBack(h, conn[h])
    /\ UNCHANGED <<users, redis, input, mem, published, aged, lost, overlaps>>

GetToken(h) ==
    /\ At(h, "83")
    /\ LET old == IF InMulti(h) THEN Queued ELSE redis.token[arg[h]]
       IN  /\ mem' = [mem EXCEPT ![h] = old]
           /\ Goto(h, IF old = Nil THEN "92" ELSE "87")
    /\ PutBack(h, conn[h])
    /\ UNCHANGED <<users, redis, input, published, aged, lost, overlaps>>

DelOldSession(h) ==
    /\ At(h, "87")
    /\ Deletes(h, IF mem[h] = Queued THEN redis ELSE [redis EXCEPT !.session[mem[h]] = Nil], "92")
    /\ UNCHANGED <<users, input, mem, published, aged, lost, overlaps>>

-----------------------------------------------------------------------------
(* Where a request goes when the middleware lets it pass. *)
AfterGuard(h) ==
    CASE kind[h] \in {"checkAuth", "push", "pushRoom"} -> "auth"
      [] kind[h] = "logout"   -> "148"
      [] kind[h] = "count"    -> "260"
      [] kind[h] = "roomInfo" -> "280"

AfterAuth(h) ==
    CASE kind[h] = "checkAuth" -> "ok"
      [] kind[h] = "push"      -> "199"
      [] kind[h] = "pushRoom"  -> "224"

Session(h) == redis.session[arg[h]]

(* CheckAuth for the middleware, which wants a user with a name. *)
Guard(h) ==
    /\ At(h, "guard")
    /\ ReadsHash(h, Session(h) # Nil /\ Session(h).named, AfterGuard(h))
    /\ UNCHANGED <<users, redis, input, mem, published, aged, lost, overlaps>>

AuthUnchecked(h) ==  \* mutant: the handler relies on the middleware
    /\ At(h, "auth")
    /\ IF InMulti(h) THEN Close(h) ELSE PutBack(h, Plain)
    /\ Goto(h, AfterAuth(h))
    /\ mem' = [mem EXCEPT ![h] = IF Session(h) = Nil \/ InMulti(h) THEN Nil ELSE Session(h).user]
    /\ UNCHANGED <<users, redis, input, published, aged, lost, overlaps>>

(* CheckAuth for the handler, which takes the user from the reply. *)
Auth(h) ==
    /\ At(h, "auth")
    /\ ReadsHash(h, Session(h) # Nil, AfterAuth(h))
    /\ mem' = [mem EXCEPT ![h] = IF Session(h) = Nil \/ InMulti(h) THEN Nil ELSE Session(h).user]
    /\ UNCHANGED <<users, redis, input, published, aged, lost, overlaps>>

LogoutReads(h) ==
    /\ At(h, "148")
    /\ ReadsHash(h, Session(h) # Nil, "161")
    /\ mem' = [mem EXCEPT ![h] = IF Session(h) = Nil \/ InMulti(h) THEN Nil ELSE Session(h).user]
    /\ UNCHANGED <<users, redis, input, published, aged, lost, overlaps>>

LogoutDelToken(h) ==
    /\ At(h, "161")
    /\ Deletes(h, [redis EXCEPT !.token[mem[h]] = Nil], "170")
    /\ UNCHANGED <<users, input, mem, published, aged, lost, overlaps>>

(* The route belongs to module Presence. *)
LogoutDelRoute(h) ==
    /\ At(h, "170")
    /\ Deletes(h, redis, "177")
    /\ UNCHANGED <<users, input, mem, published, aged, lost, overlaps>>

LogoutDelSessionUnchecked(h) ==  \* mutant: the error of the last DEL is ignored
    /\ At(h, "177")
    /\ redis' = IF InMulti(h) THEN redis ELSE [redis EXCEPT !.session[arg[h]] = Nil]
    /\ IF InMulti(h) THEN Close(h) ELSE PutBack(h, Plain)
    /\ Goto(h, "ok")
    /\ UNCHANGED <<users, input, mem, published, aged, lost, overlaps>>

LogoutDelSession(h) ==
    /\ At(h, "177")
    /\ Deletes(h, [redis EXCEPT !.session[arg[h]] = Nil], "ok")
    /\ UNCHANGED <<users, input, mem, published, aged, lost, overlaps>>

-----------------------------------------------------------------------------
(* Push, Count: the GET of the route or of the count; any reply will do. *)
PublishGet(h) ==
    /\ At(h, "199") \/ At(h, "260")
    /\ PutBack(h, conn[h])
    /\ Goto(h, "LPUSH")
    /\ UNCHANGED <<users, redis, input, mem, published, aged, lost, overlaps>>

(* PushRoom, GetRoomInfo: the room list; GetRoomInfo fails when it is empty. *)
PublishHash(h) ==
    /\ \/ At(h, "224") /\ ReadsHash(h, TRUE, "LPUSH")
       \/ At(h, "280") /\ \E found \in BOOLEAN : ReadsHash(h, found, "LPUSH")
    /\ UNCHANGED <<users, redis, input, mem, published, aged, lost, overlaps>>

(* The message is put in the queue in the name of the sender the handler found. *)
Publish(h) ==
    /\ At(h, "LPUSH")
    /\ ReadsHash(h, TRUE, "ok")
    /\ published' = IF InMulti(h) THEN published
                    ELSE [published EXCEPT ![h] = <<mem[h]>>]
    /\ UNCHANGED <<users, redis, input, mem, aged, lost, overlaps>>

(* A call that is lost: the api stub ignores the error, and the zero reply has the code for
   success.  The middleware notices that there is no user, and login and register that there
   is no token; the other handlers notice nothing. *)
AfterLoss(h) ==
    CASE pc[h] = "auth" -> AfterAuth(h)
      [] pc[h] = "guard" \/ kind[h] \in {"login", "register"} -> "fail"
      [] OTHER -> "ok"

(* The call is lost before it is executed. *)
Lose(h) ==
    /\ conn[h] = Nil
    /\ aged + Cardinality(lost) < MaxFaults
    /\ pc[h] \in {"guard", "auth", "148", "199", "224", "260", "280"}
    /\ lost' = lost \cup {h}
    /\ Goto(h, AfterLoss(h))
    /\ UNCHANGED <<users, redis, pool, input, mem, published, aged, overlaps>>

(* The logic process dies: the calls it was executing are cut off between two commands, and
   Redis forgets the transactions of its connections.  Another one is started for the calls
   that follow. *)
LogicDies ==
    /\ Active # {} /\ aged + Cardinality(lost) < MaxFaults
    /\ lost' = lost \cup Active
    /\ pc' = [h \in Requests |-> IF h \in Active THEN AfterLoss(h) ELSE pc[h]]
    /\ idle' = <<>> /\ conn' = [h \in Requests |-> Nil]
    /\ UNCHANGED <<users, redis, input, mem, published, aged, overlaps>>

Command(h) ==
    \/ Multi(h) \/ WriteSession(h) \/ Expire(h) \/ SetToken(h) \/ Exec(h)
    \/ GetToken(h) \/ DelOldSession(h) \/ Guard(h) \/ Auth(h)
    \/ LogoutReads(h) \/ LogoutDelToken(h) \/ LogoutDelRoute(h) \/ LogoutDelSession(h)
    \/ PublishGet(h) \/ PublishHash(h) \/ Publish(h)

Next ==
    \/ \E h \in Requests :
          \/ \E u \in Names : Register(h, u) \/ Login(h, u)
          \/ \E t \in Issued : WithToken(h, t)
          \/ AddLooksAgain(h) \/ AddCreates(h) \/ Take(h) \/ Command(h) \/ Lose(h)
    \/ Age \/ LogicDies

Spec == Init /\ [][Next]_vars

-----------------------------------------------------------------------------
Serial == overlaps = 0

Sessions == [user : Names, named : BOOLEAN, ttl : BOOLEAN]
Writable == [op : {"HMSET"}, key : Requests, val : Sessions]
            \cup [op : {"EXPIRE"}, key : Requests, val : {Nil}]
            \cup [op : {"SET"}, key : Names, val : Requests]
Db       == [session : [Requests -> Sessions \cup {Nil}], token : [Names -> Requests \cup {Nil}]]
Conns    == [multi : BOOLEAN, queued : Seq(Writable)]

ASSUME NilAssumption == Nil \notin Conns \cup Sessions

(* Every variable has its type, and a connection has commands queued only in a MULTI. *)
TypeOK ==
    /\ users \subseteq Names
    /\ redis \in Db
    /\ idle \in Seq(Conns) /\ conn \in [Requests -> Conns \cup {Nil}]
    /\ \A k \in DOMAIN idle : idle[k].queued # <<>> => idle[k].multi
    /\ \A h \in Requests : conn[h] # Nil => pc[h] \in Commands /\ (conn[h].queued # <<>> => conn[h].multi)
    /\ pc \in [Requests -> {"new", "29", "34"} \cup Over \cup Commands]
    /\ kind \in [Requests -> Kinds \cup {Nil}]
    /\ arg \in [Requests -> Names \cup Requests \cup {Nil}]
    /\ mem \in [Requests -> Names \cup Requests \cup {Nil, Queued}]
    /\ published \in [Requests -> Seq(Names \cup {Nil})]
    /\ aged \in 0 .. MaxFaults /\ lost \subseteq Requests /\ overlaps \in 0 .. MaxOverlaps

(* A logout that was answered "logout ok!", none of its calls lost, has ended the session
   of its token for good, whatever ran beside it and on whichever connections. *)
LogoutHolds ==
    \A h \in Requests :
       kind[h] = "logout" /\ pc[h] = "ok" /\ h \notin lost => redis.session[arg[h]] = Nil

(* The sender of a message is the user whose token came with the request, although the
   session is looked up twice and may end in between, unless a call was lost. *)
SenderKnown ==
    \A h \in Requests :
       kind[h] \in {"push", "pushRoom"} /\ published[h] # <<>> /\ h \notin lost
          => published[h] = <<arg[arg[h]]>>

(* Requests that come one at a time: a user has no more than one session that the
   middleware lets pass, the one of the last login, also when logic dies in the middle of a
   login.  (When it dies in the middle of a logout, line 161 may have made the session one
   that no later login finds; when it dies in a login whose transaction has lost its
   connection, line 93 may have, which then wrote the session at once.) *)
Spared == \A h \in lost : kind[h] # "logout" /\ (kind[h] = "login" => aged = 0)

OneSession ==
    Serial /\ Quiet /\ Spared => \A t \in Requests :
       redis.session[t] # Nil /\ redis.session[t].named => redis.token[redis.session[t].user] = t

(* A login that was answered "login success", and not logged out since, has its session,
   with the name and the expiry (logic/rpc.go:63, "by the user key get the token, with the
   session key get the user's data").  A later login ends that session even if it fails. *)
TokenOpens ==
    Quiet => \A h \in Requests :
       /\ kind[h] = "login" /\ pc[h] = "ok"
       /\ redis.token[arg[h]] = h
       /\ \A g \in Requests : kind[g] = "login" => mem[g] # h
       => redis.session[h] = [user |-> arg[h], named |-> TRUE, ttl |-> TRUE]

(* Requests that come one at a time: so it is, although connections are dropped in the
   middle of transactions, or logic dies there. *)
LoginHolds == Serial => TokenOpens
=============================================================================
