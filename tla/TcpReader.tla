------------------------------ MODULE TcpReader ------------------------------
(***************************************************************************)
(* readDataFromTcp of connect/server_tcp.go: the goroutine that reads one  *)
(* TCP connection, from the first byte to the cleanup.  A client packs     *)
(* messages (StickPackage), TCP cuts the bytes as it likes, bufio.Scanner  *)
(* collects them and cuts the packets out again, and each message is       *)
(* handled with calls to logic.                                            *)
(*                                                                         *)
(* A message is [size, kind, room]: its bytes, what its JSON says, and the *)
(* room of a connect request.  A byte on the wire is a pair: the first two *)
(* of a packet, one of its length, or one of a message; all bytes of a     *)
(* message are alike, so its JSON can be decoded when it is there with its *)
(* full size and nothing else.                                             *)
(***************************************************************************)
EXTENDS StickPackage, Sequences

CONSTANTS Messages,     \* what clients send, each an IsMessage
          NoRoom,       \* ch.Room and ch.userId not set
          MaxSent,      \* bound on the messages the client sends
          MaxBytes      \* bound on the bytes they take

Kinds == {"badJson", "noToken", "noRoom", "build", "roomSend", "other"}

IsMessage(m) == m.size \in Nat /\ m.kind \in Kinds /\ (m.kind = "build" => m.room # NoRoom)

VARIABLES
    sent, bytes,    \* history: messages the client has packed, the bytes they take
    net,        \* bytes on their way
    buf,        \* bytes in the buffer of the scanner
    conn,       \* "open", "eof" (closed by the client) or "closed" (by this side)
    pc,         \* where the goroutine stands
    scanTimes,
    cur,        \* the message being handled
    ch,         \* room of the Channel
    handled,    \* history: messages decoded
    joined, left,   \* history: rooms in Connect and DisConnect calls logic has executed
    alive,      \* the process runs
    panicked    \* this goroutine has panicked; its deferred cleanup still runs

stream == <<sent, bytes, net, buf>>
reader == <<pc, scanTimes, cur, ch>>
hist   == <<handled, joined, left>>
proc   == <<alive, panicked>>
vars   == <<stream, conn, reader, hist, proc>>

MaxToken == Word        \* bufio.MaxScanTokenSize, 64 * 1024
Garbage  == [size |-> 0, kind |-> "badJson", room |-> NoRoom]

Init ==
    /\ sent = <<>> /\ bytes = 0 /\ net = <<>> /\ buf = <<>>
    /\ conn = "open"
    /\ pc = "scan" /\ scanTimes = 1 /\ cur = Garbage /\ ch = NoRoom
    /\ handled = <<>> /\ joined = <<>> /\ left = <<>>
    /\ alive = TRUE /\ panicked = FALSE

-----------------------------------------------------------------------------
(* The client and the rest of the process. *)

(* StickPackage.Pack: three writes, which TCP joins and cuts anyway. *)
Pack(m) ==
    LET length == PutInt16(GetPackageLength(m.size))
    IN  <<<<"v", 0>>, <<"1", 0>>, <<"length", length[1]>>, <<"length", length[2]>>>>
        \o [i \in 1 .. m.size |-> <<"msg", m>>]

Send(m) ==
    /\ conn = "open"
    /\ Len(sent) < MaxSent /\ bytes + Len(Pack(m)) <= MaxBytes
    /\ sent' = Append(sent, m)
    /\ bytes' = bytes + Len(Pack(m))
    /\ net' = net \o Pack(m)
    /\ UNCHANGED <<buf, conn, reader, hist, proc>>

(* The client closes. *)
Close ==
    /\ conn = "open"
    /\ conn' = "eof"
    /\ UNCHANGED <<stream, reader, hist, proc>>

(* The write goroutine could not write (lines 247-280) and closes the connection. *)
WriterCloses ==
    /\ conn # "closed"
    /\ conn' = "closed"
    /\ UNCHANGED <<stream, reader, hist, proc>>

(* The process ends for a reason of its own. *)
Die ==
    /\ alive' = FALSE
    /\ UNCHANGED <<stream, conn, reader, hist, panicked>>

-----------------------------------------------------------------------------
(* scannerPackage.Scan with the split function of lines 135-158. *)

Length == GetInt16(buf[3][2], buf[4][2])

(* Mutant: off by one, the packet waits for what follows it. *)
TokenReadyLate ==
    /\ Len(buf) > TcpHeaderLength
    /\ buf[1][1] = "v"
    /\ Length < Len(buf)

(* The buffer starts with a packet that is there completely.  A packet without a message
   waits for the next byte. *)
TokenReady ==
    /\ Len(buf) > TcpHeaderLength
    /\ buf[1][1] = "v"
    /\ Length <= Len(buf)

(* The scanner reads when it has no packet, unless its buffer is full. *)
Read(k) ==
    /\ pc = "scan" /\ ~TokenReady
    /\ conn # "closed"
    /\ k <= Len(net) /\ Len(buf) + k <= MaxToken
    /\ buf' = buf \o SubSeq(net, 1, k)
    /\ net' = SubSeq(net, k + 1, Len(net))
    /\ UNCHANGED <<sent, bytes, conn, reader, hist, proc>>

Decode(msg) ==
    IF msg # <<>> /\ msg[1][1] = "msg" /\ Len(msg) = msg[1][2].size /\ \A i \in DOMAIN msg : msg[i] = msg[1]
       THEN msg[1][2]
       ELSE Garbage

(* Unpack and json.Unmarshal of the token.  A length below that of the header makes the
   split function slice, or Unpack allocate, a negative number of bytes: a panic, which
   runs the deferred cleanup before it ends the process. *)
Token ==
    /\ pc = "scan" /\ TokenReady
    /\ IF Length < TcpHeaderLength
          THEN /\ pc' = "cleanup" /\ panicked' = TRUE
               /\ UNCHANGED <<buf, cur, handled, alive>>
          ELSE LET m == Decode(SubSeq(buf, TcpHeaderLength + 1, Length))
               IN  /\ buf' = SubSeq(buf, Length + 1, Len(buf))
                   /\ pc' = "handle" /\ cur' = m
                   /\ handled' = IF m = Garbage THEN handled ELSE Append(handled, m)
                   /\ UNCHANGED proc
    /\ UNCHANGED <<sent, bytes, net, conn, scanTimes, ch, joined, left>>

(* Mutant: rounds without end. *)
NextRoundAlways == pc' = "scan" /\ scanTimes' = scanTimes

(* Lines 160-165: after a message that cannot be decoded, or the end of the input, there is
   another round, the third is the last. *)
NextRound ==
    /\ scanTimes' = scanTimes + 1
    /\ pc' = IF scanTimes' > 3 THEN "cleanup" ELSE "scan"

(* A client that ended in the middle of its packets has not written what is left. *)
ScanEOF ==
    /\ pc = "scan" /\ ~TokenReady
    /\ conn = "eof" /\ Len(buf) < MaxToken
    /\ net' = <<>>
    /\ NextRound
    /\ UNCHANGED <<sent, bytes, buf, conn, cur, ch, hist, proc>>

(* Scan fails with an error: the buffer is full, or the connection closed by this side. *)
ScanError ==
    /\ pc = "scan" /\ ~TokenReady
    /\ Len(buf) = MaxToken \/ conn = "closed"
    /\ pc' = "cleanup"
    /\ UNCHANGED <<stream, conn, scanTimes, cur, ch, hist, proc>>

-----------------------------------------------------------------------------
(* The body of the loop, lines 176-238. *)

Undecoded ==
    /\ pc = "handle" /\ cur.kind = "badJson"
    /\ NextRound
    /\ UNCHANGED <<stream, conn, cur, ch, hist, proc>>

Reject ==
    /\ pc = "handle" /\ cur.kind \in {"noToken", "noRoom"}
    /\ pc' = "cleanup"
    /\ UNCHANGED <<stream, conn, scanTimes, cur, ch, hist, proc>>

(* A call to logic that fails ends the process (connect/rpc.go 82, 90). *)
CallFails ==
    /\ alive' = FALSE
    /\ UNCHANGED <<stream, conn, reader, hist, panicked>>

(* The token opens no session: logic answers with user 0. *)
ConnectRefused ==
    /\ pc = "handle" /\ cur.kind = "build"
    /\ pc' = "cleanup"
    /\ UNCHANGED <<stream, conn, scanTimes, cur, ch, hist, proc>>

Connect ==
    /\ pc = "handle" /\ cur.kind = "build"
    /\ joined' = Append(joined, cur.room)
    /\ pc' = "put"
    /\ UNCHANGED <<stream, conn, scanTimes, cur, ch, handled, left, proc>>

ConnectFails == pc = "handle" /\ cur.kind = "build" /\ CallFails

(* Mutant: the Channel of a refused connection is not set. *)
PutUnset ==
    /\ pc = "put"
    /\ \/ pc' = "scan" /\ ch' = cur.room /\ UNCHANGED conn
       \/ pc' = "cleanup" /\ conn' = "closed" /\ UNCHANGED ch
    /\ UNCHANGED <<stream, scanTimes, cur, hist, proc>>

(* Bucket.Put sets room and user of the Channel in any case; when the room has just been
   dropped it returns an error and the connection is closed. *)
Put ==
    /\ pc = "put"
    /\ ch' = cur.room
    /\ \/ pc' = "scan" /\ UNCHANGED conn
       \/ pc' = "cleanup" /\ conn' = "closed"
    /\ UNCHANGED <<stream, scanTimes, cur, hist, proc>>

(* A room message goes to logic, whose answer is only logged; other operations are ignored. *)
RoomSend ==
    /\ pc = "handle" /\ cur.kind \in {"roomSend", "other"}
    /\ pc' = "scan"
    /\ UNCHANGED <<stream, conn, scanTimes, cur, ch, hist, proc>>

-----------------------------------------------------------------------------
(* The deferred cleanup, lines 107-131. *)

CleanupNothing ==
    /\ pc = "cleanup" /\ ch = NoRoom
    /\ pc' = "done" /\ conn' = "closed"
    /\ UNCHANGED <<stream, scanTimes, cur, ch, hist, proc>>

DeleteChannel ==
    /\ pc = "cleanup" /\ ch # NoRoom
    /\ pc' = "disconnect"
    /\ UNCHANGED <<stream, conn, scanTimes, cur, ch, hist, proc>>

DisConnect ==
    /\ pc = "disconnect"
    /\ left' = Append(left, ch)
    /\ pc' = "done" /\ conn' = "closed"
    /\ UNCHANGED <<stream, scanTimes, cur, ch, handled, joined, proc>>

DisConnectFails == pc = "disconnect" /\ CallFails

(* Nothing recovers the panic: the process ends when the deferred function has returned. *)
PanicEnds ==
    /\ pc = "done" /\ panicked
    /\ alive' = FALSE
    /\ UNCHANGED <<stream, conn, reader, hist, panicked>>

-----------------------------------------------------------------------------
Scan   == (\E k \in 1 .. MaxToken : Read(k)) \/ Token \/ ScanEOF \/ ScanError
Handle == Undecoded \/ Reject \/ ConnectRefused \/ Connect \/ ConnectFails \/ Put \/ RoomSend
Clean  == CleanupNothing \/ DeleteChannel \/ DisConnect \/ DisConnectFails \/ PanicEnds
Reader == alive /\ (Scan \/ Handle \/ Clean)
Others == alive /\ (Close \/ WriterCloses \/ \E m \in Messages : Send(m))

Next == Reader \/ Others \/ (alive /\ Die)

Spec == Init /\ [][Next]_vars

-----------------------------------------------------------------------------
(* However TCP cuts the bytes, the messages handled are those the client sent, in order and
   without a gap (an empty packet has no JSON and counts for no message); and only a message
   that is too long for the length of its packet ends the process (stickpackage.go:48). *)
OnlyLongPanics == panicked => \E i \in DOMAIN sent : ~Fits(sent[i].size)
InOrder        == handled = SubSeq(sent, 1, Len(handled))
InStep         == ((\A i \in DOMAIN sent : sent[i].size # 0) => InOrder) /\ OnlyLongPanics

(* When the goroutine has ended, logic has been told that the user left the room it had
   been told of, whichever return, or the panic, ended it.  Of a client that asks for several rooms only the
   last is left. *)
LeavesRoom ==
    pc = "done" /\ Len(joined) <= 1 => left = joined

(* After the client has closed, the goroutine ends, or the process. *)
ReaderEnds == conn = "eof" ~> pc = "done" \/ ~alive

(* When no message is empty: one that has been sent on a connection that stays open is handled,
   however its bytes are cut, unless the goroutine ends; no packet is held back for one that
   may never come. *)
PacketHandled ==
    \A i \in 1 .. MaxSent :
        Len(sent) >= i ~> Len(handled) >= i \/ conn # "open" \/ pc = "done" \/ ~alive
=============================================================================
