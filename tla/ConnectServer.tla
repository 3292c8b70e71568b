---------------------------- MODULE ConnectServer ----------------------------
(***************************************************************************)
(* A process from its start to its end (Main) and, when it is a TCP        *)
(* server, one connection that its listener has accepted (TcpReader).  The *)
(* process dies with the panic or the failed call of the connection, and   *)
(* the connection with the process.                                        *)
(***************************************************************************)
EXTENDS Main, StickPackage, Sequences

CONSTANTS Messages, NoRoom, MaxSent, MaxBytes    \* of TcpReader

VARIABLES sent, bytes, net, buf, conn, pc, scanTimes, cur, ch, handled, joined, left, panicked

tcp  == <<sent, bytes, net, buf, conn, pc, scanTimes, cur, ch, handled, joined, left, panicked>>
vars == <<life, tcp>>

Tcp == INSTANCE TcpReader WITH
    Byte <- Byte,
    Messages <- Messages,
    NoRoom <- NoRoom,
    MaxSent <- MaxSent,
    MaxBytes <- MaxBytes,
    alive <- ended = "no"

ASSUME MessagesAssumption == \A m \in Messages : Tcp!IsMessage(m)
ASSUME BoundsAssumption == {MaxSent, MaxBytes} \subseteq Nat

InitAll == Init /\ Tcp!Init

LifeStep == Life /\ UNCHANGED tcp

(* Lines 56-104 of server_tcp.go: a connection that has been accepted gets a Channel and its
   two goroutines. *)
Accepted == module = "connect_tcp" /\ listener = "open"

ReadStep ==
    /\ Accepted
    /\ ended' \in {ended, "connection"}
    /\ Tcp!Reader
    /\ UNCHANGED <<module, run, ready, rpc, listener, requests>>

PeerStep ==
    /\ Accepted
    /\ UNCHANGED life
    /\ Tcp!Others

Next == LifeStep \/ ReadStep \/ PeerStep

Spec     == InitAll /\ [][Next]_vars
FairSpec == Spec /\ LifeFairness /\ WF_vars(ReadStep)

-----------------------------------------------------------------------------
(* The connection does in its process what it does by itself: what is proved of TcpReader
   holds of it, from the first byte to a signal that ends the process in the middle. *)
ReadsAsTcpReader == Tcp!Spec

InStep        == Tcp!InStep
LeavesRoom    == Tcp!LeavesRoom
ReaderEnds    == Tcp!ReaderEnds
PacketHandled == Tcp!PacketHandled

(* The listener and the listing in etcd are the work of two goroutines; a user who has been
   connected is in the end on a server that task can find. *)
Findable ==
    joined # <<>> ~> ended # "no" \/ \A a \in Addresses : rpc[a] \notin {"none", "starting"}
=============================================================================
