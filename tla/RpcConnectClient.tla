-------------------------- MODULE RpcConnectClient --------------------------
(***************************************************************************)
(* task/rpc.go RpcConnectClient: which instance of a connect server the    *)
(* next call goes to.  A server registers one instance for each of its rpc *)
(* addresses; the instances of a server are numbered by their position in  *)
(* ServerInsMap.  Every operation runs under the lock, in one step.        *)
(***************************************************************************)
EXTENDS Integers, Sequences

CONSTANTS ServerIds, MaxInstances

ASSUME InstancesAssumption == MaxInstances \in Nat

None == -1

VARIABLES
    ServerInsMap,   \* how many instances each server id has; 0 when it is not a key
    IndexMap,       \* a Go map: None for a key it does not have
    recent          \* history: the last one or two instances returned for a server since its
                    \* entry was replaced or its index reset

vars == <<ServerInsMap, IndexMap, recent>>

Init ==
    /\ ServerInsMap = [s \in ServerIds |-> 0]
    /\ IndexMap = [s \in ServerIds |-> None]
    /\ recent = [s \in ServerIds |-> <<>>]

(* Lines 45-49.  A server without an index gets a whole new map, with itself in it. *)
Indexed(s) == IF IndexMap[s] = None THEN [t \in ServerIds |-> IF t = s THEN 0 ELSE None] ELSE IndexMap

Returned(s, i) ==
    recent' = [recent EXCEPT ![s] = IF IndexMap[s] = None \/ @ = <<>> THEN <<i>> ELSE <<@[Len(@)], i>>]

(* Mutants: without the modulo of line 52; without the "+ 1". *)
GetUnbounded(s) ==
    /\ ServerInsMap[s] > 0
    /\ Returned(s, Indexed(s)[s])
    /\ IndexMap' = [Indexed(s) EXCEPT ![s] = (@ + 1) % ServerInsMap[s]]
    /\ UNCHANGED ServerInsMap

GetSame(s) ==
    /\ ServerInsMap[s] > 0
    /\ Returned(s, Indexed(s)[s] % ServerInsMap[s])
    /\ IndexMap' = Indexed(s)
    /\ UNCHANGED ServerInsMap

(* Without an instance the caller gets an error and nothing changes. *)
GetRpcClientByServerId(s) ==
    /\ ServerInsMap[s] > 0
    /\ Returned(s, Indexed(s)[s] % ServerInsMap[s])
    /\ IndexMap' = [Indexed(s) EXCEPT ![s] = (@ + 1) % ServerInsMap[s]]
    /\ UNCHANGED ServerInsMap

(* etcd reports a change: the table is replaced as a whole, IndexMap stays. *)
ReplaceTable ==
    /\ ServerInsMap' \in [ServerIds -> 0 .. MaxInstances]
    /\ recent' = [s \in ServerIds |-> <<>>]
    /\ UNCHANGED IndexMap

Next == ReplaceTable \/ \E s \in ServerIds : GetRpcClientByServerId(s)
Spec == Init /\ [][Next]_vars

-----------------------------------------------------------------------------
(* The index of the slice in line 55 is in range, also when the table has been replaced by
   one with fewer instances since the index was stored. *)
InRange == \A s \in ServerIds : \A k \in DOMAIN recent[s] : recent[s][k] \in 0 .. ServerInsMap[s] - 1

(* Two calls in a row for a server that has several instances go to different ones
   (README.md:16, "one more each time, not the same xclient all the time"), unless a server
   without an index was called in between and took the whole map with it. *)
Rotates == \A s \in ServerIds : ServerInsMap[s] > 1 /\ Len(recent[s]) = 2 => recent[s][1] # recent[s][2]
=============================================================================
