----------------------- MODULE RpcConnectClientProofs -----------------------
(***************************************************************************)
(* Proofs about RpcConnectClient, for any set of servers and any number of *)
(* instances of each.                                                      *)
(***************************************************************************)
EXTENDS RpcConnectClient, TLAPS

(* A number modulo n is an index of a table of n entries (line 52), and an index stays
   itself. *)
LEMMA ModRange ==
    ASSUME NEW i \in Nat, NEW n \in Nat \ {0}
    PROVE  i % n \in 0 .. n - 1 /\ (i < n => i % n = i)
  OBVIOUS

(* Quotient and remainder make the number. *)
LEMMA Division ==
    ASSUME NEW i \in Nat, NEW n \in Nat \ {0}
    PROVE  i \div n \in Int /\ i % n \in Int /\ i = n * (i \div n) + (i % n)
<1>1. i \div n \in Int  OBVIOUS
<1>2. i % n \in Int  OBVIOUS
<1>3. i = n * (i \div n) + (i % n)  OBVIOUS
<1>. QED  BY <1>1, <1>2, <1>3

(* Two multiples of a number greater than 1 do not differ by 1. *)
LEMMA NotNext ==
    ASSUME NEW n \in Nat, n > 1, NEW p \in Int, NEW q \in Int
    PROVE  n * q - n * p # 1
<1>. DEFINE k == q - p
<1>1. n * q - n * p = n * k  OBVIOUS
<1>2. k \in Int  OBVIOUS
<1>. HIDE DEF k
<1>3. n * k # 1
  <2>1. CASE k = 0  BY <2>1
  <2>2. CASE k >= 1
    <3>1. n * k >= n  BY <1>2, <2>2
    <3>. QED  BY <1>2, <3>1
  <2>3. CASE k <= -1
    <3>1. n * k <= -n  BY <1>2, <2>3
    <3>. QED  BY <1>2, <3>1
  <2>. QED  BY <1>2, <2>1, <2>2, <2>3
<1>. QED  BY <1>1, <1>3

(* In a table of more than one entry the index that line 58 stores is not the one that
   line 52 has just used, and line 52 will leave it alone. *)
LEMMA NextIndex ==
    ASSUME NEW i \in Nat, NEW n \in Nat, n > 1
    PROVE  ((i + 1) % n) % n # i % n
<1>1. (i + 1) % n # i % n
  <2>. SUFFICES ASSUME (i + 1) % n = i % n PROVE FALSE  OBVIOUS
  <2>. DEFINE p == i \div n
              q == (i + 1) \div n
              r == i % n
              t == (i + 1) % n
  <2>1. i + 1 \in Nat /\ n \in Nat \ {0}  OBVIOUS
  <2>2. p \in Int /\ r \in Int /\ i = n * p + r  BY <2>1, Division
  <2>3. q \in Int /\ t \in Int /\ i + 1 = n * q + t  BY <2>1, Division
  <2>4. r = t  OBVIOUS
  <2>. HIDE DEF p, q, r, t
  <2>5. n * p \in Int /\ n * q \in Int  BY <2>2, <2>3
  <2>6. n * q - n * p = 1  BY <2>2, <2>3, <2>4, <2>5
  <2>. QED  BY <2>2, <2>3, <2>6, NotNext
<1>2. (i + 1) % n \in 0 .. n - 1  BY ModRange
<1>3. \A t \in 0 .. n - 1 : t % n = t  BY ModRange
<1>. QED  BY <1>1, <1>2, <1>3

-----------------------------------------------------------------------------
(* The inductive invariant: the types; what was returned is an index of the table as it is
   now; and the stored index, unless it has been reset, leads elsewhere than the last one
   returned. *)
TypeInv ==
    /\ ServerInsMap \in [ServerIds -> Nat]
    /\ IndexMap \in [ServerIds -> Nat \cup {None}]
    /\ recent \in [ServerIds -> Seq(Nat)]

MovesOn(s) ==
    ServerInsMap[s] > 1 /\ recent[s] # <<>> /\ IndexMap[s] # None =>
       IndexMap[s] % ServerInsMap[s] # recent[s][Len(recent[s])]

Inv == TypeInv /\ InRange /\ Rotates /\ \A s \in ServerIds : MovesOn(s)

LEMMA InitInv == Init => Inv
  BY DEF Init, Inv, TypeInv, InRange, Rotates, MovesOn, None

LEMMA ReplaceInv == Inv /\ ReplaceTable => Inv'
<1>. SUFFICES ASSUME Inv, ReplaceTable PROVE Inv'  OBVIOUS
<1>1. TypeInv'
  <2>1. \A s \in ServerIds : recent'[s] = <<>>  BY DEF ReplaceTable
  <2>2. 0 .. MaxInstances \subseteq Nat  OBVIOUS
  <2>3. ServerInsMap' \in [ServerIds -> Nat]  BY <2>2 DEF ReplaceTable
  <2>. QED  BY <2>1, <2>3 DEF ReplaceTable, Inv, TypeInv
<1>2. \A s \in ServerIds : recent'[s] = <<>>  BY DEF ReplaceTable
<1>. QED  BY <1>1, <1>2 DEF Inv, InRange, Rotates, MovesOn

-----------------------------------------------------------------------------
(* One call: the entry of its own server, then the others. *)
LEMMA GetInv == ASSUME Inv, NEW s \in ServerIds, GetRpcClientByServerId(s) PROVE Inv'
<1>. DEFINE n == ServerInsMap[s]
            old == Indexed(s)[s]
            i == old % n
<1>1. n \in Nat \ {0} /\ ServerInsMap' = ServerInsMap
  BY DEF Inv, TypeInv, GetRpcClientByServerId
<1>2. Indexed(s) \in [ServerIds -> Nat \cup {None}]
  BY DEF Inv, TypeInv, Indexed
<1>3. old \in Nat
  BY DEF Inv, TypeInv, Indexed, None
<1>4. i \in 0 .. n - 1
  BY <1>1, <1>3, ModRange
<1>5. /\ IndexMap' = [Indexed(s) EXCEPT ![s] = (old + 1) % n]
      /\ recent' = [recent EXCEPT ![s] = IF IndexMap[s] = None \/ @ = <<>>
                                            THEN <<i>> ELSE <<@[Len(@)], i>>]
  BY DEF GetRpcClientByServerId, Returned
<1>6. (old + 1) % n \in 0 .. n - 1
  <2>1. \A k \in Nat : k % n \in 0 .. n - 1  BY <1>1, ModRange
  <2>. QED  BY <1>3, <2>1
<1>7. n > 1 => ((old + 1) % n) % n # i
  BY <1>1, <1>3, NextIndex
<1>8. IndexMap[s] # None => old = IndexMap[s]
  BY DEF Indexed
<1>. HIDE DEF i, old
<1>9. IndexMap' \in [ServerIds -> Nat \cup {None}] /\ IndexMap'[s] = (old + 1) % n
  BY <1>2, <1>5, <1>6
<1>10. \A t \in ServerIds \ {s} :
          recent'[t] = recent[t] /\ (IndexMap'[t] = IndexMap[t] \/ IndexMap'[t] = None)
  BY <1>5 DEF Inv, TypeInv, Indexed
<1>11. /\ recent'[s] = <<i>> \/ \E last \in 0 .. n - 1 : recent'[s] = <<last, i>> /\ (n > 1 => last # i)
       /\ recent' \in [ServerIds -> Seq(Nat)]
  <2>1. CASE IndexMap[s] = None \/ recent[s] = <<>>
    <3>1. recent' = [recent EXCEPT ![s] = <<i>>]  BY <1>5, <2>1
    <3>. QED  BY <1>4, <3>1 DEF Inv, TypeInv
  <2>2. CASE IndexMap[s] # None /\ recent[s] # <<>>
    <3>. DEFINE last == recent[s][Len(recent[s])]
    <3>1. recent[s] \in Seq(Nat) /\ Len(recent[s]) \in DOMAIN recent[s]
      BY <2>2 DEF Inv, TypeInv
    <3>2. last \in 0 .. n - 1  BY <3>1 DEF Inv, InRange
    <3>3. n > 1 => last # i  BY <1>8, <2>2 DEF Inv, MovesOn, i
    <3>4. recent' = [recent EXCEPT ![s] = <<last, i>>]  BY <1>5, <2>2
    <3>. HIDE DEF last
    <3>5. recent'[s] = <<last, i>>  BY <3>4 DEF Inv, TypeInv
    <3>6. <<last, i>> \in Seq(Nat)  BY <1>1, <1>4, <3>2
    <3>7. recent' \in [ServerIds -> Seq(Nat)]  BY <3>4, <3>6 DEF Inv, TypeInv
    <3>. QED  BY <3>2, <3>3, <3>5, <3>7
  <2>. QED  BY <2>1, <2>2
<1>12. TypeInv'
  BY <1>1, <1>9, <1>11 DEF Inv, TypeInv
<1>13. ASSUME NEW t \in ServerIds
       PROVE  /\ \A k \in DOMAIN recent'[t] : recent'[t][k] \in 0 .. ServerInsMap'[t] - 1
              /\ ServerInsMap'[t] > 1 /\ Len(recent'[t]) = 2 => recent'[t][1] # recent'[t][2]
              /\ MovesOn(t)'
  <2>1. CASE t # s
    BY <1>1, <1>10, <2>1 DEF Inv, InRange, Rotates, MovesOn
  <2>2. CASE t = s
    <3>1. recent'[s][Len(recent'[s])] = i
      <4>1. CASE recent'[s] = <<i>>  BY <4>1
      <4>2. CASE \E last \in 0 .. n - 1 : recent'[s] = <<last, i>>  BY <4>2
      <4>. QED  BY <1>11, <4>1, <4>2
    <3>2. MovesOn(s)'  BY <1>1, <1>7, <1>9, <3>1 DEF MovesOn
    <3>. QED  BY <1>1, <1>4, <1>11, <2>2, <3>2
  <2>. QED  BY <2>1, <2>2
<1>. QED  BY <1>12, <1>13 DEF Inv, InRange, Rotates

LEMMA NextInv == Inv /\ [Next]_vars => Inv'
<1>. SUFFICES ASSUME Inv, [Next]_vars PROVE Inv'  OBVIOUS
<1>1. CASE ReplaceTable  BY <1>1, ReplaceInv
<1>2. CASE \E s \in ServerIds : GetRpcClientByServerId(s)  BY <1>2, GetInv
<1>3. CASE UNCHANGED vars
  BY <1>3 DEF vars, Inv, TypeInv, InRange, Rotates, MovesOn
<1>. QED  BY <1>1, <1>2, <1>3 DEF Next

-----------------------------------------------------------------------------
(* The inductive invariant holds of every reachable state. *)
THEOREM ClientsCorrect == Spec => []Inv
  BY InitInv, NextInv, PTL DEF Spec

(* The slice is never indexed out of range in line 55, also when the table has shrunk. *)
THEOREM IndexInRange == Spec => []InRange
<1>1. Inv => InRange  BY DEF Inv
<1>. QED  BY <1>1, ClientsCorrect, PTL

(* Two calls in a row for a server with several instances go to different ones, unless its
   index was reset or its instances replaced in between (line 58). *)
THEOREM CallsRotate == Spec => []Rotates
<1>1. Inv => Rotates  BY DEF Inv
<1>. QED  BY <1>1, ClientsCorrect, PTL
=============================================================================
