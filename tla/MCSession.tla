----------------------------- MODULE MCSession -----------------------------
EXTENDS Session, TLC

(* Replay is what applying the queued commands one after the other gives. *)
Dbs == {[session |-> [t \in Requests |-> was], token |-> [u \in Names |-> Nil]] :
            was \in {Nil, Data(CHOOSE u \in Names : TRUE, TRUE)}}
ASSUME ReplayAppliesInOrder ==
    \A n \in 0 .. 3 : \A cmds \in [1 .. n -> Writable] : \A db \in Dbs :
        Replay(db, cmds) = FoldLeft(Apply, db, cmds)

Symmetry == Permutations(Requests) \cup Permutations(Names)
=============================================================================
