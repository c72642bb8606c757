----------------------------- MODULE NewestWins -----------------------------
(***************************************************************************)
(* What a replicated store of signed, replaceable, deletable records       *)
(* promises, whatever the network does: a copy only ever moves up the      *)
(* order  nothing < version 1 < version 2 < ... < deleted,  and only to a  *)
(* level that the record's author has signed.                              *)
(***************************************************************************)
EXTENDS Naturals

CONSTANTS Nodes, Keys, Gone        \* Gone: the level of a deleted record

VARIABLES signed,    \* levels the author of each key has signed
          held       \* the level each node holds of each key

Init ==
    /\ signed = [k \in Keys |-> {}]
    /\ held = [n \in Nodes |-> [k \in Keys |-> 0]]

Sign(k, l) ==
    /\ signed' = [signed EXCEPT ![k] = @ \cup {l}]
    /\ UNCHANGED held

Adopt(n, k, l) ==
    /\ l \in signed[k]
    /\ l > held[n][k]
    /\ held' = [held EXCEPT ![n][k] = l]
    /\ UNCHANGED signed

Next ==
    \/ \E k \in Keys, l \in 1..Gone : Sign(k, l)
    \/ \E n \in Nodes, k \in Keys, l \in 1..Gone : Adopt(n, k, l)

Spec == Init /\ [][Next]_<<signed, held>>
=============================================================================
