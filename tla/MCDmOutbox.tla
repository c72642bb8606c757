----------------------------- MODULE MCDmOutbox -----------------------------
(* Instances of DmOutbox for TLC: one peer, that every message goes to or    *)
(* comes from.  Workers are interchangeable.                                 *)
EXTENDS DmOutbox, TLC

CONSTANT p

Recipient == [m \in Out \cup Ins |-> p]

Symmetry == Permutations(Workers)
=============================================================================
