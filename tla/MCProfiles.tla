---------------------------- MODULE MCProfiles ----------------------------
(* Instance of Profiles for TLC: a node whose user edits, and an author     *)
(* elsewhere.                                                               *)
EXTENDS Profiles

CONSTANTS n1, k1, other

MCKey == [n \in Nodes |-> k1]
=============================================================================
