---------------------------- MODULE MCSitePages ----------------------------
(* Instances of SitePages for TLC: one author, two pages, two nodes.  *)
EXTENDS SitePages

CONSTANTS author, n1

OneOwner == [k \in Keys |-> author]

OneHome == [a \in Authors |-> n1]
=============================================================================
