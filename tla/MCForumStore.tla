---------------------------- MODULE MCForumStore ----------------------------
(* Instances of ForumStore for TLC: one author, who is on the first of two *)
(* nodes; a moderator on the second.                                       *)
EXTENDS ForumStore

CONSTANTS author, n1, n2, p1, p2

OneAuthor == [x \in Posts \cup Replies |-> author]

FirstPost == [r \in Replies |-> p1]

OneWay == {<<n2, n1>>}

OneHome == [a \in Authors |-> n1]
=============================================================================
