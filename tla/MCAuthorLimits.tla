--------------------------- MODULE MCAuthorLimits ---------------------------
EXTENDS AuthorLimits

MCRule == [k \in Kinds |->
    IF k = "message"
    THEN [max |-> 2, newMax |-> 1, cooldown |-> 1, global |-> 2, text |-> TRUE]
    ELSE [max |-> 2, newMax |-> 2, cooldown |-> 0, global |-> 1, text |-> FALSE]]
=============================================================================
