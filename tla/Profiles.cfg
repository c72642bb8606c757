SPECIFICATION ProfileSpec
CONSTANTS
    n1 = n1
    k1 = k1
    other = other
    Nodes = {n1}
    Authors = {k1, other}
    Key <- MCKey
    Editors = {n1}
    Savers = {s1}
    Fields = {"bio", "status"}
    Texts = {"empty", "t"}
    Names = {"g"}
    MaxNew = 1
    MaxStored = 2
    MaxSigned = 3
    Restarts = 1
INVARIANTS OwnKept
PROPERTIES NewestKept
CHECK_DEADLOCK FALSE
