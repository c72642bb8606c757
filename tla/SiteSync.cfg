SPECIFICATION FairSpec
CONSTANTS
    n1 = n1
    author = author
    Nodes = {n1, n2}
    Authors = {author}
    Keys = {k1, k2}
    Owner <- OneOwner
    Home <- OneHome
    MaxPages = 1
    MaxNew = 1
    MaxAuthors = 1
    MaxResponse = 1
    MaxTime = 2
    Restarts = 1
CHECK_DEADLOCK FALSE
INVARIANTS
    AnnouncedKept
PROPERTIES
    Replicates
    
