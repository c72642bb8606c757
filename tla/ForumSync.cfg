SPECIFICATION FairSpec
CONSTANTS
    n1 = n1
    n2 = n2
    author = author
    p1 = p1
    p2 = p2
    r1 = r1
    Nodes = {n1, n2}
    Authors = {author}
    Posts = {p1}
    Replies = {r1}
    Author <- OneAuthor
    On <- FirstPost
    Home <- OneHome
    Moderators = {n2}
    Links <- OneWay
    Reached = {n2}
    MaxDeletes = 1
    MaxResponse = 1
    Signings = 3
    Incidents = 1
CHECK_DEADLOCK FALSE
INVARIANTS
    StatsExact
    TablesMatch
PROPERTIES
    Replicates
    
