------------------------------ MODULE SitePages ------------------------------
(***************************************************************************)
(* Personal-site pages (internal/site).  Authors publish, edit and delete  *)
(* pages; signed pages and tombstones travel over a gossip topic that may  *)
(* lose, repeat and reorder them, and nodes that missed some get them from *)
(* a peer over a synchronisation stream.  On each node the topic's         *)
(* handler, a sync and the user work side by side; every one of them       *)
(* changes the maps under a lock and the database after it.                *)
(***************************************************************************)
EXTENDS Integers, FiniteSets, Sequences

CONSTANTS
    Nodes, Authors,
    Keys,          \* pages: an author and a slug
    Owner,         \* author of each page
    Home,          \* node each author works on
    MaxPages,      \* MaxPagesPerAuthor
    MaxNew,        \* maxNewAuthorsPerHour
    MaxAuthors,    \* maxStoredAuthors
    MaxResponse,   \* maxSyncPages
    MaxTime,       \* bound: pages and tombstones signed
    Restarts       \* bound: restarts of nodes

ASSUME SiteAssumption ==
    /\ Owner \in [Keys -> Authors] /\ Home \in [Authors -> Nodes]
    /\ IsFiniteSet(Keys) /\ IsFiniteSet(Authors)
    /\ {MaxPages, MaxNew, MaxAuthors, MaxResponse, MaxTime} \subseteq Nat \ {0}
    /\ Restarts \in Nat

Roles == {"gossip", "sync", "user"}
Threads == Nodes \X Roles
Node(t) == t[1]
Role(t) == t[2]

VARIABLES
    time,         \* pages and tombstones signed so far: the next UpdatedAt
    signed,       \* everything signed
    net,          \* what has been published on the topic
    page,         \* s.pages: UpdatedAt of the page each node holds, 0 for none
    grave,        \* s.deleted: DeletedAt of its tombstone, 0 for none
    pageRow, graveRow,   \* the tables site_pages and site_tombstones
    recent,       \* s.lastEdit: pages accepted less than minPageEditInterval ago
    newcomers,    \* s.newAuthorTimes: authors first accepted within the hour
    pc, jobs,     \* each thread: where it is and what it has still to handle
    asked,        \* a sync's request: the peer and what the node knew
    restarts

mapVars == <<page, grave, recent, newcomers>>
rowVars == <<pageRow, graveRow>>
netVars == <<time, signed, net>>
vars == <<netVars, mapVars, rowVars, pc, jobs, asked, restarts>>

Page(k, at) == [type |-> "page", key |-> k, at |-> at]
Delete(k, at) == [type |-> "delete", key |-> k, at |-> at]

Nothing == [k \in Keys |-> 0]
NoRequest == [peer |-> "none", page |-> Nothing, grave |-> Nothing]

PagesOf(n, a) == {k \in Keys : Owner[k] = a /\ page[n][k] # 0}
Known(n) == {a \in Authors : PagesOf(n, a) # {}}

Init ==
    /\ time = 0 /\ signed = {} /\ net = {} /\ restarts = 0
    /\ page = [n \in Nodes |-> Nothing] /\ grave = [n \in Nodes |-> Nothing]
    /\ pageRow = page /\ graveRow = grave
    /\ recent = [n \in Nodes |-> {}]
    /\ newcomers = [n \in Nodes |-> 0]
    /\ pc = [t \in Threads |-> "idle"]
    /\ jobs = [t \in Threads |-> <<>>]
    /\ asked = [n \in Nodes |-> NoRequest]

-----------------------------------------------------------------------------
(* Threads. *)

Goto(t, place) == pc' = [pc EXCEPT ![t] = place]

\* The job at hand is over.  What the user published goes out on the topic.
Finished(t) ==
    IF Role(t) = "user"
    THEN Goto(t, "announce") /\ UNCHANGED jobs
    ELSE /\ jobs' = [jobs EXCEPT ![t] = Tail(@)]
         /\ Goto(t, IF Len(jobs[t]) = 1 THEN "idle" ELSE "handle")

Job(t) == Head(jobs[t])

-----------------------------------------------------------------------------
(* Receiving. *)

\* Run: the topic delivers anything that was ever published.
Deliver(n, m) ==
    LET t == <<n, "gossip">>
    IN  /\ pc[t] = "idle" /\ m \in net
        /\ jobs' = [jobs EXCEPT ![t] = <<m>>]
        /\ Goto(t, "handle")
        /\ UNCHANGED <<netVars, mapVars, rowVars, asked, restarts>>

\* handlePage's refusals; sync is exempt from the pause between edits only.
Refused(t, m) ==
    LET n == Node(t)  k == m.key  a == Owner[m.key]
    IN  \/ grave[n][k] # 0
        \/ page[n][k] # 0 /\ m.at <= page[n][k]
        \/ Role(t) = "gossip" /\ k \in recent[n]
        \/ a \in Known(n) /\ page[n][k] = 0 /\ Cardinality(PagesOf(n, a)) >= MaxPages
        \/ a \notin Known(n) /\ (newcomers[n] >= MaxNew \/ Cardinality(Known(n)) >= MaxAuthors)

\* handlePage up to its Unlock; persist takes the lock again.
HandlePage(t) ==
    LET n == Node(t)  m == Job(t)
    IN  /\ pc[t] = "handle" /\ m.type = "page"
        /\ IF Refused(t, m)
           THEN Finished(t) /\ UNCHANGED <<recent, newcomers>>
           ELSE /\ recent' = [recent EXCEPT ![n] = @ \cup {m.key}]
                /\ newcomers' = IF Owner[m.key] \in Known(n) THEN newcomers
                                ELSE [newcomers EXCEPT ![n] = @ + 1]
                /\ Goto(t, "persist")
                /\ UNCHANGED jobs
        /\ UNCHANGED <<netVars, page, grave, rowVars, asked, restarts>>

\* Mutant of Persist: looks again for a tombstone but not for a newer version.
PersistAnyVersion(t) ==
    LET n == Node(t)  m == Job(t)
    IN  /\ pc[t] = "persist"
        /\ IF grave[n][m.key] # 0
           THEN Finished(t) /\ UNCHANGED page
           ELSE /\ page' = [page EXCEPT ![n][m.key] = m.at]
                /\ Goto(t, "upsert")
                /\ UNCHANGED jobs
        /\ UNCHANGED <<netVars, grave, recent, newcomers, rowVars, asked, restarts>>

\* persist: newest wins, unless a tombstone has come meanwhile.
Persist(t) ==
    LET n == Node(t)  m == Job(t)
    IN  /\ pc[t] = "persist"
        /\ IF grave[n][m.key] # 0 \/ (page[n][m.key] # 0 /\ m.at <= page[n][m.key])
           THEN Finished(t) /\ UNCHANGED page
           ELSE /\ page' = [page EXCEPT ![n][m.key] = m.at]
                /\ Goto(t, "upsert")
                /\ UNCHANGED jobs
        /\ UNCHANGED <<netVars, grave, recent, newcomers, rowVars, asked, restarts>>

\* Mutant of Upsert: the row is left as it is.
UpsertNothing(t) ==
    /\ pc[t] = "upsert"
    /\ Finished(t)
    /\ UNCHANGED <<netVars, mapVars, rowVars, asked, restarts>>

\* UpsertSitePage, after the lock.
Upsert(t) ==
    /\ pc[t] = "upsert"
    /\ pageRow' = [pageRow EXCEPT ![Node(t)][Job(t).key] = Job(t).at]
    /\ Finished(t)
    /\ UNCHANGED <<netVars, mapVars, graveRow, asked, restarts>>

\* applyDelete: the newest tombstone stays, the page goes.
ApplyDelete(t) ==
    LET n == Node(t)  m == Job(t)
    IN  /\ pc[t] = "handle" /\ m.type = "delete"
        /\ IF grave[n][m.key] # 0 /\ m.at <= grave[n][m.key]
           THEN Finished(t) /\ UNCHANGED <<page, grave>>
           ELSE /\ grave' = [grave EXCEPT ![n][m.key] = m.at]
                /\ page' = [page EXCEPT ![n][m.key] = 0]
                /\ Goto(t, "bury")
                /\ UNCHANGED jobs
        /\ UNCHANGED <<netVars, recent, newcomers, rowVars, asked, restarts>>

\* DeleteSitePageWithTombstone: both tables in one transaction.
Bury(t) ==
    LET n == Node(t)  k == Job(t).key
    IN  /\ pc[t] = "bury"
        /\ pageRow' = [pageRow EXCEPT ![n][k] = 0]
        /\ graveRow' = [graveRow EXCEPT ![n][k] = Job(t).at]
        /\ Finished(t)
        /\ UNCHANGED <<netVars, mapVars, asked, restarts>>

-----------------------------------------------------------------------------
(* The user. *)

Begin(t, m, place) ==
    /\ pc[t] = "idle" /\ time < MaxTime
    /\ time' = time + 1
    /\ signed' = signed \cup {m}
    /\ jobs' = [jobs EXCEPT ![t] = <<m>>]
    /\ Goto(t, place)
    /\ UNCHANGED <<net, mapVars, rowVars, asked, restarts>>

\* PublishPage: not over a tombstone, not past the limit of pages.
Publish(k) ==
    LET n == Home[Owner[k]]
    IN  /\ grave[n][k] = 0
        /\ page[n][k] # 0 \/ Cardinality(PagesOf(n, Owner[k])) < MaxPages
        /\ Begin(<<n, "user">>, Page(k, time + 1), "persist")

DeletePage(k) ==
    LET n == Home[Owner[k]]
    IN  /\ page[n][k] # 0
        /\ Begin(<<n, "user">>, Delete(k, time + 1), "handle")

Announce(n) ==
    LET t == <<n, "user">>
    IN  /\ pc[t] = "announce"
        /\ net' = net \cup {Job(t)}
        /\ jobs' = [jobs EXCEPT ![t] = <<>>]
        /\ Goto(t, "idle")
        /\ UNCHANGED <<time, signed, mapVars, rowVars, asked, restarts>>

-----------------------------------------------------------------------------
(* Synchronisation with a peer. *)

\* SyncWithPeer: the request says what the node knows.
SyncAsk(n, p) ==
    LET t == <<n, "sync">>
    IN  /\ pc[t] = "idle" /\ n # p
        /\ asked' = [asked EXCEPT ![n] = [peer |-> p, page |-> page[n], grave |-> grave[n]]]
        /\ Goto(t, "asked")
        /\ UNCHANGED <<netVars, mapVars, rowVars, jobs, restarts>>

\* Mutant of Missing: knows slugs, not versions.
MissingSlugs(p, req) == {k \in Keys : page[p][k] # 0 /\ req.page[k] = 0}

\* syncResponseFor: pages the requester lacks or holds in an older version ...
Missing(p, req) == {k \in Keys : page[p][k] > req.page[k]}

\* ... and every tombstone it does not know.
Buried(p, req) == {k \in Keys : grave[p][k] # 0 /\ req.grave[k] = 0}

Orders(S) == {s \in [1..Cardinality(S) -> S] : \A i, j \in DOMAIN s : i # j => s[i] # s[j]}

\* The answer: pages first, at most MaxResponse of them, then tombstones, each
\* in the order of a map's iteration.
SyncAnswer(n) ==
    LET t == <<n, "sync">>
        p == asked[n].peer
        pages == {Page(k, page[p][k]) : k \in Missing(p, asked[n])}
        graves == {Delete(k, grave[p][k]) : k \in Buried(p, asked[n])}
    IN  /\ pc[t] = "asked"
        /\ \E sent \in SUBSET pages :
            /\ Cardinality(sent) = (IF Cardinality(pages) < MaxResponse
                                    THEN Cardinality(pages) ELSE MaxResponse)
            /\ \E s \in Orders(sent), g \in Orders(graves) :
                /\ jobs' = [jobs EXCEPT ![t] = s \o g]
                /\ Goto(t, IF s \o g = <<>> THEN "idle" ELSE "handle")
        /\ asked' = [asked EXCEPT ![n] = NoRequest]
        /\ UNCHANGED <<netVars, mapVars, rowVars, restarts>>

\* The stream breaks or times out.
SyncFail(n) ==
    /\ pc[<<n, "sync">>] = "asked"
    /\ asked' = [asked EXCEPT ![n] = NoRequest]
    /\ Goto(<<n, "sync">>, "idle")
    /\ UNCHANGED <<netVars, mapVars, rowVars, jobs, restarts>>

-----------------------------------------------------------------------------
(* Time and restarts. *)

\* minPageEditInterval passes, or the hour.
TimePasses(n) ==
    /\ recent[n] # {} \/ newcomers[n] # 0
    /\ recent' = [recent EXCEPT ![n] = {}]
    /\ newcomers' \in {newcomers, [newcomers EXCEPT ![n] = 0]}
    /\ UNCHANGED <<netVars, page, grave, rowVars, pc, jobs, asked, restarts>>

\* The process ends, wherever its threads are, and starts again: load reads
\* both tables.
Restart(n) ==
    /\ restarts < Restarts
    /\ restarts' = restarts + 1
    /\ page' = [page EXCEPT ![n] = pageRow[n]]
    /\ grave' = [grave EXCEPT ![n] = graveRow[n]]
    /\ recent' = [recent EXCEPT ![n] = {}]
    /\ newcomers' = [newcomers EXCEPT ![n] = 0]
    /\ pc' = [t \in Threads |-> IF Node(t) = n THEN "idle" ELSE pc[t]]
    /\ jobs' = [t \in Threads |-> IF Node(t) = n THEN <<>> ELSE jobs[t]]
    /\ asked' = [asked EXCEPT ![n] = NoRequest]
    /\ UNCHANGED <<netVars, rowVars>>

-----------------------------------------------------------------------------
Step(t) ==
    \/ HandlePage(t)
    \/ Persist(t)
    \/ Upsert(t)
    \/ ApplyDelete(t)
    \/ Bury(t)

Next ==
    \/ \E n \in Nodes, m \in net : Deliver(n, m)
    \/ \E t \in Threads : Step(t)
    \/ \E k \in Keys : Publish(k) \/ DeletePage(k)
    \/ \E n \in Nodes : Announce(n) \/ SyncAnswer(n) \/ SyncFail(n)
    \/ \E n, p \in Nodes : SyncAsk(n, p)
    \/ \E n \in Nodes : TimePasses(n) \/ Restart(n)

Spec == Init /\ [][Next]_vars

\* Handlers are scheduled and time passes; internal/peersync syncs a node with
\* each of its peers again and again, and not every attempt fails.
Fairness ==
    /\ \A t \in Threads : WF_vars(Step(t))
    /\ \A n \in Nodes : WF_vars(TimePasses(n)) /\ SF_vars(SyncAnswer(n))
    /\ \A n, p \in Nodes : SF_vars(SyncAsk(n, p))

FairSpec == Spec /\ Fairness

-----------------------------------------------------------------------------
(* Properties. *)

Versions == [Nodes -> [Keys -> 0..MaxTime]]
Items == [type : {"page", "delete"}, key : Keys, at : 1..MaxTime]

TypeOK ==
    /\ time \in 0..MaxTime /\ signed \subseteq Items /\ net \subseteq signed
    /\ page \in Versions /\ grave \in Versions
    /\ pageRow \in Versions /\ graveRow \in Versions
    /\ recent \in [Nodes -> SUBSET Keys] /\ newcomers \in [Nodes -> 0..MaxNew]
    /\ pc \in [Threads -> {"idle", "asked", "handle", "persist", "upsert", "bury", "announce"}]
    /\ \A t \in Threads : \A i \in DOMAIN jobs[t] : jobs[t][i] \in signed
    /\ \A t \in Threads : pc[t] \notin {"idle", "asked"} => jobs[t] # <<>>
    /\ restarts \in 0..Restarts

Restarting == restarts' # restarts

\* While a node runs, no order of a late page, its tombstone and the checks made
\* under one lock and used under the next brings a deleted page back.
NotBroughtBack ==
    [][\A n \in Nodes, k \in Keys :
         grave[n][k] # 0 /\ page[n][k] = 0 /\ ~Restarting => page'[n][k] = 0]_vars

\* A node never shows a page it knows to be deleted, restarts included.
DeletedStaysDeleted == \A n \in Nodes, k \in Keys : grave[n][k] # 0 => page[n][k] = 0

\* The abstract store: a tombstone is above every version.
Gone == MaxTime + 1

Level(m) == IF m.type = "delete" THEN Gone ELSE m.at

held == [n \in Nodes |-> [k \in Keys |-> IF grave[n][k] # 0 THEN Gone ELSE page[n][k]]]
levels == [k \in Keys |-> {Level(m) : m \in {s \in signed : s.key = k}}]

\* What an author has announced, the author's node keeps: a deletion however often
\* nodes crash, at any point; a version through the first crash.  (A version that
\* was in memory only comes back from a peer after a crash, and its row, written
\* outside the lock, can follow the row of the newer version announced meanwhile:
\* the next start loads the old one.)
AnnouncedKept ==
    \A m \in net :
        m.type = "delete" \/ restarts <= 1 => held[Home[Owner[m.key]]][m.key] >= Level(m)

Abstract == INSTANCE NewestWins WITH signed <- levels

\* What gossip, syncs and the user do to the copies, interleaved in any way, is
\* newest-wins replication: no step but a restart takes a copy back to an older
\* version or from deletion, and no copy holds what its author did not sign.
Replicates == Abstract!Init /\ [][Abstract!Next \/ Restarting]_<<levels, held>>

\* Among them the nodes hold more pages of an author than the limit allows: the
\* author's node lost a page in a crash after a peer had it, and signed another.
Overfull ==
    \E a \in Authors :
        Cardinality({k \in Keys : Owner[k] = a /\ \E n \in Nodes : page[n][k] # 0}) > MaxPages

\* Once authors have stopped, every node ends with the same copies, although the
\* topic may lose everything: syncs carry edits and deletions too.  Only an author
\* above the limit keeps pages that others go on refusing.
Converges == <>[](Overfull \/ \A n, p \in Nodes : held[n] = held[p])
=============================================================================
