----------------------------- MODULE ForumStore -----------------------------
(***************************************************************************)
(* The forum (internal/forum).  Topics, their replies and two kinds of     *)
(* deletion, by the author and by a moderator, travel over a gossip topic  *)
(* and in synchronisations with peers.  A deletion may come before its     *)
(* topic; topics expire.  The maps change under a lock; a topic's row is   *)
(* written under it, a deletion's transaction after it.                    *)
(***************************************************************************)
EXTENDS Naturals, FiniteSets

CONSTANTS
    Nodes, Authors, Posts, Replies,
    Author,        \* author of each post and reply
    On,            \* post that each reply answers
    Home,          \* node each author works on
    Moderators,    \* nodes whose user is a moderator
    Links,         \* bound: which node asks which
    Reached,       \* bound: nodes the topic reaches
    MaxDeletes,    \* rlMaxDeletes
    MaxResponse,   \* maxSyncPosts
    Signings,      \* bound: things users do
    Incidents      \* bound: restarts of nodes and expiries of posts

ASSUME ForumAssumption ==
    /\ Author \in [Posts \cup Replies -> Authors] /\ On \in [Replies -> Posts]
    /\ Home \in [Authors -> Nodes] /\ {Moderators, Reached} \subseteq SUBSET Nodes /\ Links \subseteq Nodes \X Nodes
    /\ IsFiniteSet(Posts) /\ IsFiniteSet(Replies) /\ Posts \cap Replies = {}
    /\ "nobody" \notin Nodes
    /\ {MaxDeletes, MaxResponse} \subseteq Nat \ {0} /\ {Signings, Incidents} \subseteq Nat

Roles == {"gossip", "sync", "serve", "user"}
Threads == Nodes \X Roles
Node(t) == t[1]
Role(t) == t[2]
Nobody == "nobody"

VARIABLES
    signed, net,          \* everything signed; what has been published
    expired,              \* posts older than postTTL
    posts, replies,       \* f.byID, f.replies
    deleted, pending,     \* f.deleted, f.pendingDeletes
    tally,                \* f.authorStats
    quota,                \* deletions of each kind granted within rlPostWindow
    postRow, replyRow, graveRow,      \* the tables
    cleaning,             \* nodes between the two halves of cleanup
    pc, work, doing,      \* each thread: where it is, what it has to handle, what it writes
    asks, serves,         \* a sync's peer and what it has; the client being served
    restarts

netVars == <<signed, net, expired>>
mapVars == <<posts, replies, deleted, pending, tally>>
rowVars == <<postRow, replyRow, graveRow>>
syncVars == <<asks, serves>>
vars == <<netVars, mapVars, quota, rowVars, cleaning, pc, work, doing, syncVars, restarts>>

Post(p) == [type |-> "post", id |-> p]
Reply(r) == [type |-> "reply", id |-> r]
Delete(p) == [type |-> "delete", id |-> p]
ModDelete(p) == [type |-> "mod_delete", id |-> p]

Buckets == Authors \cup {"mod"}
NoAsk == [peer |-> Nobody, have |-> {}]
Nothing == [type |-> "none"]
RepliesTo(S) == {r \in Replies : On[r] \in S}
Buried(n) == {m.id : m \in graveRow[n]}
Counted(P, R) == [a \in Authors |-> [posts |-> Cardinality({p \in P : Author[p] = a}),
                                     replies |-> Cardinality({r \in R : Author[r] = a})]]

Init ==
    /\ signed = {} /\ net = {} /\ expired = {} /\ restarts = 0 /\ cleaning = {}
    /\ posts = [n \in Nodes |-> {}] /\ replies = posts /\ deleted = posts /\ pending = posts
    /\ postRow = posts /\ replyRow = posts /\ graveRow = posts
    /\ tally = [n \in Nodes |-> Counted({}, {})]
    /\ quota = [n \in Nodes |-> [b \in Buckets |-> 0]]
    /\ pc = [t \in Threads |-> "idle"] /\ work = [t \in Threads |-> {}]
    /\ doing = [t \in Threads |-> Nothing]
    /\ asks = [n \in Nodes |-> NoAsk] /\ serves = [n \in Nodes |-> Nobody]

-----------------------------------------------------------------------------
(* Threads. *)

Goto(t, place) == pc' = [pc EXCEPT ![t] = place]

\* A list of work is handled posts first, then replies, then deletions.
Rank(m) == CASE m.type = "post" -> 1 [] m.type = "reply" -> 2 [] OTHER -> 3
At(t, m) == pc[t] = "handle" /\ m \in work[t] /\ \A o \in work[t] : Rank(m) <= Rank(o)

\* On to the next item.  A served peer then gets its answer.
Drop(t, m) ==
    /\ work' = [work EXCEPT ![t] = @ \ {m}]
    /\ Goto(t, IF work[t] # {m} THEN "handle" ELSE IF Role(t) = "serve" THEN "collect" ELSE "idle")

\* What the user wrote goes out; an own deletion has gone out before.
Done(t, m) ==
    IF Role(t) = "user" /\ m.type # "delete"
    THEN Goto(t, "announce") /\ UNCHANGED work
    ELSE Drop(t, m)

-----------------------------------------------------------------------------
(* The maps. *)

\* incrAuthorPost, incrAuthorReply: S are the posts and replies that come.
Credit(n, S) ==
    [tally EXCEPT ![n] = [a \in Authors |->
        [posts |-> @[a].posts + Cardinality({p \in S \cap Posts : Author[p] = a}),
         replies |-> @[a].replies + Cardinality({r \in S \cap Replies : Author[r] = a})]]]

Minus(i, j) == IF i > j THEN i - j ELSE 0

\* decrAuthorPost, decrAuthorReply.
Debit(n, S) ==
    [tally EXCEPT ![n] = [a \in Authors |->
        [posts |-> Minus(@[a].posts, Cardinality({p \in S \cap Posts : Author[p] = a})),
         replies |-> Minus(@[a].replies, Cardinality({r \in S \cap Replies : Author[r] = a}))]]]

\* Mutant of Remove: forgets the authors of the replies.
RemoveUncounted(n, S) ==
    /\ posts' = [posts EXCEPT ![n] = @ \ S]
    /\ replies' = [replies EXCEPT ![n] = @ \ RepliesTo(S)]
    /\ tally' = Debit(n, posts[n] \cap S)

\* removePostLocked, for the posts in S that the node has.
Remove(n, S) ==
    /\ posts' = [posts EXCEPT ![n] = @ \ S]
    /\ replies' = [replies EXCEPT ![n] = @ \ RepliesTo(S)]
    /\ tally' = Debit(n, (posts[n] \cap S) \cup (replies[n] \cap RepliesTo(S)))

-----------------------------------------------------------------------------
(* Receiving. *)

\* Run: the topic delivers anything that was ever published.
Deliver(n, m) ==
    LET t == <<n, "gossip">>
    IN  /\ pc[t] = "idle" /\ n \in Reached /\ m \in net
        /\ work' = [work EXCEPT ![t] = {m}]
        /\ Goto(t, "handle")
        /\ UNCHANGED <<netVars, mapVars, quota, rowVars, cleaning, doing, syncVars, restarts>>

\* Mutant of StorePost: does not look at the tombstones.
StorePostAnyway(t, m) ==
    LET n == Node(t)  p == m.id
    IN  /\ At(t, m) /\ m.type = "post"
        /\ posts' = [posts EXCEPT ![n] = @ \cup {p}]
        /\ postRow' = [postRow EXCEPT ![n] = @ \cup {p}]
        /\ tally' = Credit(n, {p} \ posts[n])
        /\ Done(t, m)
        /\ UNCHANGED <<netVars, replies, deleted, pending, quota, replyRow, graveRow,
                       cleaning, doing, syncVars, restarts>>

\* storePost: known, deleted, awaited by a deletion, or new.
StorePost(t, m) ==
    LET n == Node(t)  p == m.id
    IN  /\ At(t, m) /\ m.type = "post"
        /\ \/ /\ p \in posts[n] \cup deleted[n]
              /\ UNCHANGED <<posts, deleted, pending, tally, postRow, graveRow>>
           \/ /\ p \notin posts[n] \cup deleted[n] /\ p \in pending[n]
              /\ pending' = [pending EXCEPT ![n] = @ \ {p}]
              /\ deleted' = [deleted EXCEPT ![n] = @ \cup {p}]
              /\ graveRow' = [graveRow EXCEPT ![n] = @ \cup {Delete(p)}]
              /\ UNCHANGED <<posts, tally, postRow>>
           \/ /\ p \notin posts[n] \cup deleted[n] \cup pending[n]
              /\ posts' = [posts EXCEPT ![n] = @ \cup {p}]
              /\ postRow' = [postRow EXCEPT ![n] = @ \cup {p}]
              /\ tally' = Credit(n, {p})
              /\ UNCHANGED <<deleted, pending, graveRow>>
        /\ Done(t, m)
        /\ UNCHANGED <<netVars, replies, quota, replyRow, cleaning, doing, syncVars, restarts>>

\* storeReply: to a post that is there, once.
StoreReply(t, m) ==
    LET n == Node(t)  r == m.id
    IN  /\ At(t, m) /\ m.type = "reply"
        /\ IF On[r] \notin posts[n] \/ r \in replies[n]
           THEN UNCHANGED <<replies, tally, replyRow>>
           ELSE /\ replies' = [replies EXCEPT ![n] = @ \cup {r}]
                /\ replyRow' = [replyRow EXCEPT ![n] = @ \cup {r}]
                /\ tally' = Credit(n, {r})
        /\ Done(t, m)
        /\ UNCHANGED <<netVars, posts, deleted, pending, quota, postRow, graveRow,
                       cleaning, doing, syncVars, restarts>>

\* allowDelete.
Allowed(n, b) ==
    /\ quota[n][b] < MaxDeletes
    /\ quota' = [quota EXCEPT ![n][b] = @ + 1]

\* The bucket is full: the deletion is dropped.
DeleteRefused(t, m) ==
    LET n == Node(t)
    IN  /\ At(t, m)
        /\ \/ m.type = "delete" /\ Role(t) # "user" /\ quota[n][Author[m.id]] = MaxDeletes
           \/ m.type = "mod_delete" /\ m.id \notin deleted[n] /\ quota[n]["mod"] = MaxDeletes
        /\ Drop(t, m)
        /\ UNCHANGED <<netVars, mapVars, quota, rowVars, cleaning, doing, syncVars, restarts>>

\* applyDelete: a deletion without its post waits for it, even if it was applied
\* before; one's own deletion does not count.
ApplyDelete(t, m) ==
    LET n == Node(t)  p == m.id
    IN  /\ At(t, m) /\ m.type = "delete"
        /\ IF Role(t) = "user" THEN UNCHANGED quota ELSE Allowed(n, Author[p])
        /\ IF p \notin posts[n]
           THEN /\ pending' = [pending EXCEPT ![n] = @ \cup {p}]
                /\ Done(t, m)
                /\ UNCHANGED <<posts, replies, tally, deleted, doing>>
           ELSE /\ Remove(n, {p})
                /\ pending' = [pending EXCEPT ![n] = @ \ {p}]
                /\ deleted' = [deleted EXCEPT ![n] = @ \cup {p}]
                /\ doing' = [doing EXCEPT ![t] = m]
                /\ Goto(t, "transaction")
                /\ UNCHANGED work
        /\ UNCHANGED <<netVars, rowVars, cleaning, syncVars, restarts>>

\* applyModDelete: whether or not the post is there, once.
ApplyModDelete(t, m) ==
    LET n == Node(t)  p == m.id
    IN  /\ At(t, m) /\ m.type = "mod_delete"
        /\ IF p \in deleted[n]
           THEN /\ Done(t, m)
                /\ UNCHANGED <<posts, replies, tally, deleted, pending, quota, doing>>
           ELSE /\ Allowed(n, "mod")
                /\ Remove(n, {p})
                /\ pending' = [pending EXCEPT ![n] = @ \ {p}]
                /\ deleted' = [deleted EXCEPT ![n] = @ \cup {p}]
                /\ doing' = [doing EXCEPT ![t] = m]
                /\ Goto(t, IF p \in posts[n] THEN "transaction" ELSE "tombstone")
                /\ UNCHANGED work
        /\ UNCHANGED <<netVars, rowVars, cleaning, syncVars, restarts>>

Inscribe(n, m) ==
    graveRow' = [graveRow EXCEPT ![n] = IF m.id \in Buried(n) THEN @ ELSE @ \cup {m}]

\* Mutant of Transaction: the post's row stays.
TransactionKeepsPost(t) ==
    LET n == Node(t)  m == doing[t]
    IN  /\ pc[t] = "transaction"
        /\ replyRow' = [replyRow EXCEPT ![n] = @ \ RepliesTo({m.id})]
        /\ Inscribe(n, m)
        /\ doing' = [doing EXCEPT ![t] = Nothing]
        /\ Done(t, m)
        /\ UNCHANGED <<netVars, mapVars, quota, postRow, cleaning, syncVars, restarts>>

\* DeletePostWithTombstone.
Transaction(t) ==
    LET n == Node(t)  m == doing[t]
    IN  /\ pc[t] = "transaction"
        /\ postRow' = [postRow EXCEPT ![n] = @ \ {m.id}]
        /\ replyRow' = [replyRow EXCEPT ![n] = @ \ RepliesTo({m.id})]
        /\ Inscribe(n, m)
        /\ doing' = [doing EXCEPT ![t] = Nothing]
        /\ Done(t, m)
        /\ UNCHANGED <<netVars, mapVars, quota, cleaning, syncVars, restarts>>

\* InsertTombstone.
Tombstone(t) ==
    LET n == Node(t)  m == doing[t]
    IN  /\ pc[t] = "tombstone"
        /\ Inscribe(n, m)
        /\ doing' = [doing EXCEPT ![t] = Nothing]
        /\ Done(t, m)
        /\ UNCHANGED <<netVars, mapVars, quota, postRow, replyRow, cleaning, syncVars, restarts>>

-----------------------------------------------------------------------------
(* Users. *)

Begin(n, m, published) ==
    LET t == <<n, "user">>
    IN  /\ pc[t] = "idle" /\ m \notin signed /\ Cardinality(signed) < Signings
        /\ signed' = signed \cup {m}
        /\ net' = IF published THEN net \cup {m} ELSE net
        /\ work' = [work EXCEPT ![t] = {m}]
        /\ Goto(t, "handle")
        /\ UNCHANGED <<expired, mapVars, quota, rowVars, cleaning, doing, syncVars, restarts>>

CreatePost(p) == Begin(Home[Author[p]], Post(p), FALSE)

\* The user answers a post on the screen.
CreateReply(r) ==
    On[r] \in posts[Home[Author[r]]] /\ Begin(Home[Author[r]], Reply(r), FALSE)

\* DeleteOwnPost publishes first.
DeleteOwnPost(p) ==
    p \in posts[Home[Author[p]]] /\ Begin(Home[Author[p]], Delete(p), TRUE)

IssueModDelete(n, p) ==
    n \in Moderators /\ p \in posts[n] /\ Begin(n, ModDelete(p), FALSE)

Announce(n) ==
    LET t == <<n, "user">>
    IN  /\ pc[t] = "announce"
        /\ net' = net \cup work[t]
        /\ work' = [work EXCEPT ![t] = {}]
        /\ Goto(t, "idle")
        /\ UNCHANGED <<signed, expired, mapVars, quota, rowVars, cleaning, doing, syncVars, restarts>>

-----------------------------------------------------------------------------
(* Synchronisation. *)

\* SyncWithPeer: what the node has and, from the table, its tombstones; the peer's
\* handleSyncStream starts with them.  A change between the two reads only makes
\* the answer repeat something.
SyncAsk(n, p) ==
    LET t == <<n, "sync">>  s == <<p, "serve">>
    IN  /\ n # p /\ <<n, p>> \in Links /\ pc[t] = "idle" /\ pc[s] = "idle"
        /\ asks' = [asks EXCEPT ![n] = [peer |-> p, have |-> posts[n]]]
        /\ serves' = [serves EXCEPT ![p] = n]
        /\ work' = [work EXCEPT ![s] = graveRow[n]]
        /\ pc' = [pc EXCEPT ![t] = "asked", ![s] = IF graveRow[n] = {} THEN "collect" ELSE "handle"]
        /\ UNCHANGED <<netVars, mapVars, quota, rowVars, cleaning, doing, restarts>>

\* Mutant of Enough: stops before the limit is reached.
EnoughLess(S, all) ==
    S \subseteq all /\ Cardinality(S) < MaxResponse /\ (S = all \/ Cardinality(S) = MaxResponse - 1)

\* The posts of an answer: all that are missing, up to the limit.
Enough(S, all) ==
    S \subseteq all /\ Cardinality(S) <= MaxResponse /\ (S = all \/ Cardinality(S) = MaxResponse)

\* handleSyncStream collects posts and, of those posts only, the replies ...
Collect(p) ==
    LET s == <<p, "serve">>  n == serves[p]
    IN  /\ pc[s] = "collect"
        /\ IF n = Nobody
           THEN Goto(s, "idle") /\ UNCHANGED work
           ELSE \E S \in SUBSET posts[p] :
                    /\ Enough(S, posts[p] \ asks[n].have)
                    /\ work' = [work EXCEPT ![s] =
                          {Post(q) : q \in S} \cup {Reply(r) : r \in replies[p] \cap RepliesTo(S)}]
                    /\ Goto(s, "answer")
        /\ UNCHANGED <<netVars, mapVars, quota, rowVars, cleaning, doing, syncVars, restarts>>

\* ... and adds its tombstones.
Answer(p) ==
    LET s == <<p, "serve">>  n == serves[p]  all == work[s] \cup graveRow[p]
    IN  /\ pc[s] = "answer"
        /\ IF n = Nobody
           THEN /\ work' = [work EXCEPT ![s] = {}]
                /\ Goto(s, "idle")
                /\ UNCHANGED asks
           ELSE /\ work' = [work EXCEPT ![s] = {}, ![<<n, "sync">>] = all]
                /\ pc' = [pc EXCEPT ![s] = "idle",
                                    ![<<n, "sync">>] = IF all = {} THEN "idle" ELSE "handle"]
                /\ asks' = [asks EXCEPT ![n] = NoAsk]
        /\ serves' = [serves EXCEPT ![p] = Nobody]
        /\ UNCHANGED <<netVars, mapVars, quota, rowVars, cleaning, doing, restarts>>

\* The stream breaks or times out.
SyncFail(n) ==
    /\ pc[<<n, "sync">>] = "asked"
    /\ asks' = [asks EXCEPT ![n] = NoAsk]
    /\ serves' = [p \in Nodes |-> IF serves[p] = n THEN Nobody ELSE serves[p]]
    /\ Goto(<<n, "sync">>, "idle")
    /\ UNCHANGED <<netVars, mapVars, quota, rowVars, cleaning, work, doing, restarts>>

-----------------------------------------------------------------------------
(* Time and restarts. *)

Expire(p) ==
    /\ p \notin expired /\ Post(p) \in signed
    /\ restarts + Cardinality(expired) < Incidents
    /\ expired' = expired \cup {p}
    /\ UNCHANGED <<signed, net, mapVars, quota, rowVars, cleaning, pc, work, doing, syncVars, restarts>>

\* cleanup: first the table, by its own clock ...
CleanRows(n) ==
    /\ n \notin cleaning /\ postRow[n] \cap expired # {}
    /\ postRow' = [postRow EXCEPT ![n] = @ \ expired]
    /\ cleaning' = cleaning \cup {n}
    /\ UNCHANGED <<netVars, mapVars, quota, replyRow, graveRow, pc, work, doing, syncVars, restarts>>

\* ... then, if rows went, the maps.
CleanMaps(n) ==
    /\ n \in cleaning
    /\ Remove(n, expired)
    /\ cleaning' = cleaning \ {n}
    /\ UNCHANGED <<netVars, deleted, pending, quota, rowVars, pc, work, doing, syncVars, restarts>>

\* pendingDeleteTTL passes, and the next cleanup comes.
PendingExpires(n, p) ==
    /\ p \in pending[n]
    /\ pending' = [pending EXCEPT ![n] = @ \ {p}]
    /\ UNCHANGED <<netVars, posts, replies, deleted, tally, quota, rowVars, cleaning,
                   pc, work, doing, syncVars, restarts>>

\* rlPostWindow passes.
WindowPasses(n) ==
    /\ \E b \in Buckets : quota[n][b] # 0
    /\ quota' = [quota EXCEPT ![n] = [b \in Buckets |-> 0]]
    /\ UNCHANGED <<netVars, mapVars, rowVars, cleaning, pc, work, doing, syncVars, restarts>>

\* The process ends anywhere and starts again.  load takes what the tables hold,
\* but no expired post; the counters come from forum_rates.json, old or new.
Restart(n) ==
    /\ restarts + Cardinality(expired) < Incidents
    /\ restarts' = restarts + 1
    /\ posts' = [posts EXCEPT ![n] = postRow[n] \ expired]
    /\ replies' = [replies EXCEPT ![n] = replyRow[n]]
    /\ deleted' = [deleted EXCEPT ![n] = Buried(n)]
    /\ pending' = [pending EXCEPT ![n] = {}]
    /\ tally' = [tally EXCEPT ![n] = Counted(postRow[n] \ expired, replyRow[n])]
    /\ quota' \in {quota, [quota EXCEPT ![n] = [b \in Buckets |-> 0]]}
    /\ cleaning' = cleaning \ {n}
    \* Whoever was talking to the node sees the stream break.
    /\ pc' = [t \in Threads |->
                 IF Node(t) = n \/ (Role(t) = "sync" /\ asks[Node(t)].peer = n) THEN "idle" ELSE pc[t]]
    /\ work' = [t \in Threads |-> IF Node(t) = n THEN {} ELSE work[t]]
    /\ doing' = [t \in Threads |-> IF Node(t) = n THEN Nothing ELSE doing[t]]
    /\ asks' = [o \in Nodes |-> IF o = n \/ asks[o].peer = n THEN NoAsk ELSE asks[o]]
    /\ serves' = [o \in Nodes |-> IF o = n \/ serves[o] = n THEN Nobody ELSE serves[o]]
    /\ UNCHANGED <<netVars, rowVars>>

-----------------------------------------------------------------------------
Step(t) ==
    \/ \E m \in work[t] :
          \/ StorePost(t, m) \/ StoreReply(t, m)
          \/ ApplyDelete(t, m) \/ ApplyModDelete(t, m) \/ DeleteRefused(t, m)
    \/ Transaction(t) \/ Tombstone(t)

Next ==
    \/ \E n \in Nodes, m \in net : Deliver(n, m)
    \/ \E t \in Threads : Step(t)
    \/ \E p \in Posts : CreatePost(p) \/ DeleteOwnPost(p) \/ Expire(p)
    \/ \E r \in Replies : CreateReply(r)
    \/ \E n \in Nodes, p \in Posts : IssueModDelete(n, p) \/ PendingExpires(n, p)
    \/ \E n, p \in Nodes : SyncAsk(n, p)
    \/ \E n \in Nodes : Announce(n) \/ Collect(n) \/ Answer(n) \/ SyncFail(n)
    \/ \E n \in Nodes : CleanRows(n) \/ CleanMaps(n) \/ WindowPasses(n) \/ Restart(n)

Spec == Init /\ [][Next]_vars

\* Threads are scheduled, cleanup and the window come again and again, and
\* internal/peersync syncs each node with each peer again and again, not always
\* in vain.
Fairness ==
    /\ \A t \in Threads : WF_vars(Step(t))
    /\ \A n \in Nodes : WF_vars(CleanRows(n)) /\ WF_vars(CleanMaps(n)) /\ WF_vars(WindowPasses(n))
    /\ \A n, p \in Nodes : n # p /\ <<n, p>> \in Links => []<><<Answer(p) /\ serves[p] = n>>_vars

FairSpec == Spec /\ Fairness

-----------------------------------------------------------------------------
(* Properties. *)

Deletions == {Delete(p) : p \in Posts} \cup {ModDelete(p) : p \in Posts}
Items == {Post(p) : p \in Posts} \cup {Reply(r) : r \in Replies} \cup Deletions

Places == {"idle", "asked", "handle", "transaction", "tombstone", "announce", "collect", "answer"}

TypeOK ==
    /\ signed \subseteq Items /\ net \subseteq signed /\ expired \subseteq Posts
    /\ {posts, deleted, pending, postRow} \subseteq [Nodes -> SUBSET Posts]
    /\ {replies, replyRow} \subseteq [Nodes -> SUBSET Replies]
    /\ graveRow \in [Nodes -> SUBSET (signed \cap Deletions)]
    /\ tally \in [Nodes -> [Authors -> [posts : Nat, replies : Nat]]]
    /\ quota \in [Nodes -> [Buckets -> 0..MaxDeletes]]
    /\ cleaning \subseteq Nodes /\ restarts \in 0..Incidents
    /\ pc \in [Threads -> Places] /\ work \in [Threads -> SUBSET signed]
    /\ doing \in [Threads -> (signed \cap Deletions) \cup {Nothing}]
    /\ \A t \in Threads : doing[t] \in work[t] \cup {Nothing}
    /\ \A t \in Threads : pc[t] \in {"handle", "announce"} => work[t] # {}
    /\ \A t \in Threads : pc[t] \in {"transaction", "tombstone"} <=> doing[t] # Nothing
    /\ asks \in [Nodes -> [peer : Nodes \cup {Nobody}, have : SUBSET Posts]]
    /\ serves \in [Nodes -> Nodes \cup {Nobody}]

\* AuthorStats: the counters kept by every way a post or reply comes and goes
\* never drift from what the node holds.
StatsExact == \A n \in Nodes : tally[n] = Counted(posts[n], replies[n])

Settled(n) ==
    n \notin cleaning /\ \A t \in Threads : Node(t) = n => pc[t] \notin {"transaction", "tombstone"}

\* With no write under way the tables say what the maps say: a restart loses
\* nothing and brings nothing back.  Expired posts wait for cleanup.  (With the
\* variables' types, which the run checks here.)
TablesMatch ==
    /\ TypeOK
    /\ \A n \in Nodes : Settled(n) =>
           LET live == posts[n] \ expired
           IN  /\ live = postRow[n] \ expired
               /\ replies[n] \cap RepliesTo(live) = replyRow[n] \cap RepliesTo(live)
               /\ deleted[n] = Buried(n)

\* The abstract store: a post is unknown, there, or deleted.
Gone == 2
held == [n \in Nodes |-> [p \in Posts |->
            IF p \in posts[n] THEN 1 ELSE IF p \in deleted[n] THEN Gone ELSE 0]]
levels == [p \in Posts |-> (IF Post(p) \in signed THEN {1} ELSE {})
                           \cup (IF {Delete(p), ModDelete(p)} \cap signed # {} THEN {Gone} ELSE {})]

Abstract == INSTANCE NewestWins WITH Keys <- Posts, signed <- levels

Forgetting == restarts' # restarts \/ \E n \in Nodes : n \in cleaning \ cleaning'

\* Gossip, syncs in both directions and users together are newest-wins
\* replication: no replay, late post or early deletion brings back a deleted post
\* on a running node, and nothing is deleted that nobody signed away.
Replicates == Abstract!Init /\ [][Abstract!Next \/ Forgetting]_<<levels, held>>

\* Once users have stopped, all nodes show the same unexpired posts, although
\* the topic may lose everything and deletions may overtake their posts.
Converges == <>[](\A n, p \in Nodes : posts[n] \ expired = posts[p] \ expired)
=============================================================================
