----------------------------- MODULE ForumProofs -----------------------------
(***************************************************************************)
(* Proofs about the forum, for any nodes, users, topics and replies: the   *)
(* author counters never drift, the tables hold what the maps hold as soon *)
(* as no transaction is under way, and the maps of all nodes together are  *)
(* newest-wins replication.                                                *)
(*                                                                         *)
(* The inductive invariant says how far the tables of a node may lag:      *)
(* behind the deletions that some goroutine is about to write, and about   *)
(* expired topics.                                                         *)
(***************************************************************************)
EXTENDS ForumStore, FiniteSetTheorems, TLAPS

\* The goroutines of n between their change of the maps and their transaction.
Writers(n) == {t \in Threads : Node(t) = n /\ pc[t] \in {"transaction", "tombstone"}}
Erasers(n) == {t \in Threads : Node(t) = n /\ pc[t] = "transaction"}

\* The posts they write about, and those whose rows they take away.
Written(n) == {doing[t].id : t \in Writers(n)}
Erased(n) == {doing[t].id : t \in Erasers(n)}

\* What a node holds or awaits was signed by its author.
Authentic ==
    \A n \in Nodes :
        /\ \A p \in pending[n] : Delete(p) \in signed
        /\ \A p \in posts[n] \cup postRow[n] : Post(p) \in signed
        /\ \A r \in replies[n] \cup replyRow[n] : Reply(r) \in signed

\* No two goroutines of a node write about one post.
OneWriter ==
    \A t, u \in Threads :
        Node(t) = Node(u) /\ {pc[t], pc[u]} \subseteq {"transaction", "tombstone"}
            => (doing[t].id = doing[u].id => t = u)

\* Posts: the maps and the tables of one node.
PostsLag(n) ==
    /\ posts[n] \cap deleted[n] = {}
    /\ deleted[n] = Buried(n) \cup Written(n)
    /\ posts[n] \subseteq postRow[n] \cup expired
    /\ postRow[n] \subseteq posts[n] \cup Erased(n) \cup expired
    /\ postRow[n] \cap Buried(n) \subseteq expired

\* Replies: the same.
RepliesLag(n) ==
    /\ replies[n] \subseteq replyRow[n]
    /\ replyRow[n] \subseteq replies[n] \cup RepliesTo(Erased(n) \cup expired)
    /\ replies[n] \subseteq RepliesTo(posts[n] \cup expired)
    /\ replyRow[n] \subseteq RepliesTo(postRow[n] \cup expired)
    /\ replies[n] \cap RepliesTo(Written(n)) = {}

\* Whoever asks waits for its peer, and a peer answers only whoever waits for it.
Sessions ==
    \A n \in Nodes :
        /\ asks[n].peer # Nobody => pc[<<n, "sync">>] = "asked"
        /\ serves[n] # Nobody => asks[serves[n]].peer = n

\* The inductive invariant.
ForumInv ==
    /\ TypeOK /\ StatsExact
    /\ Sessions /\ Authentic /\ OneWriter
    /\ \A n \in Nodes : PostsLag(n) /\ RepliesLag(n)
-----------------------------------------------------------------------------
(* Counting.                                                                *)

By(S, a) == {x \in S : Author[x] = a}

LEMMA CountMore ==
    ASSUME NEW P, NEW Q, IsFiniteSet(P), IsFiniteSet(Q), P \cap Q = {}, NEW a
    PROVE  /\ Cardinality(By(P \cup Q, a)) = Cardinality(By(P, a)) + Cardinality(By(Q, a))
           /\ Cardinality(By(P, a)) \in Nat /\ Cardinality(By(Q, a)) \in Nat
<1>1. By(P \cup Q, a) = By(P, a) \cup By(Q, a) /\ By(P, a) \cap By(Q, a) = {}
  BY DEF By
<1>2. IsFiniteSet(By(P, a)) /\ IsFiniteSet(By(Q, a))
  <2>1. By(P, a) \in SUBSET P /\ By(Q, a) \in SUBSET Q
    BY DEF By
  <2> QED
    BY <2>1, FS_Subset
<1>3. Cardinality(By(P, a)) \in Nat /\ Cardinality(By(Q, a)) \in Nat
  BY <1>2, FS_CardinalityType
<1>4. Cardinality(By(P, a) \cup By(Q, a))
          = Cardinality(By(P, a)) + Cardinality(By(Q, a)) - Cardinality(By(P, a) \cap By(Q, a))
  BY <1>2, FS_Union
<1>5. Cardinality(By(P, a) \cap By(Q, a)) = 0
  BY <1>1, FS_EmptySet
<1>6. Cardinality(By(P, a) \cup By(Q, a)) = Cardinality(By(P, a)) + Cardinality(By(Q, a))
  BY <1>3, <1>4, <1>5
<1> QED
  BY <1>1, <1>3, <1>6

LEMMA CountLess ==
    ASSUME NEW P, NEW Q \in SUBSET P, IsFiniteSet(P), NEW a
    PROVE  Minus(Cardinality(By(P, a)), Cardinality(By(Q, a))) = Cardinality(By(P \ Q, a))
<1>1. IsFiniteSet(Q) /\ IsFiniteSet(P \ Q) /\ (P \ Q) \cup Q = P /\ (P \ Q) \cap Q = {}
  BY FS_Subset, FS_Difference
<1>2. /\ Cardinality(By((P \ Q) \cup Q, a)) = Cardinality(By(P \ Q, a)) + Cardinality(By(Q, a))
      /\ Cardinality(By(P \ Q, a)) \in Nat /\ Cardinality(By(Q, a)) \in Nat
  BY <1>1, CountMore
<1> QED
  BY <1>1, <1>2 DEF Minus

LEMMA Finite ==
    ASSUME NEW P \in SUBSET Posts, NEW R \in SUBSET Replies
    PROVE  IsFiniteSet(P) /\ IsFiniteSet(R)
  BY ForumAssumption, FS_Subset

LEMMA CountedIs ==
    ASSUME NEW P, NEW R
    PROVE  Counted(P, R) = [a \in Authors |-> [posts |-> Cardinality(By(P, a)),
                                               replies |-> Cardinality(By(R, a))]]
  BY DEF Counted, By

LEMMA CountedTyped ==
    ASSUME NEW P \in SUBSET Posts, NEW R \in SUBSET Replies
    PROVE  Counted(P, R) \in [Authors -> [posts : Nat, replies : Nat]]
<1>1. \A a : Cardinality(By(P, a)) \in Nat /\ Cardinality(By(R, a)) \in Nat
  BY Finite, CountMore, FS_EmptySet
<1> QED
  BY <1>1, CountedIs

\* incrAuthorPost and incrAuthorReply keep the counters exact ...
LEMMA CreditExact ==
    ASSUME NEW n \in Nodes, tally \in [Nodes -> [Authors -> [posts : Nat, replies : Nat]]],
           NEW P \in SUBSET Posts, NEW R \in SUBSET Replies, tally[n] = Counted(P, R),
           NEW S, S \cap P = {}, S \cap R = {}
    PROVE  /\ Credit(n, S)[n] = Counted(P \cup (S \cap Posts), R \cup (S \cap Replies))
           /\ \A o \in Nodes : o # n => Credit(n, S)[o] = tally[o]
           /\ Credit(n, S) \in [Nodes -> [Authors -> [posts : Nat, replies : Nat]]]
<1> DEFINE SP == S \cap Posts
           SR == S \cap Replies
<1>1. SP \in SUBSET Posts /\ SR \in SUBSET Replies /\ P \cap SP = {} /\ R \cap SR = {}
  OBVIOUS
<1>2. IsFiniteSet(P) /\ IsFiniteSet(R) /\ IsFiniteSet(SP) /\ IsFiniteSet(SR)
  <2> HIDE DEF SP, SR
  <2> QED
    BY <1>1, Finite
<1>3. Credit(n, S) = [tally EXCEPT ![n] = [a \in Authors |->
          [posts |-> @[a].posts + Cardinality(By(SP, a)),
           replies |-> @[a].replies + Cardinality(By(SR, a))]]]
  BY DEF Credit, By
<1> HIDE DEF SP, SR
<1>4. \A a : /\ Cardinality(By(P \cup SP, a)) = Cardinality(By(P, a)) + Cardinality(By(SP, a))
             /\ Cardinality(By(R \cup SR, a)) = Cardinality(By(R, a)) + Cardinality(By(SR, a))
  BY <1>1, <1>2, CountMore
<1>5. Credit(n, S)[n] = [a \in Authors |-> [posts |-> Cardinality(By(P \cup SP, a)),
                                            replies |-> Cardinality(By(R \cup SR, a))]]
  <2>1. Credit(n, S)[n] = [a \in Authors |->
          [posts |-> tally[n][a].posts + Cardinality(By(SP, a)),
           replies |-> tally[n][a].replies + Cardinality(By(SR, a))]]
    BY <1>3
  <2>2. \A a \in Authors : /\ tally[n][a].posts = Cardinality(By(P, a))
                           /\ tally[n][a].replies = Cardinality(By(R, a))
    BY CountedIs
  <2>3. \A a \in Authors :
          /\ tally[n][a].posts + Cardinality(By(SP, a)) = Cardinality(By(P \cup SP, a))
          /\ tally[n][a].replies + Cardinality(By(SR, a)) = Cardinality(By(R \cup SR, a))
    BY <1>4, <2>2
  <2> QED
    BY <2>1, <2>3, Zenon
<1>6. Credit(n, S)[n] = Counted(P \cup SP, R \cup SR)
  BY <1>5, CountedIs
<1>7. Counted(P \cup SP, R \cup SR) \in [Authors -> [posts : Nat, replies : Nat]]
  BY <1>1, CountedTyped
<1>8. Credit(n, S) = [tally EXCEPT ![n] = Credit(n, S)[n]]
  BY <1>3
<1> HIDE DEF SP, SR
<1>9. \E x \in [Authors -> [posts : Nat, replies : Nat]] : Credit(n, S) = [tally EXCEPT ![n] = x]
  BY <1>6, <1>7, <1>8
<1> QED
  BY <1>6, <1>9 DEF SP, SR

\* ... and decrAuthorPost and decrAuthorReply.
LEMMA DebitExact ==
    ASSUME NEW n \in Nodes, tally \in [Nodes -> [Authors -> [posts : Nat, replies : Nat]]],
           NEW P \in SUBSET Posts, NEW R \in SUBSET Replies, tally[n] = Counted(P, R),
           NEW S, S \cap Posts \in SUBSET P, S \cap Replies \in SUBSET R
    PROVE  /\ Debit(n, S)[n] = Counted(P \ S, R \ S)
           /\ \A o \in Nodes : o # n => Debit(n, S)[o] = tally[o]
           /\ Debit(n, S) \in [Nodes -> [Authors -> [posts : Nat, replies : Nat]]]
<1> DEFINE SP == S \cap Posts
           SR == S \cap Replies
<1>1. SP \in SUBSET P /\ SR \in SUBSET R /\ P \ SP = P \ S /\ R \ SR = R \ S
      /\ P \ S \in SUBSET Posts /\ R \ S \in SUBSET Replies
  OBVIOUS
<1>2. IsFiniteSet(P) /\ IsFiniteSet(R)
  BY Finite
<1>3. Debit(n, S) = [tally EXCEPT ![n] = [a \in Authors |->
          [posts |-> Minus(@[a].posts, Cardinality(By(SP, a))),
           replies |-> Minus(@[a].replies, Cardinality(By(SR, a)))]]]
  BY DEF Debit, By
<1> HIDE DEF SP, SR
<1>4. \A a : /\ Minus(Cardinality(By(P, a)), Cardinality(By(SP, a))) = Cardinality(By(P \ SP, a))
             /\ Minus(Cardinality(By(R, a)), Cardinality(By(SR, a))) = Cardinality(By(R \ SR, a))
  BY <1>1, <1>2, CountLess
<1>5. Debit(n, S)[n] = [a \in Authors |-> [posts |-> Cardinality(By(P \ SP, a)),
                                           replies |-> Cardinality(By(R \ SR, a))]]
  <2>1. Debit(n, S)[n] = [a \in Authors |->
          [posts |-> Minus(tally[n][a].posts, Cardinality(By(SP, a))),
           replies |-> Minus(tally[n][a].replies, Cardinality(By(SR, a)))]]
    BY <1>3
  <2>2. \A a \in Authors : /\ tally[n][a].posts = Cardinality(By(P, a))
                           /\ tally[n][a].replies = Cardinality(By(R, a))
    BY CountedIs
  <2>3. \A a \in Authors :
          /\ Minus(tally[n][a].posts, Cardinality(By(SP, a))) = Cardinality(By(P \ SP, a))
          /\ Minus(tally[n][a].replies, Cardinality(By(SR, a))) = Cardinality(By(R \ SR, a))
    BY <1>4, <2>2
  <2> QED
    BY <2>1, <2>3, Zenon
<1>6. Debit(n, S)[n] = Counted(P \ S, R \ S)
  BY <1>1, <1>5, CountedIs
<1>7. Counted(P \ S, R \ S) \in [Authors -> [posts : Nat, replies : Nat]]
  BY <1>1, CountedTyped
<1>8. Debit(n, S) = [tally EXCEPT ![n] = Debit(n, S)[n]]
  BY <1>3
<1>9. \E x \in [Authors -> [posts : Nat, replies : Nat]] : Debit(n, S) = [tally EXCEPT ![n] = x]
  BY <1>6, <1>7, <1>8
<1> QED
  BY <1>6, <1>9
-----------------------------------------------------------------------------
(* Types.                                                                   *)

Counters == [Authors -> [posts : Nat, replies : Nat]]

MapsTyped ==
    /\ posts \in [Nodes -> SUBSET Posts] /\ deleted \in [Nodes -> SUBSET Posts]
    /\ pending \in [Nodes -> SUBSET Posts] /\ replies \in [Nodes -> SUBSET Replies]
    /\ tally \in [Nodes -> Counters]

RowsTyped ==
    /\ postRow \in [Nodes -> SUBSET Posts] /\ replyRow \in [Nodes -> SUBSET Replies]
    /\ graveRow \in [Nodes -> SUBSET (signed \cap Deletions)]

ThreadsTyped ==
    /\ pc \in [Threads -> Places] /\ work \in [Threads -> SUBSET signed]
    /\ doing \in [Threads -> (signed \cap Deletions) \cup {Nothing}]
    /\ \A t \in Threads : doing[t] \in work[t] \cup {Nothing}
    /\ \A t \in Threads : pc[t] \in {"handle", "announce"} => work[t] # {}
    /\ \A t \in Threads : pc[t] \in {"transaction", "tombstone"} <=> doing[t] # Nothing

SyncTyped ==
    /\ asks \in [Nodes -> [peer : Nodes \cup {Nobody}, have : SUBSET Posts]]
    /\ serves \in [Nodes -> Nodes \cup {Nobody}]

RestTyped ==
    /\ signed \subseteq Items /\ net \subseteq signed /\ expired \subseteq Posts
    /\ quota \in [Nodes -> [Buckets -> 0..MaxDeletes]]
    /\ cleaning \subseteq Nodes /\ restarts \in 0..Incidents

LEMMA TypeParts == TypeOK <=> MapsTyped /\ RowsTyped /\ ThreadsTyped /\ SyncTyped /\ RestTyped
  BY DEF TypeOK, MapsTyped, RowsTyped, ThreadsTyped, SyncTyped, RestTyped, Counters

LEMMA TypePartsNext ==
    MapsTyped' /\ RowsTyped' /\ ThreadsTyped' /\ SyncTyped' /\ RestTyped' => TypeOK'
  BY DEF TypeOK, MapsTyped, RowsTyped, ThreadsTyped, SyncTyped, RestTyped, Counters

LEMMA ItemParts ==
    ASSUME NEW m \in Items
    PROVE  /\ m.type = "post" => m = Post(m.id) /\ m.id \in Posts
           /\ m.type = "reply" => m = Reply(m.id) /\ m.id \in Replies
           /\ m.type = "delete" => m = Delete(m.id) /\ m.id \in Posts /\ m \in Deletions
           /\ m.type = "mod_delete" => m = ModDelete(m.id) /\ m.id \in Posts /\ m \in Deletions
  BY DEF Items, Deletions, Post, Reply, Delete, ModDelete

LEMMA DeletionParts ==
    /\ Nothing \notin Deletions /\ Deletions \subseteq Items
    /\ \A m \in Deletions : m.id \in Posts /\ m.type \in {"delete", "mod_delete"}
<1>1. \A m \in Deletions : m.id \in Posts /\ m.type \in {"delete", "mod_delete"}
  BY DEF Deletions, Delete, ModDelete
<1>2. Nothing.type = "none"
  BY DEF Nothing
<1> QED
  BY <1>1, <1>2 DEF Items

\* One goroutine goes on.
Moves(t, place, W, D) ==
    /\ pc' = [pc EXCEPT ![t] = place]
    /\ work' = [work EXCEPT ![t] = W]
    /\ doing' = [doing EXCEPT ![t] = D]

LEMMA MovesTyped ==
    ASSUME ThreadsTyped, signed \subseteq signed', NEW t \in Threads, NEW place \in Places,
           NEW W \in SUBSET signed', NEW D \in (signed' \cap Deletions) \cup {Nothing},
           D \in W \cup {Nothing}, Moves(t, place, W, D),
           place \in {"handle", "announce"} => W # {},
           place \in {"transaction", "tombstone"} <=> D # Nothing
    PROVE  ThreadsTyped'
<1>1. pc' \in [Threads -> Places] /\ work' \in [Threads -> SUBSET signed']
  BY DEF ThreadsTyped, Moves
<1>2. doing' \in [Threads -> (signed' \cap Deletions) \cup {Nothing}]
  BY DEF ThreadsTyped, Moves
<1>3. \A u \in Threads : /\ pc'[u] = IF u = t THEN place ELSE pc[u]
                         /\ work'[u] = IF u = t THEN W ELSE work[u]
                         /\ doing'[u] = IF u = t THEN D ELSE doing[u]
  BY DEF ThreadsTyped, Moves
<1> QED
  BY <1>1, <1>2, <1>3 DEF ThreadsTyped

\* The end of an item of a goroutine's list.
LEMMA DoneIs ==
    ASSUME ThreadsTyped, NEW t \in Threads, NEW m \in work[t], Drop(t, m) \/ Done(t, m)
    PROVE  \E place \in {"handle", "collect", "idle", "announce"}, W \in SUBSET work[t] :
               /\ pc' = [pc EXCEPT ![t] = place] /\ work' = [work EXCEPT ![t] = W]
               /\ place \in {"handle", "announce"} => W # {}
<1>1. CASE Drop(t, m)
  <2>1. work[t] # {m} => work[t] \ {m} # {}
    OBVIOUS
  <2> DEFINE W == work[t] \ {m}
             place == IF work[t] # {m} THEN "handle" ELSE IF Role(t) = "serve" THEN "collect" ELSE "idle"
  <2>2. /\ pc' = [pc EXCEPT ![t] = place] /\ work' = [work EXCEPT ![t] = W]
    BY <1>1 DEF Drop, Goto
  <2>3. place \in {"handle", "collect", "idle", "announce"} /\ W \in SUBSET work[t]
        /\ (place \in {"handle", "announce"} => W # {})
    BY <2>1
  <2> HIDE DEF W, place
  <2> QED
    BY <2>2, <2>3
<1>2. CASE Goto(t, "announce") /\ UNCHANGED work
  <2>1. work' = [work EXCEPT ![t] = work[t]] /\ work[t] # {} /\ work[t] \in SUBSET work[t]
    BY <1>2 DEF ThreadsTyped
  <2> QED
    BY <1>2, <2>1 DEF Goto
<1> QED
  BY <1>1, <1>2 DEF Done

\* What a goroutine handles.
LEMMA Handled ==
    ASSUME TypeOK, NEW t \in Threads, NEW m \in work[t], At(t, m)
    PROVE  /\ m \in signed /\ m \in Items /\ Node(t) \in Nodes /\ pc[t] = "handle" /\ doing[t] = Nothing
           /\ m.type = "post" => m = Post(m.id) /\ m.id \in Posts
           /\ m.type = "reply" => m = Reply(m.id) /\ m.id \in Replies
           /\ m.type = "delete" => m = Delete(m.id) /\ m.id \in Posts /\ m \in Deletions
           /\ m.type = "mod_delete" => m = ModDelete(m.id) /\ m.id \in Posts /\ m \in Deletions
<1>1. m \in signed /\ pc[t] = "handle" /\ doing[t] = Nothing
  BY TypeParts DEF At, ThreadsTyped
<1>2. m \in Items
  BY <1>1, TypeParts DEF RestTyped
<1>3. Node(t) \in Nodes
  BY DEF Threads, Node
<1> QED
  BY <1>1, <1>2, <1>3, ItemParts

\* removePostLocked keeps the counters exact.
LEMMA RemoveIs ==
    ASSUME TypeOK, StatsExact, NEW n \in Nodes, NEW S \in SUBSET Posts, Remove(n, S)
    PROVE  /\ posts' = [posts EXCEPT ![n] = posts[n] \ S]
           /\ replies' = [replies EXCEPT ![n] = replies[n] \ RepliesTo(S)]
           /\ tally' \in [Nodes -> Counters]
           /\ StatsExact'
<1> DEFINE X == (posts[n] \cap S) \cup (replies[n] \cap RepliesTo(S))
<1>1. /\ posts[n] \in SUBSET Posts /\ replies[n] \in SUBSET Replies /\ tally \in [Nodes -> Counters]
      /\ posts \in [Nodes -> SUBSET Posts] /\ replies \in [Nodes -> SUBSET Replies]
  BY TypeParts DEF MapsTyped
<1>2. X \cap Posts \in SUBSET posts[n] /\ X \cap Replies \in SUBSET replies[n]
      /\ posts[n] \ X = posts[n] \ S /\ replies[n] \ X = replies[n] \ RepliesTo(S)
  BY <1>1, ForumAssumption DEF RepliesTo
<1>3. tally[n] = Counted(posts[n], replies[n])
  BY DEF StatsExact
<1> HIDE DEF X
<1>4. /\ Debit(n, X)[n] = Counted(posts[n] \ X, replies[n] \ X)
      /\ \A o \in Nodes : o # n => Debit(n, X)[o] = tally[o]
      /\ Debit(n, X) \in [Nodes -> Counters]
  BY <1>1, <1>2, <1>3, DebitExact DEF Counters
<1>5. /\ posts' = [posts EXCEPT ![n] = posts[n] \ S]
      /\ replies' = [replies EXCEPT ![n] = replies[n] \ RepliesTo(S)]
      /\ tally' = Debit(n, X)
  BY DEF Remove, X
<1>6. StatsExact'
  <2> SUFFICES ASSUME NEW o \in Nodes PROVE tally'[o] = Counted(posts'[o], replies'[o])
    BY DEF StatsExact, Counted
  <2>1. CASE o = n
    BY <1>1, <1>2, <1>4, <1>5, <2>1
  <2>2. CASE o # n
    BY <1>1, <1>4, <1>5, <2>2 DEF StatsExact
  <2> QED
    BY <2>1, <2>2
<1> QED
  BY <1>4, <1>5, <1>6
-----------------------------------------------------------------------------
(* Steps that change neither maps nor tables.                               *)

LEMMA SessionsKept ==
    ASSUME ForumInv, UNCHANGED syncVars,
           \A t \in Threads : pc[t] = "asked" => pc'[t] = "asked"
    PROVE  Sessions'
<1>1. \A n \in Nodes : <<n, "sync">> \in Threads
  BY DEF Threads, Roles
<1> QED
  BY <1>1 DEF ForumInv, Sessions, syncVars

\* A goroutine that does not wait for an answer goes on.
LEMMA MovesSessions ==
    ASSUME ForumInv, UNCHANGED syncVars, NEW t \in Threads, pc[t] # "asked",
           NEW place, NEW W, NEW D, Moves(t, place, W, D)
    PROVE  Sessions'
<1>1. \A u \in Threads : u # t => pc'[u] = pc[u]
  BY TypeParts DEF Moves, ForumInv, ThreadsTyped
<1> QED
  BY <1>1, SessionsKept

SameWriter(t) ==
    /\ doing'[t] = doing[t]
    /\ pc[t] = "transaction" <=> pc'[t] = "transaction"
    /\ pc[t] = "tombstone" <=> pc'[t] = "tombstone"

LEMMA WrittenSame ==
    ASSUME NEW n, \A t \in Threads : Node(t) = n => SameWriter(t)
    PROVE  Written(n)' = Written(n) /\ Erased(n)' = Erased(n)
<1>1. Writers(n)' = Writers(n) /\ Erasers(n)' = Erasers(n)
  BY DEF Writers, Erasers, SameWriter
<1>2. \A t \in Writers(n) \cup Erasers(n) : doing'[t] = doing[t]
  BY DEF Writers, Erasers, SameWriter
<1>3. Written(n)' = {doing'[t].id : t \in Writers(n)} /\ Erased(n)' = {doing'[t].id : t \in Erasers(n)}
  BY <1>1 DEF Written, Erased
<1>4. \A t \in Writers(n) : doing'[t].id = doing[t].id
  BY <1>2
<1>5. \A t \in Erasers(n) : doing'[t].id = doing[t].id
  BY <1>2
<1>6. {doing'[t].id : t \in Writers(n)} = Written(n)
  BY <1>4 DEF Written
<1>7. {doing'[t].id : t \in Erasers(n)} = Erased(n)
  BY <1>5 DEF Erased
<1> QED
  BY <1>3, <1>6, <1>7

\* A node whose maps, tables and writers stay as they are.
LEMMA LagsKept ==
    ASSUME ForumInv, NEW n \in Nodes, expired \subseteq expired',
           \A t \in Threads : Node(t) = n => SameWriter(t),
           /\ posts'[n] = posts[n] /\ replies'[n] = replies[n] /\ deleted'[n] = deleted[n]
           /\ postRow'[n] = postRow[n] /\ replyRow'[n] = replyRow[n] /\ graveRow'[n] = graveRow[n]
    PROVE  PostsLag(n)' /\ RepliesLag(n)'
<1>1. Written(n)' = Written(n) /\ Erased(n)' = Erased(n) /\ Buried(n)' = Buried(n)
  BY WrittenSame DEF Buried
<1>2. PostsLag(n) /\ RepliesLag(n)
  BY DEF ForumInv
<1>3. \A S, T : S \subseteq T => RepliesTo(S) \subseteq RepliesTo(T)
  BY DEF RepliesTo
<1>5. PostsLag(n)'
  BY <1>1, <1>2 DEF PostsLag
<1>6. RepliesLag(n)'
  <2>1. /\ RepliesTo(Erased(n) \cup expired) \subseteq RepliesTo(Erased(n) \cup expired')
        /\ RepliesTo(posts[n] \cup expired) \subseteq RepliesTo(posts[n] \cup expired')
        /\ RepliesTo(postRow[n] \cup expired) \subseteq RepliesTo(postRow[n] \cup expired')
    BY <1>3
  <2> QED
    BY <1>1, <1>2, <2>1 DEF RepliesLag, RepliesTo
<1> QED
  BY <1>5, <1>6

LEMMA Quiet ==
    ASSUME ForumInv, UNCHANGED <<posts, replies, deleted, tally, rowVars>>,
           expired \subseteq expired', \A t \in Threads : SameWriter(t)
    PROVE  StatsExact' /\ OneWriter' /\ \A n \in Nodes : PostsLag(n)' /\ RepliesLag(n)'
<1>1. StatsExact'
  BY DEF ForumInv, StatsExact, Counted
<1>2. OneWriter'
  BY DEF ForumInv, OneWriter, SameWriter
<1>3. \A n \in Nodes : PostsLag(n)' /\ RepliesLag(n)'
  BY LagsKept DEF rowVars
<1> QED
  BY <1>1, <1>2, <1>3

\* One goroutine goes on and writes nothing.
LEMMA QuietMove ==
    ASSUME ForumInv, NEW t \in Threads, NEW place \in Places \ {"transaction", "tombstone"},
           NEW W \in SUBSET signed', pc[t] \notin {"asked", "transaction", "tombstone"},
           place \in {"handle", "announce"} => W # {},
           pc' = [pc EXCEPT ![t] = place], work' = [work EXCEPT ![t] = W], doing' = doing,
           UNCHANGED <<posts, replies, deleted, tally, rowVars, syncVars, cleaning, expired, restarts>>,
           signed \subseteq signed', RestTyped', pending' \in [Nodes -> SUBSET Posts], Authentic'
    PROVE  ForumInv'
<1>1. MapsTyped /\ RowsTyped /\ ThreadsTyped /\ SyncTyped /\ RestTyped
  BY TypeParts DEF ForumInv
<1>2. doing[t] = Nothing /\ doing' = [doing EXCEPT ![t] = Nothing]
  BY <1>1 DEF ThreadsTyped
<1>3. Moves(t, place, W, Nothing)
  BY <1>2 DEF Moves
<1>4. ThreadsTyped'
  BY <1>1, <1>3, MovesTyped
<1>5. MapsTyped' /\ RowsTyped' /\ SyncTyped'
  <2>1. MapsTyped'
    BY <1>1 DEF MapsTyped
  <2>2. graveRow \in [Nodes -> SUBSET (signed' \cap Deletions)]
    BY <1>1 DEF RowsTyped
  <2> QED
    BY <1>1, <2>1, <2>2 DEF RowsTyped, SyncTyped, rowVars, syncVars
<1>6. TypeOK'
  BY <1>4, <1>5, TypePartsNext
<1>7. Sessions'
  BY <1>3, MovesSessions
<1>8. \A u \in Threads : SameWriter(u)
  BY <1>1 DEF ThreadsTyped, SameWriter
<1>9. StatsExact' /\ OneWriter' /\ \A n \in Nodes : PostsLag(n)' /\ RepliesLag(n)'
  BY <1>8, Quiet
<1> QED
  BY <1>6, <1>7, <1>9 DEF ForumInv

LEMMA AuthenticKept ==
    ASSUME ForumInv, signed \subseteq signed',
           \A n \in Nodes :
               /\ pending'[n] \subseteq pending[n]
               /\ posts'[n] \subseteq posts[n] \cup postRow[n] /\ postRow'[n] \subseteq postRow[n]
               /\ replies'[n] \subseteq replies[n] \cup replyRow[n] /\ replyRow'[n] \subseteq replyRow[n]
    PROVE  Authentic'
  BY DEF ForumInv, Authentic

\* Everything stays but for the goroutines.
LEMMA OnlyMoves ==
    ASSUME ForumInv, NEW t \in Threads, NEW place \in Places \ {"transaction", "tombstone"},
           NEW W \in SUBSET signed, pc[t] \notin {"asked", "transaction", "tombstone"},
           place \in {"handle", "announce"} => W # {},
           pc' = [pc EXCEPT ![t] = place], work' = [work EXCEPT ![t] = W], doing' = doing,
           UNCHANGED <<signed, expired, mapVars, rowVars, syncVars, cleaning, restarts>>,
           net' \in SUBSET signed,
           quota' \in [Nodes -> [Buckets -> 0..MaxDeletes]]
    PROVE  ForumInv'
<1>1. RestTyped'
  BY TypeParts DEF ForumInv, RestTyped
<1>2. pending' \in [Nodes -> SUBSET Posts]
  BY TypeParts DEF ForumInv, MapsTyped, mapVars
<1>3. Authentic'
  BY AuthenticKept DEF mapVars, rowVars
<1> QED
  BY <1>1, <1>2, <1>3, QuietMove DEF mapVars

LEMMA DeliverInv == ASSUME ForumInv, NEW n \in Nodes, NEW m \in net, Deliver(n, m) PROVE ForumInv'
<1> DEFINE t == <<n, "gossip">>
<1>1. t \in Threads /\ {m} \in SUBSET signed /\ "handle" \in Places \ {"transaction", "tombstone"}
  BY TypeParts DEF Threads, Roles, Places, ForumInv, RestTyped
<1>2. quota \in [Nodes -> [Buckets -> 0..MaxDeletes]] /\ net \in SUBSET signed
  BY TypeParts DEF ForumInv, RestTyped
<1>3. /\ pc[t] = "idle" /\ pc' = [pc EXCEPT ![t] = "handle"] /\ work' = [work EXCEPT ![t] = {m}]
      /\ UNCHANGED <<doing, netVars, mapVars, quota, rowVars, cleaning, syncVars, restarts>>
  BY DEF Deliver, Goto
<1> HIDE DEF t
<1> QED
  BY <1>1, <1>2, <1>3, OnlyMoves DEF netVars

\* An item that changes nothing, or only takes from a bucket.
LEMMA PassedInv ==
    ASSUME ForumInv, NEW t \in Threads, NEW m \in work[t], At(t, m), Drop(t, m) \/ Done(t, m),
           UNCHANGED <<netVars, mapVars, rowVars, cleaning, doing, syncVars, restarts>>,
           quota' \in [Nodes -> [Buckets -> 0..MaxDeletes]]
    PROVE  ForumInv'
<1>1. ThreadsTyped /\ net \subseteq signed
  BY TypeParts DEF ForumInv, RestTyped
<1>2. PICK place \in {"handle", "collect", "idle", "announce"}, W \in SUBSET work[t] :
          /\ pc' = [pc EXCEPT ![t] = place] /\ work' = [work EXCEPT ![t] = W]
          /\ place \in {"handle", "announce"} => W # {}
  BY <1>1, DoneIs
<1>3. W \in SUBSET signed /\ pc[t] = "handle" /\ place \in Places \ {"transaction", "tombstone"}
  BY <1>1 DEF ThreadsTyped, At, Places
<1> QED
  BY <1>1, <1>2, <1>3, OnlyMoves DEF netVars

LEMMA RefusedInv ==
    ASSUME ForumInv, NEW t \in Threads, NEW m \in work[t], DeleteRefused(t, m)
    PROVE  ForumInv'
<1>1. quota \in [Nodes -> [Buckets -> 0..MaxDeletes]]
  BY TypeParts DEF ForumInv, RestTyped
<1> QED
  BY <1>1, PassedInv DEF DeleteRefused

LEMMA BeginInv ==
    ASSUME ForumInv, NEW n \in Nodes, NEW m \in Items, NEW b \in BOOLEAN, Begin(n, m, b)
    PROVE  ForumInv'
<1> DEFINE t == <<n, "user">>
<1>1. t \in Threads /\ "handle" \in Places \ {"transaction", "tombstone"}
  BY DEF Threads, Roles, Places
<1>2. /\ pc[t] = "idle" /\ pc' = [pc EXCEPT ![t] = "handle"] /\ work' = [work EXCEPT ![t] = {m}]
      /\ signed' = signed \cup {m} /\ net' \subseteq net \cup {m}
      /\ UNCHANGED <<expired, doing, mapVars, quota, rowVars, cleaning, syncVars, restarts>>
  BY DEF Begin, Goto
<1> HIDE DEF t
<1>3. RestTyped' /\ {m} \in SUBSET signed'
  BY <1>2, TypeParts DEF ForumInv, RestTyped
<1>4. pending' \in [Nodes -> SUBSET Posts]
  BY <1>2, TypeParts DEF ForumInv, MapsTyped, mapVars
<1>5. Authentic'
  BY <1>2, AuthenticKept DEF mapVars, rowVars
<1> QED
  BY <1>1, <1>2, <1>3, <1>4, <1>5, QuietMove DEF mapVars

LEMMA UserInv ==
    ASSUME ForumInv,
           \/ \E p \in Posts : CreatePost(p) \/ DeleteOwnPost(p)
           \/ \E r \in Replies : CreateReply(r)
           \/ \E n \in Nodes, p \in Posts : IssueModDelete(n, p)
    PROVE  ForumInv'
<1>1. \A x \in Posts \cup Replies : Home[Author[x]] \in Nodes
  BY ForumAssumption
<1>2. \A p \in Posts : Post(p) \in Items /\ Delete(p) \in Items /\ ModDelete(p) \in Items
  BY DEF Items, Deletions
<1>3. \A r \in Replies : Reply(r) \in Items
  BY DEF Items
<1> QED
  BY <1>1, <1>2, <1>3, BeginInv DEF CreatePost, DeleteOwnPost, CreateReply, IssueModDelete

LEMMA AnnounceInv == ASSUME ForumInv, NEW n \in Nodes, Announce(n) PROVE ForumInv'
<1> DEFINE t == <<n, "user">>
<1>1. t \in Threads /\ "idle" \in Places \ {"transaction", "tombstone"}
  BY DEF Threads, Roles, Places
<1>2. /\ pc[t] = "announce" /\ pc' = [pc EXCEPT ![t] = "idle"] /\ work' = [work EXCEPT ![t] = {}]
      /\ net' = net \cup work[t]
      /\ UNCHANGED <<signed, expired, mapVars, quota, rowVars, cleaning, doing, syncVars, restarts>>
  BY DEF Announce, Goto
<1> HIDE DEF t
<1>3. net' \in SUBSET signed /\ quota' \in [Nodes -> [Buckets -> 0..MaxDeletes]]
  BY <1>1, <1>2, TypeParts DEF ForumInv, RestTyped, ThreadsTyped
<1> QED
  BY <1>1, <1>2, <1>3, OnlyMoves

LEMMA CollectInv == ASSUME ForumInv, NEW p \in Nodes, Collect(p) PROVE ForumInv'
<1> DEFINE s == <<p, "serve">>
<1>1. s \in Threads
  BY DEF Threads, Roles
<1>2. net \in SUBSET signed /\ quota \in [Nodes -> [Buckets -> 0..MaxDeletes]]
  BY TypeParts DEF ForumInv, RestTyped
<1>3. /\ pc[s] = "collect"
      /\ UNCHANGED <<netVars, mapVars, quota, rowVars, cleaning, doing, syncVars, restarts>>
  BY DEF Collect
<1>4. CASE Goto(s, "idle") /\ UNCHANGED work
  <2>1. work' = [work EXCEPT ![s] = work[s]] /\ work[s] \in SUBSET signed
    BY <1>1, <1>4, TypeParts DEF ForumInv, ThreadsTyped
  <2>2. "idle" \in Places \ {"transaction", "tombstone"}
    BY DEF Places
  <2> HIDE DEF s
  <2> QED
    BY <1>1, <1>2, <1>3, <1>4, <2>1, <2>2, OnlyMoves DEF Goto, netVars
<1>5. CASE ~(Goto(s, "idle") /\ UNCHANGED work)
  <2>1. PICK S \in SUBSET posts[p] :
            /\ work' = [work EXCEPT ![s] =
                  {Post(q) : q \in S} \cup {Reply(r) : r \in replies[p] \cap RepliesTo(S)}]
            /\ Goto(s, "answer")
    BY <1>5 DEF Collect
  <2>2. {Post(q) : q \in S} \cup {Reply(r) : r \in replies[p] \cap RepliesTo(S)} \in SUBSET signed
    BY DEF ForumInv, Authentic
  <2>3. "answer" \in Places \ {"transaction", "tombstone"}
    BY DEF Places
  <2> HIDE DEF s
  <2> QED
    BY <1>1, <1>2, <1>3, <2>1, <2>2, <2>3, OnlyMoves DEF Goto, netVars
<1> QED
  BY <1>4, <1>5

\* Nothing but goroutines that write nothing, and their syncs, go on.
LEMMA SyncStep ==
    ASSUME ForumInv, UNCHANGED <<netVars, mapVars, quota, rowVars, cleaning, doing, restarts>>,
           pc' \in [Threads -> Places], work' \in [Threads -> SUBSET signed],
           \A t \in Threads : pc'[t] \in {"handle", "announce"} => work'[t] # {},
           \A t \in Threads : SameWriter(t) /\ (pc[t] \in {"transaction", "tombstone"} => work'[t] = work[t]),
           SyncTyped', Sessions'
    PROVE  ForumInv'
<1>1. MapsTyped /\ RowsTyped /\ ThreadsTyped /\ SyncTyped /\ RestTyped
  BY TypeParts DEF ForumInv
<1>2. ThreadsTyped'
  BY <1>1 DEF ThreadsTyped, SameWriter, netVars
<1>3. MapsTyped' /\ RowsTyped' /\ RestTyped'
  BY <1>1 DEF MapsTyped, RowsTyped, RestTyped, netVars, mapVars, rowVars
<1>4. TypeOK'
  BY <1>2, <1>3, TypePartsNext
<1>5. Authentic'
  BY AuthenticKept DEF mapVars, rowVars, netVars
<1>6. StatsExact' /\ OneWriter' /\ \A n \in Nodes : PostsLag(n)' /\ RepliesLag(n)'
  BY Quiet DEF mapVars, netVars
<1> QED
  BY <1>4, <1>5, <1>6 DEF ForumInv

LEMMA SyncAskInv == ASSUME ForumInv, NEW n \in Nodes, NEW p \in Nodes, SyncAsk(n, p) PROVE ForumInv'
<1> DEFINE t == <<n, "sync">>
           s == <<p, "serve">>
           place == IF graveRow[n] = {} THEN "collect" ELSE "handle"
<1>1. t \in Threads /\ s \in Threads /\ t # s /\ \A o \in Nodes : <<o, "sync">> \in Threads /\ <<o, "sync">> # s
      /\ (<<o, "sync">> = t <=> o = n)
  BY DEF Threads, Roles
<1>2. /\ pc \in [Threads -> Places] /\ work \in [Threads -> SUBSET signed]
      /\ graveRow[n] \in SUBSET signed /\ posts[n] \in SUBSET Posts
      /\ asks \in [Nodes -> [peer : Nodes \cup {Nobody}, have : SUBSET Posts]]
      /\ serves \in [Nodes -> Nodes \cup {Nobody}]
      /\ ThreadsTyped
  BY TypeParts DEF ForumInv, ThreadsTyped, RowsTyped, MapsTyped, SyncTyped
<1>3. /\ pc[t] = "idle" /\ pc[s] = "idle" /\ n # p
      /\ asks' = [asks EXCEPT ![n] = [peer |-> p, have |-> posts[n]]]
      /\ serves' = [serves EXCEPT ![p] = n]
      /\ work' = [work EXCEPT ![s] = graveRow[n]]
      /\ pc' = [pc EXCEPT ![t] = "asked", ![s] = place]
      /\ UNCHANGED <<netVars, mapVars, quota, rowVars, cleaning, doing, restarts>>
  BY DEF SyncAsk
<1>4. place \in Places /\ "asked" \in Places /\ place \notin {"transaction", "tombstone", "announce"}
      /\ (place = "handle" => graveRow[n] # {})
  BY DEF Places
<1> HIDE DEF t, s, place
<1>5. \A u \in Threads : /\ pc'[u] = IF u = s THEN place ELSE IF u = t THEN "asked" ELSE pc[u]
                         /\ work'[u] = IF u = s THEN graveRow[n] ELSE work[u]
  BY <1>1, <1>2, <1>3
<1>6. pc' \in [Threads -> Places] /\ work' \in [Threads -> SUBSET signed]
  BY <1>1, <1>2, <1>3, <1>4
<1>7. \A u \in Threads : pc'[u] \in {"handle", "announce"} => work'[u] # {}
  <2> SUFFICES ASSUME NEW u \in Threads, pc'[u] \in {"handle", "announce"} PROVE work'[u] # {}
    OBVIOUS
  <2>1. CASE u = s
    <3>1. pc'[u] = place /\ work'[u] = graveRow[n]
      BY <1>5, <2>1
    <3> QED
      BY <1>4, <3>1
  <2>2. CASE u # s
    <3>1. u # t /\ pc'[u] = pc[u] /\ work'[u] = work[u]
      BY <1>5, <2>2
    <3> QED
      BY <1>2, <3>1 DEF ThreadsTyped
  <2> QED
    BY <2>1, <2>2
<1>8. \A u \in Threads : SameWriter(u)
  <2> SUFFICES ASSUME NEW u \in Threads PROVE SameWriter(u)
    OBVIOUS
  <2>1. pc'[u] = pc[u] \/ {pc[u], pc'[u]} \cap {"transaction", "tombstone"} = {}
    BY <1>1, <1>3, <1>4, <1>5
  <2>2. doing'[u] = doing[u]
    BY <1>3
  <2> QED
    BY <2>1, <2>2 DEF SameWriter
<1>11. \A u \in Threads : (pc[u] \in {"transaction", "tombstone"} => work'[u] = work[u])
  BY <1>3, <1>5
<1>9. SyncTyped'
  BY <1>2, <1>3 DEF SyncTyped
<1>10. Sessions'
  <2> SUFFICES ASSUME NEW o \in Nodes
               PROVE  /\ asks'[o].peer # Nobody => pc'[<<o, "sync">>] = "asked"
                      /\ serves'[o] # Nobody => asks'[serves'[o]].peer = o
    BY DEF Sessions
  <2>1. asks'[o].peer # Nobody => pc'[<<o, "sync">>] = "asked"
    BY <1>1, <1>2, <1>3, <1>5 DEF ForumInv, Sessions
  <2>2. serves'[o] # Nobody => asks'[serves'[o]].peer = o
    <3>1. CASE o = p
      BY <1>2, <1>3, <3>1
    <3>2. CASE o # p
      <4>1. o # Nobody /\ n # Nobody
        BY ForumAssumption DEF Nobody
      <4>2. serves[o] # Nobody => asks[serves[o]].peer = o
        BY DEF ForumInv, Sessions
      <4>3. asks[n].peer # Nobody => pc[t] = "asked"
        BY DEF ForumInv, Sessions, t
      <4>4. serves[o] # n
        BY <1>3, <4>1, <4>2, <4>3
      <4> QED
        BY <1>2, <1>3, <3>2, <4>2, <4>4
    <3> QED
      BY <3>1, <3>2
  <2> QED
    BY <2>1, <2>2
<1> QED
  BY <1>3, <1>6, <1>7, <1>8, <1>9, <1>10, <1>11, SyncStep

LEMMA AnswerInv == ASSUME ForumInv, NEW p \in Nodes, Answer(p) PROVE ForumInv'
<1> DEFINE s == <<p, "serve">>
           n == serves[p]
           t == <<n, "sync">>
           all == work[s] \cup graveRow[p]
           place == IF all = {} THEN "idle" ELSE "handle"
<1>1. /\ s \in Threads /\ Nobody \notin Nodes
      /\ \A o \in Nodes : <<o, "sync">> \in Threads /\ <<o, "sync">> # s /\ (<<o, "sync">> = t <=> o = n)
  BY ForumAssumption DEF Threads, Roles, Nobody
<1>2. /\ pc \in [Threads -> Places] /\ work \in [Threads -> SUBSET signed]
      /\ graveRow[p] \in SUBSET signed /\ ThreadsTyped
      /\ asks \in [Nodes -> [peer : Nodes \cup {Nobody}, have : SUBSET Posts]]
      /\ serves \in [Nodes -> Nodes \cup {Nobody}]
  BY TypeParts DEF ForumInv, ThreadsTyped, RowsTyped, SyncTyped
<1>3. /\ pc[s] = "answer" /\ serves' = [serves EXCEPT ![p] = Nobody]
      /\ UNCHANGED <<netVars, mapVars, quota, rowVars, cleaning, doing, restarts>>
  BY DEF Answer
<1>4. {"idle", "handle"} \subseteq Places \ {"transaction", "tombstone"}
      /\ place \in {"idle", "handle"} /\ (place = "handle" => all # {}) /\ all \in SUBSET signed
  BY <1>1, <1>2 DEF Places
<1>5. NoAsk \in [peer : Nodes \cup {Nobody}, have : SUBSET Posts] /\ NoAsk.peer = Nobody
  BY DEF NoAsk
<1>6. SyncTyped'
  BY <1>2, <1>3, <1>5 DEF Answer, SyncTyped
<1> HIDE DEF s, t, all, place
<1>7. CASE n = Nobody
  <2>1. /\ work' = [work EXCEPT ![s] = {}] /\ pc' = [pc EXCEPT ![s] = "idle"] /\ UNCHANGED asks
    BY <1>7 DEF Answer, Goto, s
  <2>2. \A u \in Threads : /\ pc'[u] = IF u = s THEN "idle" ELSE pc[u]
                           /\ work'[u] = IF u = s THEN {} ELSE work[u]
    BY <1>2, <2>1
  <2>3. pc' \in [Threads -> Places] /\ work' \in [Threads -> SUBSET signed]
    BY <1>2, <1>4, <2>1
  <2>4. \A u \in Threads : pc'[u] \in {"handle", "announce"} => work'[u] # {}
    BY <1>2, <2>2 DEF ThreadsTyped
  <2>5. \A u \in Threads : SameWriter(u)
    BY <1>3, <2>2 DEF SameWriter
  <2>7. \A u \in Threads : (pc[u] \in {"transaction", "tombstone"} => work'[u] = work[u])
    BY <1>3, <2>2
  <2>6. Sessions'
    BY <1>1, <1>2, <1>3, <2>1, <2>2 DEF ForumInv, Sessions
  <2> QED
    BY <1>3, <1>6, <2>3, <2>4, <2>5, <2>6, <2>7, SyncStep
<1>8. CASE n # Nobody
  <2>1. /\ work' = [work EXCEPT ![s] = {}, ![t] = all]
        /\ pc' = [pc EXCEPT ![s] = "idle", ![t] = place]
        /\ asks' = [asks EXCEPT ![n] = NoAsk]
    BY <1>8 DEF Answer, s, t, all, place
  <2>2. n \in Nodes /\ t \in Threads /\ t # s /\ pc[t] = "asked" /\ asks[n].peer = p
    <3>1. n \in Nodes
      BY <1>2, <1>8
    <3>2. asks[n].peer = p
      BY <1>8 DEF ForumInv, Sessions
    <3> QED
      BY <1>1, <3>1, <3>2 DEF ForumInv, Sessions, t
  <2>3. \A u \in Threads : /\ pc'[u] = IF u = t THEN place ELSE IF u = s THEN "idle" ELSE pc[u]
                           /\ work'[u] = IF u = t THEN all ELSE IF u = s THEN {} ELSE work[u]
    BY <1>1, <1>2, <2>1, <2>2
  <2>4. pc' \in [Threads -> Places] /\ work' \in [Threads -> SUBSET signed]
    BY <1>1, <1>2, <1>4, <2>1, <2>2
  <2>5. \A u \in Threads : pc'[u] \in {"handle", "announce"} => work'[u] # {}
    BY <1>2, <1>4, <2>3 DEF ThreadsTyped
  <2>6. \A u \in Threads : SameWriter(u)
    BY <1>1, <1>3, <1>4, <2>2, <2>3 DEF SameWriter
  <2>8. \A u \in Threads : (pc[u] \in {"transaction", "tombstone"} => work'[u] = work[u])
    BY <1>3, <2>2, <2>3
  <2>7. Sessions'
    <3> SUFFICES ASSUME NEW o \in Nodes
                 PROVE  /\ asks'[o].peer # Nobody => pc'[<<o, "sync">>] = "asked"
                        /\ serves'[o] # Nobody => asks'[serves'[o]].peer = o
      BY DEF Sessions
    <3>1. asks'[o].peer # Nobody => pc'[<<o, "sync">>] = "asked"
      BY <1>1, <1>2, <1>5, <2>1, <2>2, <2>3 DEF ForumInv, Sessions
    <3>2. serves'[o] # Nobody => asks'[serves'[o]].peer = o
      <4>1. serves'[o] # Nobody => o # p /\ serves'[o] = serves[o] /\ serves[o] \in Nodes
        BY <1>2, <1>3
      <4>2. serves[o] # Nobody => asks[serves[o]].peer = o
        BY DEF ForumInv, Sessions
      <4> QED
        BY <1>2, <2>1, <2>2, <4>1, <4>2
    <3> QED
      BY <3>1, <3>2
  <2> QED
    BY <1>3, <1>6, <2>4, <2>5, <2>6, <2>7, <2>8, SyncStep
<1> QED
  BY <1>7, <1>8

LEMMA SyncFailInv == ASSUME ForumInv, NEW n \in Nodes, SyncFail(n) PROVE ForumInv'
<1> DEFINE t == <<n, "sync">>
<1>1. /\ t \in Threads /\ Nobody \notin Nodes
      /\ \A o \in Nodes : <<o, "sync">> \in Threads /\ (<<o, "sync">> = t <=> o = n)
  BY ForumAssumption DEF Threads, Roles, Nobody
<1>2. /\ pc \in [Threads -> Places] /\ work \in [Threads -> SUBSET signed] /\ ThreadsTyped
      /\ asks \in [Nodes -> [peer : Nodes \cup {Nobody}, have : SUBSET Posts]]
      /\ serves \in [Nodes -> Nodes \cup {Nobody}]
  BY TypeParts DEF ForumInv, ThreadsTyped, SyncTyped
<1>3. /\ pc[t] = "asked" /\ asks' = [asks EXCEPT ![n] = NoAsk]
      /\ serves' = [p \in Nodes |-> IF serves[p] = n THEN Nobody ELSE serves[p]]
      /\ pc' = [pc EXCEPT ![t] = "idle"]
      /\ UNCHANGED <<netVars, mapVars, quota, rowVars, cleaning, work, doing, restarts>>
  BY DEF SyncFail, Goto
<1>4. NoAsk \in [peer : Nodes \cup {Nobody}, have : SUBSET Posts] /\ NoAsk.peer = Nobody
      /\ "idle" \in Places
  BY DEF NoAsk, Places
<1> HIDE DEF t
<1>5. \A u \in Threads : pc'[u] = IF u = t THEN "idle" ELSE pc[u]
  BY <1>2, <1>3
<1>6. pc' \in [Threads -> Places] /\ work' \in [Threads -> SUBSET signed] /\ SyncTyped'
  BY <1>2, <1>3, <1>4 DEF SyncTyped
<1>7. \A u \in Threads : pc'[u] \in {"handle", "announce"} => work'[u] # {}
  BY <1>2, <1>3, <1>5 DEF ThreadsTyped
<1>8. \A u \in Threads : SameWriter(u)
  BY <1>3, <1>5 DEF SameWriter
<1>9. Sessions'
  BY <1>1, <1>2, <1>3, <1>4, <1>5 DEF ForumInv, Sessions
<1> QED
  BY <1>3, <1>6, <1>7, <1>8, <1>9, SyncStep

LEMMA ClockInv ==
    ASSUME ForumInv,
           \/ \E n \in Nodes : WindowPasses(n)
           \/ \E n \in Nodes, p \in Posts : PendingExpires(n, p)
           \/ \E p \in Posts : Expire(p)
           \/ UNCHANGED vars
    PROVE  ForumInv'
<1>1. MapsTyped /\ RowsTyped /\ ThreadsTyped /\ SyncTyped /\ RestTyped
  BY TypeParts DEF ForumInv
<1>2. /\ UNCHANGED <<signed, net, posts, replies, deleted, tally, rowVars, cleaning, pc, work, doing,
                     asks, serves, restarts>>
      /\ expired \subseteq expired' /\ expired' \subseteq Posts
      /\ pending' \in [Nodes -> SUBSET Posts] /\ \A n \in Nodes : pending'[n] \subseteq pending[n]
      /\ quota' \in [Nodes -> [Buckets -> 0..MaxDeletes]]
  <2>1. CASE \E n \in Nodes : WindowPasses(n)
    <3>1. 0 \in 0..MaxDeletes
      BY ForumAssumption
    <3>2. PICK n \in Nodes : quota' = [quota EXCEPT ![n] = [b \in Buckets |-> 0]]
      BY <2>1 DEF WindowPasses
    <3>3. quota' \in [Nodes -> [Buckets -> 0..MaxDeletes]]
      BY <1>1, <3>1, <3>2 DEF RestTyped
    <3> QED
      BY <1>1, <2>1, <3>3 DEF WindowPasses, netVars, mapVars, syncVars, MapsTyped, RestTyped
  <2>2. CASE \E n \in Nodes, p \in Posts : PendingExpires(n, p)
    BY <1>1, <2>2 DEF PendingExpires, netVars, syncVars, MapsTyped, RestTyped
  <2>3. CASE \E p \in Posts : Expire(p)
    BY <1>1, <2>3 DEF Expire, mapVars, syncVars, MapsTyped, RestTyped
  <2>4. CASE UNCHANGED vars
    BY <1>1, <2>4 DEF vars, netVars, mapVars, syncVars, MapsTyped, RestTyped
  <2> QED
    BY <2>1, <2>2, <2>3, <2>4
<1>3. MapsTyped' /\ RowsTyped' /\ ThreadsTyped' /\ SyncTyped' /\ RestTyped'
  <2>1. MapsTyped' /\ RowsTyped'
    BY <1>1, <1>2 DEF MapsTyped, RowsTyped, rowVars
  <2>2. ThreadsTyped' /\ SyncTyped' /\ RestTyped'
    BY <1>1, <1>2 DEF ThreadsTyped, SyncTyped, RestTyped
  <2> QED
    BY <2>1, <2>2
<1>4. TypeOK'
  BY <1>3, TypePartsNext
<1>5. Sessions'
  BY <1>2, SessionsKept DEF syncVars
<1>6. Authentic'
  BY <1>2, AuthenticKept DEF rowVars
<1>7. \A u \in Threads : SameWriter(u)
  BY <1>2 DEF SameWriter
<1>8. StatsExact' /\ OneWriter' /\ \A n \in Nodes : PostsLag(n)' /\ RepliesLag(n)'
  BY <1>2, <1>7, Quiet
<1> QED
  BY <1>4, <1>5, <1>6, <1>8 DEF ForumInv
-----------------------------------------------------------------------------
(* Steps that change a node's maps or tables.                               *)

LEMMA RepliesOf == \A S, r : r \in RepliesTo(S) <=> r \in Replies /\ On[r] \in S
  BY DEF RepliesTo

\* What the other goroutines of the node write stays.
LEMMA Others ==
    ASSUME ThreadsTyped, NEW t \in Threads, NEW place, NEW W, NEW D, Moves(t, place, W, D)
    PROVE  \A u \in Threads : /\ pc'[u] = IF u = t THEN place ELSE pc[u]
                              /\ work'[u] = IF u = t THEN W ELSE work[u]
                              /\ doing'[u] = IF u = t THEN D ELSE doing[u]
  BY DEF ThreadsTyped, Moves

\* A goroutine has changed the maps.
LEMMA Starts ==
    ASSUME ThreadsTyped, OneWriter, NEW t \in Threads, NEW place \in {"transaction", "tombstone"},
           NEW W, NEW D, Moves(t, place, W, D), pc[t] \notin {"transaction", "tombstone"},
           D.id \notin Written(Node(t))
    PROVE  /\ Written(Node(t))' = Written(Node(t)) \cup {D.id}
           /\ Erased(Node(t))' = Erased(Node(t)) \cup (IF place = "transaction" THEN {D.id} ELSE {})
           /\ OneWriter'
<1> DEFINE n == Node(t)
<1>1. \A u \in Threads : /\ pc'[u] = IF u = t THEN place ELSE pc[u]
                         /\ doing'[u] = IF u = t THEN D ELSE doing[u]
  BY Others
<1>2. Writers(n)' = Writers(n) \cup {t} /\ t \notin Writers(n)
  BY <1>1 DEF Writers
<1>3. Erasers(n)' = Erasers(n) \cup (IF place = "transaction" THEN {t} ELSE {}) /\ t \notin Erasers(n)
  BY <1>1 DEF Erasers
<1>4. Written(n)' = {doing'[u].id : u \in Writers(n)'} /\ Erased(n)' = {doing'[u].id : u \in Erasers(n)'}
  BY DEF Written, Erased
<1>5. Writers(n) \subseteq Threads /\ Erasers(n) \subseteq Threads
  BY DEF Writers, Erasers
<1>6. \A x : x \in Written(n)' <=> x \in Written(n) \/ x = D.id
  <2>1. \A u \in Writers(n) : doing'[u].id = doing[u].id
    BY <1>1, <1>2, <1>5
  <2>2. doing'[t].id = D.id
    BY <1>1
  <2> HIDE DEF n
  <2> QED
    BY <1>2, <1>4, <2>1, <2>2 DEF Written
<1>7. \A x : x \in Erased(n)' <=> x \in Erased(n) \/ (place = "transaction" /\ x = D.id)
  <2>1. \A u \in Erasers(n) : doing'[u].id = doing[u].id
    BY <1>1, <1>3, <1>5
  <2>2. doing'[t].id = D.id
    BY <1>1
  <2> HIDE DEF n
  <2> QED
    BY <1>3, <1>4, <2>1, <2>2 DEF Erased
<1>8. OneWriter'
  <2>1. \A u \in Threads : u # t /\ Node(u) = n /\ pc[u] \in {"transaction", "tombstone"} => doing[u].id # D.id
    BY DEF Written, Writers
  <2>2. \A u \in Threads : Node(u)' = Node(u)
    BY DEF Node
  <2> QED
    BY <1>1, <2>1, <2>2 DEF OneWriter
<1> HIDE DEF n
<1>9. Written(n)' = Written(n) \cup {D.id}
  BY <1>6
<1>10. Erased(n)' = Erased(n) \cup (IF place = "transaction" THEN {D.id} ELSE {})
  BY <1>7
<1> QED
  BY <1>8, <1>9, <1>10 DEF n

\* A goroutine has written what it had to.
LEMMA Ends ==
    ASSUME ThreadsTyped, OneWriter, NEW t \in Threads,
           NEW place \in Places \ {"transaction", "tombstone"},
           NEW W, NEW D, Moves(t, place, W, D), pc[t] \in {"transaction", "tombstone"}
    PROVE  /\ Written(Node(t))' = Written(Node(t)) \ {doing[t].id}
           /\ Erased(Node(t))' = Erased(Node(t)) \ {doing[t].id}
           /\ doing[t].id \in Written(Node(t))
           /\ doing[t].id \in Erased(Node(t)) <=> pc[t] = "transaction"
           /\ OneWriter'
<1> DEFINE n == Node(t)
<1>1. \A u \in Threads : /\ pc'[u] = IF u = t THEN place ELSE pc[u]
                         /\ (u # t => doing'[u] = doing[u])
  BY Others
<1>2. Writers(n)' = Writers(n) \ {t} /\ t \in Writers(n)
  BY <1>1 DEF Writers
<1>3. Erasers(n)' = Erasers(n) \ {t} /\ (t \in Erasers(n) <=> pc[t] = "transaction")
  BY <1>1 DEF Erasers
<1>4. Written(n)' = {doing'[u].id : u \in Writers(n)'} /\ Erased(n)' = {doing'[u].id : u \in Erasers(n)'}
  BY DEF Written, Erased
<1>5. Writers(n) \subseteq Threads /\ Erasers(n) \subseteq Writers(n)
  BY DEF Writers, Erasers
<1>6. \A u \in Writers(n) : doing[u].id = doing[t].id => u = t
  BY <1>2 DEF Writers, OneWriter
<1>7. \A u \in Writers(n) \ {t} : doing'[u].id = doing[u].id
  BY <1>1, <1>5
<1> HIDE DEF n
<1>8. \A x : x \in Written(n)' <=> x \in Written(n) /\ x # doing[t].id
  BY <1>2, <1>4, <1>6, <1>7 DEF Written
<1>9. \A x : x \in Erased(n)' <=> x \in Erased(n) /\ x # doing[t].id
  BY <1>3, <1>4, <1>5, <1>6, <1>7 DEF Erased
<1>10. doing[t].id \in Written(n)
  BY <1>2 DEF Written
<1>11. doing[t].id \in Erased(n) <=> pc[t] = "transaction"
  BY <1>3, <1>5, <1>6 DEF Erased
<1>12. OneWriter'
  <2>1. \A u \in Threads : Node(u)' = Node(u)
    BY DEF Node
  <2> QED
    BY <1>1, <2>1 DEF OneWriter
<1>13. Written(n)' = Written(n) \ {doing[t].id} /\ Erased(n)' = Erased(n) \ {doing[t].id}
  BY <1>8, <1>9
<1> QED
  BY <1>10, <1>11, <1>12, <1>13 DEF n

\* Everything but the node of one goroutine stays.
LEMMA NodeStep ==
    ASSUME ForumInv, NEW t \in Threads, NEW place \in Places, NEW W \in SUBSET signed,
           NEW D \in (signed \cap Deletions) \cup {Nothing}, D \in W \cup {Nothing},
           Moves(t, place, W, D), pc[t] # "asked",
           place \in {"handle", "announce"} => W # {},
           place \in {"transaction", "tombstone"} <=> D # Nothing,
           UNCHANGED <<netVars, cleaning, syncVars, restarts>>,
           quota' \in [Nodes -> [Buckets -> 0..MaxDeletes]],
           MapsTyped', RowsTyped',
           \A o \in Nodes \ {Node(t)} :
               /\ posts'[o] = posts[o] /\ replies'[o] = replies[o] /\ deleted'[o] = deleted[o]
               /\ postRow'[o] = postRow[o] /\ replyRow'[o] = replyRow[o] /\ graveRow'[o] = graveRow[o],
           StatsExact', Authentic', OneWriter', PostsLag(Node(t))', RepliesLag(Node(t))'
    PROVE  ForumInv'
<1>1. ThreadsTyped /\ SyncTyped /\ RestTyped
  BY TypeParts DEF ForumInv
<1>2. signed' = signed /\ net' = net /\ expired' = expired
  BY DEF netVars
<1>3. ThreadsTyped'
  BY <1>1, <1>2, MovesTyped
<1>4. SyncTyped' /\ RestTyped'
  BY <1>1, <1>2 DEF SyncTyped, RestTyped, syncVars
<1>5. TypeOK'
  BY <1>3, <1>4, TypePartsNext
<1>6. Sessions'
  BY MovesSessions
<1>7. \A o \in Nodes \ {Node(t)} : PostsLag(o)' /\ RepliesLag(o)'
  <2> SUFFICES ASSUME NEW o \in Nodes \ {Node(t)} PROVE PostsLag(o)' /\ RepliesLag(o)'
    OBVIOUS
  <2>1. \A u \in Threads : Node(u) = o => SameWriter(u)
    BY <1>1, Others DEF SameWriter
  <2> QED
    BY <1>2, <2>1, LagsKept
<1>8. \A o \in Nodes : PostsLag(o)' /\ RepliesLag(o)'
  BY <1>7
<1> QED
  BY <1>5, <1>6, <1>8 DEF ForumInv
\* A goroutine is through with an item, and writes nothing.
LEMMA Through ==
    ASSUME ForumInv, NEW t \in Threads, NEW m \in work[t], At(t, m), Drop(t, m) \/ Done(t, m),
           doing' = doing
    PROVE  /\ \E place \in Places \ {"transaction", "tombstone"}, W \in SUBSET signed :
                  Moves(t, place, W, Nothing) /\ (place \in {"handle", "announce"} => W # {})
           /\ Written(Node(t))' = Written(Node(t)) /\ Erased(Node(t))' = Erased(Node(t))
           /\ OneWriter'
<1>1. ThreadsTyped
  BY TypeParts DEF ForumInv
<1>2. PICK place \in {"handle", "collect", "idle", "announce"}, W \in SUBSET work[t] :
          /\ pc' = [pc EXCEPT ![t] = place] /\ work' = [work EXCEPT ![t] = W]
          /\ place \in {"handle", "announce"} => W # {}
  BY <1>1, DoneIs
<1>3. W \in SUBSET signed /\ pc[t] = "handle" /\ place \in Places \ {"transaction", "tombstone"}
  BY <1>1 DEF ThreadsTyped, At, Places
<1>4. doing' = [doing EXCEPT ![t] = Nothing]
  BY <1>1, <1>3 DEF ThreadsTyped
<1>5. Moves(t, place, W, Nothing)
  BY <1>2, <1>4 DEF Moves
<1>6. \A u \in Threads : SameWriter(u)
  BY <1>1, <1>2, <1>3 DEF ThreadsTyped, SameWriter
<1>7. Written(Node(t))' = Written(Node(t)) /\ Erased(Node(t))' = Erased(Node(t))
  BY <1>6, WrittenSame
<1>8. OneWriter'
  BY <1>6 DEF ForumInv, OneWriter, SameWriter
<1> QED
  BY <1>2, <1>3, <1>5, <1>7, <1>8

LEMMA StorePostInv ==
    ASSUME ForumInv, NEW t \in Threads, NEW m \in work[t], StorePost(t, m)
    PROVE  ForumInv'
<1> DEFINE n == Node(t)
           p == m.id
<1>1. At(t, m) /\ m.type = "post" /\ Done(t, m)
      /\ UNCHANGED <<netVars, replies, quota, replyRow, cleaning, doing, syncVars, restarts>>
  BY DEF StorePost
<1>2. n \in Nodes /\ p \in Posts /\ Post(p) \in signed /\ pc[t] = "handle"
  BY <1>1, Handled DEF ForumInv
<1>3. MapsTyped /\ RowsTyped /\ quota \in [Nodes -> [Buckets -> 0..MaxDeletes]]
  BY TypeParts DEF ForumInv, RestTyped
<1>4. PICK place \in Places \ {"transaction", "tombstone"}, W \in SUBSET signed :
          Moves(t, place, W, Nothing) /\ (place \in {"handle", "announce"} => W # {})
  BY <1>1, Through
<1>5. Written(n)' = Written(n) /\ Erased(n)' = Erased(n) /\ OneWriter'
  BY <1>1, Through
<1>6. PostsLag(n) /\ RepliesLag(n)
  BY <1>2 DEF ForumInv
<1> HIDE DEF p
<1>7. CASE UNCHANGED <<posts, deleted, pending, tally, postRow, graveRow>>
  BY <1>1, <1>3, <1>7, PassedInv DEF mapVars, rowVars
<1>8. CASE /\ p \notin posts[n] \cup deleted[n] /\ p \in pending[n]
           /\ pending' = [pending EXCEPT ![n] = @ \ {p}]
           /\ deleted' = [deleted EXCEPT ![n] = @ \cup {p}]
           /\ graveRow' = [graveRow EXCEPT ![n] = @ \cup {Delete(p)}]
           /\ UNCHANGED <<posts, tally, postRow>>
  <2>1. Delete(p) \in signed \cap Deletions /\ Delete(p).id = p
    BY <1>2, <1>8 DEF ForumInv, Authentic, Deletions, Delete
  <2>2. MapsTyped'
    BY <1>1, <1>2, <1>3, <1>8 DEF MapsTyped
  <2>3. RowsTyped'
    BY <1>1, <1>2, <1>3, <1>8, <2>1 DEF RowsTyped, netVars
  <2>4. Buried(n)' = Buried(n) \cup {p}
    <3>1. graveRow'[n] = graveRow[n] \cup {Delete(p)}
      BY <1>2, <1>3, <1>8 DEF RowsTyped
    <3> QED
      BY <2>1, <3>1 DEF Buried
  <2>5. deleted'[n] = deleted[n] \cup {p}
    BY <1>2, <1>3, <1>8 DEF MapsTyped
  <2>6. PostsLag(n)' /\ RepliesLag(n)'
    <3>1. expired' = expired /\ posts'[n] = posts[n] /\ postRow'[n] = postRow[n]
          /\ replies'[n] = replies[n] /\ replyRow'[n] = replyRow[n]
      BY <1>1, <1>8 DEF netVars
    <3>2. p \notin Erased(n)
      BY <1>6, <1>8 DEF PostsLag, Written, Erased, Writers, Erasers
    <3>3. PostsLag(n)'
      BY <1>5, <1>6, <1>8, <2>4, <2>5, <3>1, <3>2 DEF PostsLag
    <3>4. RepliesLag(n)'
      BY <1>5, <1>6, <3>1 DEF RepliesLag, RepliesTo
    <3> QED
      BY <3>3, <3>4
  <2>7. StatsExact'
    BY <1>1, <1>8 DEF ForumInv, StatsExact, Counted
  <2>8. Authentic'
    <3>1. \A o \in Nodes : pending'[o] \subseteq pending[o]
      BY <1>2, <1>3, <1>8 DEF MapsTyped
    <3> QED
      BY <1>1, <1>8, <3>1, AuthenticKept DEF netVars
  <2>9. \A o \in Nodes \ {n} : deleted'[o] = deleted[o] /\ graveRow'[o] = graveRow[o]
    BY <1>3, <1>8 DEF MapsTyped, RowsTyped
  <2> QED
    BY <1>1, <1>2, <1>3, <1>4, <1>5, <1>8, <2>2, <2>3, <2>6, <2>7, <2>8, <2>9, NodeStep
<1>9. CASE /\ p \notin posts[n] \cup deleted[n] \cup pending[n]
           /\ posts' = [posts EXCEPT ![n] = @ \cup {p}]
           /\ postRow' = [postRow EXCEPT ![n] = @ \cup {p}]
           /\ tally' = Credit(n, {p})
           /\ UNCHANGED <<deleted, pending, graveRow>>
  <2>1. posts'[n] = posts[n] \cup {p} /\ postRow'[n] = postRow[n] \cup {p}
        /\ \A o \in Nodes \ {n} : posts'[o] = posts[o] /\ postRow'[o] = postRow[o]
    BY <1>2, <1>3, <1>9 DEF MapsTyped, RowsTyped
  <2>2. /\ Credit(n, {p})[n] = Counted(posts[n] \cup ({p} \cap Posts), replies[n] \cup ({p} \cap Replies))
        /\ \A o \in Nodes : o # n => Credit(n, {p})[o] = tally[o]
        /\ Credit(n, {p}) \in [Nodes -> [Authors -> [posts : Nat, replies : Nat]]]
    <3>1. /\ tally \in [Nodes -> [Authors -> [posts : Nat, replies : Nat]]]
          /\ posts[n] \in SUBSET Posts /\ replies[n] \in SUBSET Replies
          /\ {p} \cap posts[n] = {} /\ {p} \cap replies[n] = {}
      BY <1>2, <1>3, <1>9, ForumAssumption DEF MapsTyped, Counters
    <3>2. tally[n] = Counted(posts[n], replies[n])
      BY <1>2 DEF ForumInv, StatsExact
    <3> HIDE DEF n
    <3> QED
      BY <1>2, <3>1, <3>2, CreditExact
  <2>3. {p} \cap Posts = {p} /\ {p} \cap Replies = {}
    BY <1>2, ForumAssumption
  <2>4. StatsExact'
    <3>1. tally'[n] = Counted(posts'[n], replies'[n])
      BY <1>1, <1>9, <2>1, <2>2, <2>3
    <3>2. \A o \in Nodes : o # n => tally'[o] = Counted(posts'[o], replies'[o])
      BY <1>1, <1>9, <2>1, <2>2 DEF ForumInv, StatsExact
    <3> QED
      BY <3>1, <3>2 DEF StatsExact, Counted
  <2>5. MapsTyped' /\ RowsTyped'
    <3>1. MapsTyped'
      BY <1>1, <1>2, <1>3, <1>9, <2>2 DEF MapsTyped, Counters
    <3>2. RowsTyped'
      BY <1>1, <1>2, <1>3, <1>9 DEF RowsTyped, netVars
    <3> QED
      BY <3>1, <3>2
  <2>6. expired' = expired /\ signed' = signed /\ deleted' = deleted /\ pending' = pending /\ Buried(n)' = Buried(n)
        /\ replies' = replies /\ replyRow' = replyRow
    BY <1>1, <1>9 DEF netVars, Buried
  <2>7. PostsLag(n)'
    BY <1>5, <1>6, <1>9, <2>1, <2>6 DEF PostsLag
  <2>8. RepliesLag(n)'
    BY <1>5, <1>6, <2>1, <2>6 DEF RepliesLag, RepliesTo
  <2>9. Authentic'
    BY <1>2, <2>1, <2>6 DEF ForumInv, Authentic
  <2> QED
    BY <1>1, <1>2, <1>3, <1>4, <1>5, <1>9, <2>1, <2>4, <2>5, <2>7, <2>8, <2>9, NodeStep
<1> QED
  BY <1>7, <1>8, <1>9 DEF StorePost, p

LEMMA StoreReplyInv ==
    ASSUME ForumInv, NEW t \in Threads, NEW m \in work[t], StoreReply(t, m)
    PROVE  ForumInv'
<1> DEFINE n == Node(t)
           r == m.id
<1>1. At(t, m) /\ m.type = "reply" /\ Done(t, m)
      /\ UNCHANGED <<netVars, posts, deleted, pending, quota, postRow, graveRow,
                     cleaning, doing, syncVars, restarts>>
  BY DEF StoreReply
<1>2. n \in Nodes /\ r \in Replies /\ Reply(r) \in signed /\ pc[t] = "handle"
  BY <1>1, Handled DEF ForumInv
<1>3. MapsTyped /\ RowsTyped /\ quota \in [Nodes -> [Buckets -> 0..MaxDeletes]]
  BY TypeParts DEF ForumInv, RestTyped
<1>4. PICK place \in Places \ {"transaction", "tombstone"}, W \in SUBSET signed :
          Moves(t, place, W, Nothing) /\ (place \in {"handle", "announce"} => W # {})
  BY <1>1, Through
<1>5. Written(n)' = Written(n) /\ Erased(n)' = Erased(n) /\ OneWriter'
  BY <1>1, Through
<1>6. PostsLag(n) /\ RepliesLag(n)
  BY <1>2 DEF ForumInv
<1> HIDE DEF r
<1>7. CASE UNCHANGED <<replies, tally, replyRow>>
  BY <1>1, <1>3, <1>7, PassedInv DEF mapVars, rowVars
<1>8. CASE /\ On[r] \in posts[n] /\ r \notin replies[n]
           /\ replies' = [replies EXCEPT ![n] = @ \cup {r}]
           /\ replyRow' = [replyRow EXCEPT ![n] = @ \cup {r}]
           /\ tally' = Credit(n, {r})
  <2>1. replies'[n] = replies[n] \cup {r} /\ replyRow'[n] = replyRow[n] \cup {r}
        /\ \A o \in Nodes \ {n} : replies'[o] = replies[o] /\ replyRow'[o] = replyRow[o]
    BY <1>2, <1>3, <1>8 DEF MapsTyped, RowsTyped
  <2>2. /\ Credit(n, {r})[n] = Counted(posts[n] \cup ({r} \cap Posts), replies[n] \cup ({r} \cap Replies))
        /\ \A o \in Nodes : o # n => Credit(n, {r})[o] = tally[o]
        /\ Credit(n, {r}) \in [Nodes -> [Authors -> [posts : Nat, replies : Nat]]]
    <3>1. /\ tally \in [Nodes -> [Authors -> [posts : Nat, replies : Nat]]]
          /\ posts[n] \in SUBSET Posts /\ replies[n] \in SUBSET Replies
          /\ {r} \cap posts[n] = {} /\ {r} \cap replies[n] = {}
      BY <1>2, <1>3, <1>8, ForumAssumption DEF MapsTyped, Counters
    <3>2. tally[n] = Counted(posts[n], replies[n])
      BY <1>2 DEF ForumInv, StatsExact
    <3> HIDE DEF n
    <3> QED
      BY <1>2, <3>1, <3>2, CreditExact
  <2>3. {r} \cap Replies = {r} /\ {r} \cap Posts = {}
    BY <1>2, ForumAssumption
  <2>4. StatsExact'
    <3>1. tally'[n] = Counted(posts'[n], replies'[n])
      BY <1>1, <1>8, <2>1, <2>2, <2>3
    <3>2. \A o \in Nodes : o # n => tally'[o] = Counted(posts'[o], replies'[o])
      BY <1>1, <1>8, <2>1, <2>2 DEF ForumInv, StatsExact
    <3> QED
      BY <3>1, <3>2 DEF StatsExact, Counted
  <2>5. MapsTyped' /\ RowsTyped'
    <3>1. MapsTyped'
      BY <1>1, <1>2, <1>3, <1>8, <2>2 DEF MapsTyped, Counters
    <3>2. RowsTyped'
      BY <1>1, <1>2, <1>3, <1>8 DEF RowsTyped, netVars
    <3> QED
      BY <3>1, <3>2
  <2>6. expired' = expired /\ signed' = signed /\ deleted' = deleted /\ pending' = pending /\ Buried(n)' = Buried(n)
        /\ posts' = posts /\ postRow' = postRow
    BY <1>1 DEF netVars, Buried
  <2>7. PostsLag(n)'
    BY <1>5, <1>6, <2>6 DEF PostsLag
  <2>8. RepliesLag(n)'
    BY <1>2, <1>5, <1>6, <1>8, <2>1, <2>6 DEF RepliesLag, RepliesTo, PostsLag
  <2>9. Authentic'
    BY <1>2, <2>1, <2>6 DEF ForumInv, Authentic
  <2> QED
    BY <1>1, <1>2, <1>3, <1>4, <1>5, <1>8, <2>1, <2>4, <2>5, <2>7, <2>8, <2>9, NodeStep
<1> QED
  BY <1>7, <1>8 DEF StoreReply, r
\* The maps' half of a deletion.
LEMMA RemoveInv ==
    ASSUME ForumInv, NEW t \in Threads, NEW m \in work[t], At(t, m), NEW p \in Posts,
           m \in Deletions, m.id = p, p \notin deleted[Node(t)],
           quota' \in [Nodes -> [Buckets -> 0..MaxDeletes]],
           Remove(Node(t), {p}),
           pending' = [pending EXCEPT ![Node(t)] = @ \ {p}],
           deleted' = [deleted EXCEPT ![Node(t)] = @ \cup {p}],
           doing' = [doing EXCEPT ![t] = m],
           Goto(t, IF p \in posts[Node(t)] THEN "transaction" ELSE "tombstone"),
           UNCHANGED <<work, netVars, rowVars, cleaning, syncVars, restarts>>
    PROVE  ForumInv'
<1> DEFINE n == Node(t)
           place == IF p \in posts[n] THEN "transaction" ELSE "tombstone"
<1>1. n \in Nodes /\ m \in signed /\ pc[t] = "handle"
  BY Handled DEF ForumInv
<1>2. MapsTyped /\ RowsTyped /\ ThreadsTyped /\ Nothing \notin Deletions
  BY TypeParts, DeletionParts DEF ForumInv
<1>3. place \in Places /\ place \in {"transaction", "tombstone"} /\ (place = "transaction" <=> p \in posts[n])
  BY DEF Places
<1>4. Moves(t, place, work[t], m) /\ work[t] \in SUBSET signed
  <2>1. work' = [work EXCEPT ![t] = work[t]] /\ work[t] \in SUBSET signed
    BY <1>2 DEF ThreadsTyped
  <2> QED
    BY <2>1 DEF Moves, Goto
<1>5. PostsLag(n) /\ RepliesLag(n) /\ OneWriter
  BY <1>1 DEF ForumInv
<1>6. /\ Written(n)' = Written(n) \cup {p} /\ OneWriter'
      /\ Erased(n)' = Erased(n) \cup (IF place = "transaction" THEN {p} ELSE {})
  <2>1. p \notin Written(n)
    BY <1>5 DEF PostsLag
  <2> HIDE DEF place
  <2> QED
    BY <1>1, <1>2, <1>3, <1>4, <1>5, <2>1, Starts
<1> HIDE DEF place
<1>7. /\ posts' = [posts EXCEPT ![n] = posts[n] \ {p}]
      /\ replies' = [replies EXCEPT ![n] = replies[n] \ RepliesTo({p})]
      /\ tally' \in [Nodes -> Counters] /\ StatsExact'
  BY <1>1, RemoveIs DEF ForumInv
<1>8. /\ posts'[n] = posts[n] \ {p} /\ replies'[n] = replies[n] \ RepliesTo({p})
      /\ deleted'[n] = deleted[n] \cup {p}
      /\ postRow' = postRow /\ replyRow' = replyRow /\ graveRow' = graveRow
      /\ expired' = expired /\ signed' = signed
      /\ \A o \in Nodes \ {n} : posts'[o] = posts[o] /\ replies'[o] = replies[o] /\ deleted'[o] = deleted[o]
  BY <1>1, <1>2, <1>7 DEF MapsTyped, rowVars, netVars
<1>9. MapsTyped' /\ RowsTyped'
  BY <1>1, <1>2, <1>7, <1>8 DEF MapsTyped, RowsTyped
<1>10. Buried(n)' = Buried(n)
  BY <1>8 DEF Buried
<1>11. PostsLag(n)'
  BY <1>3, <1>5, <1>6, <1>8, <1>10 DEF PostsLag
<1>12. RepliesLag(n)'
  BY <1>3, <1>5, <1>6, <1>8 DEF RepliesLag, RepliesTo
<1>13. Authentic'
  <2>1. \A o \in Nodes : /\ pending'[o] \subseteq pending[o] /\ posts'[o] \subseteq posts[o]
                         /\ replies'[o] \subseteq replies[o]
    BY <1>1, <1>2, <1>8 DEF MapsTyped
  <2> QED
    BY <1>8, <2>1, AuthenticKept
<1>14. m # Nothing /\ m \in signed \cap Deletions
  BY <1>1, <1>2
<1> HIDE DEF n
<1> QED
  BY <1>1, <1>3, <1>4, <1>6, <1>7, <1>8, <1>9, <1>11, <1>12, <1>13, <1>14, NodeStep DEF n

LEMMA ApplyDeleteInv ==
    ASSUME ForumInv, NEW t \in Threads, NEW m \in work[t], ApplyDelete(t, m)
    PROVE  ForumInv'
<1> DEFINE n == Node(t)
           p == m.id
<1>1. At(t, m) /\ m.type = "delete" /\ UNCHANGED <<netVars, rowVars, cleaning, syncVars, restarts>>
  BY DEF ApplyDelete
<1>2. n \in Nodes /\ p \in Posts /\ m = Delete(p) /\ m \in Deletions /\ m \in signed /\ pc[t] = "handle"
  BY <1>1, Handled DEF ForumInv
<1>3. quota' \in [Nodes -> [Buckets -> 0..MaxDeletes]]
  <2>1. quota \in [Nodes -> [Buckets -> 0..MaxDeletes]] /\ MaxDeletes \in Nat
    BY TypeParts, ForumAssumption DEF ForumInv, RestTyped
  <2>2. CASE UNCHANGED quota
    BY <2>1, <2>2
  <2>3. CASE Allowed(n, Author[p])
    <3>1. Author[p] \in Buckets
      BY <1>2, ForumAssumption DEF Buckets
    <3> HIDE DEF p
    <3> QED
      BY <1>2, <2>1, <2>3, <3>1 DEF Allowed
  <2> QED
    BY <2>2, <2>3 DEF ApplyDelete
<1>4. CASE p \in posts[n]
  <2>1. p \notin deleted[n]
    BY <1>2, <1>4 DEF ForumInv, PostsLag
  <2>2. /\ Remove(n, {p})
        /\ pending' = [pending EXCEPT ![n] = @ \ {p}]
        /\ deleted' = [deleted EXCEPT ![n] = @ \cup {p}]
        /\ doing' = [doing EXCEPT ![t] = m]
        /\ Goto(t, IF p \in posts[n] THEN "transaction" ELSE "tombstone")
        /\ UNCHANGED work
    BY <1>4 DEF ApplyDelete
  <2> HIDE DEF p
  <2> QED
    BY <1>1, <1>2, <1>3, <2>1, <2>2, RemoveInv DEF p
<1>5. CASE p \notin posts[n]
  <2>1. /\ pending' = [pending EXCEPT ![n] = @ \cup {p}]
        /\ Done(t, m)
        /\ UNCHANGED <<posts, replies, tally, deleted, doing>>
    BY <1>5 DEF ApplyDelete
  <2>2. MapsTyped /\ RowsTyped /\ RestTyped
    BY TypeParts DEF ForumInv
  <2>3. PICK place \in Places \ {"transaction", "tombstone"}, W \in SUBSET signed :
            Moves(t, place, W, Nothing) /\ (place \in {"handle", "announce"} => W # {})
    BY <1>1, <2>1, Through
  <2>4. pending' \in [Nodes -> SUBSET Posts] /\ RestTyped'
    BY <1>1, <1>2, <1>3, <2>1, <2>2 DEF MapsTyped, RestTyped, netVars
  <2>5. Authentic'
    <3>1. \A o \in Nodes : pending'[o] \subseteq pending[o] \cup (IF o = n THEN {p} ELSE {})
      BY <2>1, <2>2 DEF MapsTyped
    <3>2. Delete(p) \in signed
      BY <1>2
    <3> HIDE DEF p
    <3> QED
      BY <1>1, <2>1, <3>1, <3>2 DEF ForumInv, Authentic, netVars, rowVars
  <2> QED
    BY <1>1, <1>2, <2>1, <2>3, <2>4, <2>5, QuietMove DEF Moves, netVars
<1> QED
  BY <1>4, <1>5

LEMMA ApplyModDeleteInv ==
    ASSUME ForumInv, NEW t \in Threads, NEW m \in work[t], ApplyModDelete(t, m)
    PROVE  ForumInv'
<1> DEFINE n == Node(t)
           p == m.id
<1>1. At(t, m) /\ m.type = "mod_delete" /\ UNCHANGED <<netVars, rowVars, cleaning, syncVars, restarts>>
  BY DEF ApplyModDelete
<1>2. n \in Nodes /\ p \in Posts /\ m \in Deletions
  BY <1>1, Handled DEF ForumInv
<1>3. quota \in [Nodes -> [Buckets -> 0..MaxDeletes]] /\ MaxDeletes \in Nat
  BY TypeParts, ForumAssumption DEF ForumInv, RestTyped
<1>4. CASE p \in deleted[n]
  <2>1. Done(t, m) /\ UNCHANGED <<posts, replies, tally, deleted, pending, quota, doing>>
    BY <1>4 DEF ApplyModDelete
  <2> QED
    BY <1>1, <1>3, <2>1, PassedInv DEF mapVars
<1>5. CASE p \notin deleted[n]
  <2>1. /\ Allowed(n, "mod") /\ Remove(n, {p})
        /\ pending' = [pending EXCEPT ![n] = @ \ {p}]
        /\ deleted' = [deleted EXCEPT ![n] = @ \cup {p}]
        /\ doing' = [doing EXCEPT ![t] = m]
        /\ Goto(t, IF p \in posts[n] THEN "transaction" ELSE "tombstone")
        /\ UNCHANGED work
    BY <1>5 DEF ApplyModDelete
  <2>2. quota' \in [Nodes -> [Buckets -> 0..MaxDeletes]]
    <3>1. "mod" \in Buckets
      BY DEF Buckets
    <3> QED
      BY <1>2, <1>3, <2>1, <3>1 DEF Allowed
  <2> HIDE DEF p
  <2> QED
    BY <1>1, <1>2, <1>5, <2>1, <2>2, RemoveInv DEF p
<1> QED
  BY <1>4, <1>5

\* The tables' half: m is the deletion, and its item is done.
LEMMA Writes ==
    ASSUME ForumInv, NEW t \in Threads, pc[t] \in {"transaction", "tombstone"},
           doing' = [doing EXCEPT ![t] = Nothing], Done(t, doing[t]), Inscribe(Node(t), doing[t]),
           UNCHANGED netVars
    PROVE  /\ Node(t) \in Nodes /\ doing[t].id \in Posts
           /\ \E place \in Places \ {"transaction", "tombstone"}, W \in SUBSET signed :
                  Moves(t, place, W, Nothing) /\ (place \in {"handle", "announce"} => W # {})
           /\ Written(Node(t))' = Written(Node(t)) \ {doing[t].id}
           /\ Erased(Node(t))' = Erased(Node(t)) \ {doing[t].id}
           /\ doing[t].id \in Written(Node(t))
           /\ doing[t].id \in Erased(Node(t)) <=> pc[t] = "transaction"
           /\ OneWriter'
           /\ Buried(Node(t))' = Buried(Node(t)) \cup {doing[t].id}
           /\ graveRow' \in [Nodes -> SUBSET (signed \cap Deletions)]
           /\ \A o \in Nodes \ {Node(t)} : graveRow'[o] = graveRow[o]
<1> DEFINE n == Node(t)
           m == doing[t]
<1>1. ThreadsTyped /\ RowsTyped /\ OneWriter
  BY TypeParts DEF ForumInv
<1>2. m \in work[t] /\ m \in signed \cap Deletions /\ n \in Nodes
  BY <1>1 DEF ThreadsTyped, Threads, Node
<1>3. m.id \in Posts
  BY <1>2, DeletionParts
<1>4. PICK place \in {"handle", "collect", "idle", "announce"}, W \in SUBSET work[t] :
          /\ pc' = [pc EXCEPT ![t] = place] /\ work' = [work EXCEPT ![t] = W]
          /\ place \in {"handle", "announce"} => W # {}
  <2> HIDE DEF m
  <2> QED
    BY <1>1, <1>2, DoneIs DEF m
<1>5. Moves(t, place, W, Nothing) /\ W \in SUBSET signed /\ place \in Places \ {"transaction", "tombstone"}
  BY <1>1, <1>4 DEF ThreadsTyped, Moves, Places
<1>6. /\ Written(n)' = Written(n) \ {m.id}
      /\ Erased(n)' = Erased(n) \ {m.id}
      /\ m.id \in Written(n)
      /\ m.id \in Erased(n) <=> pc[t] = "transaction"
      /\ OneWriter'
  BY <1>1, <1>5, Ends
<1> HIDE DEF m
<1>7. graveRow' = [graveRow EXCEPT ![n] = graveRow'[n]] /\ graveRow'[n] \in {graveRow[n], graveRow[n] \cup {m}}
  BY <1>1, <1>2 DEF Inscribe, RowsTyped, m
<1>8. Buried(n)' = Buried(n) \cup {m.id}
  <2>1. CASE m.id \in Buried(n)
    BY <1>1, <1>2, <2>1 DEF Inscribe, RowsTyped, m, Buried
  <2>2. CASE m.id \notin Buried(n)
    <3>1. graveRow'[n] = graveRow[n] \cup {m}
      BY <1>1, <1>2, <2>2 DEF Inscribe, RowsTyped, m
    <3> QED
      BY <3>1 DEF Buried
  <2> QED
    BY <2>1, <2>2
<1>9. graveRow' \in [Nodes -> SUBSET (signed \cap Deletions)] /\ \A o \in Nodes \ {n} : graveRow'[o] = graveRow[o]
  BY <1>1, <1>2, <1>7 DEF RowsTyped
<1> QED
  BY <1>2, <1>3, <1>4, <1>5, <1>6, <1>8, <1>9 DEF m

LEMMA TransactionInv == ASSUME ForumInv, NEW t \in Threads, Transaction(t) PROVE ForumInv'
<1> DEFINE n == Node(t)
           p == doing[t].id
<1>1. /\ pc[t] = "transaction"
      /\ postRow' = [postRow EXCEPT ![n] = @ \ {p}]
      /\ replyRow' = [replyRow EXCEPT ![n] = @ \ RepliesTo({p})]
      /\ UNCHANGED <<netVars, mapVars, quota, cleaning, syncVars, restarts>>
  BY DEF Transaction
<1>2. /\ doing' = [doing EXCEPT ![t] = Nothing] /\ Done(t, doing[t]) /\ Inscribe(n, doing[t])
  BY DEF Transaction
<1>3. /\ n \in Nodes /\ p \in Posts
      /\ Written(n)' = Written(n) \ {p} /\ Erased(n)' = Erased(n) \ {p}
      /\ p \in Written(n) /\ OneWriter' /\ Buried(n)' = Buried(n) \cup {p}
      /\ graveRow' \in [Nodes -> SUBSET (signed \cap Deletions)]
      /\ \A o \in Nodes \ {n} : graveRow'[o] = graveRow[o]
  BY <1>1, <1>2, Writes
<1>4. PICK place \in Places \ {"transaction", "tombstone"}, W \in SUBSET signed :
          Moves(t, place, W, Nothing) /\ (place \in {"handle", "announce"} => W # {})
  BY <1>1, <1>2, Writes
<1>5. MapsTyped /\ RowsTyped /\ quota \in [Nodes -> [Buckets -> 0..MaxDeletes]]
  BY TypeParts DEF ForumInv, RestTyped
<1>6. PostsLag(n) /\ RepliesLag(n)
  BY <1>3 DEF ForumInv
<1> HIDE DEF p
<1>7. /\ postRow'[n] = postRow[n] \ {p} /\ replyRow'[n] = replyRow[n] \ RepliesTo({p})
      /\ posts' = posts /\ replies' = replies /\ deleted' = deleted /\ pending' = pending /\ tally' = tally
      /\ expired' = expired /\ signed' = signed
      /\ \A o \in Nodes \ {n} : postRow'[o] = postRow[o] /\ replyRow'[o] = replyRow[o]
  BY <1>1, <1>3, <1>5 DEF RowsTyped, netVars, mapVars
<1>8. MapsTyped' /\ RowsTyped'
  BY <1>1, <1>3, <1>5, <1>7 DEF MapsTyped, RowsTyped
<1>9. PostsLag(n)'
  BY <1>3, <1>6, <1>7 DEF PostsLag
<1>10. RepliesLag(n)'
  BY <1>3, <1>6, <1>7 DEF RepliesLag, RepliesTo
<1>11. StatsExact'
  BY <1>7 DEF ForumInv, StatsExact, Counted
<1>12. Authentic'
  <2>1. \A o \in Nodes : postRow'[o] \subseteq postRow[o] /\ replyRow'[o] \subseteq replyRow[o]
    BY <1>7
  <2> QED
    BY <1>7, <2>1, AuthenticKept
<1> QED
  BY <1>1, <1>3, <1>4, <1>5, <1>7, <1>8, <1>9, <1>10, <1>11, <1>12, NodeStep

LEMMA TombstoneInv == ASSUME ForumInv, NEW t \in Threads, Tombstone(t) PROVE ForumInv'
<1> DEFINE n == Node(t)
           p == doing[t].id
<1>1. /\ pc[t] = "tombstone"
      /\ UNCHANGED <<netVars, mapVars, quota, postRow, replyRow, cleaning, syncVars, restarts>>
  BY DEF Tombstone
<1>2. /\ doing' = [doing EXCEPT ![t] = Nothing] /\ Done(t, doing[t]) /\ Inscribe(n, doing[t])
  BY DEF Tombstone
<1>3. /\ n \in Nodes /\ p \in Posts
      /\ Written(n)' = Written(n) \ {p} /\ Erased(n)' = Erased(n) \ {p}
      /\ p \in Written(n) /\ p \notin Erased(n) /\ OneWriter' /\ Buried(n)' = Buried(n) \cup {p}
      /\ graveRow' \in [Nodes -> SUBSET (signed \cap Deletions)]
      /\ \A o \in Nodes \ {n} : graveRow'[o] = graveRow[o]
  BY <1>1, <1>2, Writes
<1>4. PICK place \in Places \ {"transaction", "tombstone"}, W \in SUBSET signed :
          Moves(t, place, W, Nothing) /\ (place \in {"handle", "announce"} => W # {})
  BY <1>1, <1>2, Writes
<1>5. MapsTyped /\ RowsTyped /\ quota \in [Nodes -> [Buckets -> 0..MaxDeletes]]
  BY TypeParts DEF ForumInv, RestTyped
<1>6. PostsLag(n) /\ RepliesLag(n)
  BY <1>3 DEF ForumInv
<1> HIDE DEF p
<1>7. /\ postRow' = postRow /\ replyRow' = replyRow
      /\ posts' = posts /\ replies' = replies /\ deleted' = deleted /\ pending' = pending /\ tally' = tally
      /\ expired' = expired /\ signed' = signed
  BY <1>1 DEF netVars, mapVars
<1>8. MapsTyped' /\ RowsTyped'
  BY <1>3, <1>5, <1>7 DEF MapsTyped, RowsTyped
<1>9. PostsLag(n)'
  BY <1>3, <1>6, <1>7 DEF PostsLag
<1>10. RepliesLag(n)'
  BY <1>3, <1>6, <1>7 DEF RepliesLag, RepliesTo
<1>11. StatsExact'
  BY <1>7 DEF ForumInv, StatsExact, Counted
<1>12. Authentic'
  BY <1>7, AuthenticKept
<1> QED
  BY <1>1, <1>3, <1>4, <1>5, <1>7, <1>8, <1>9, <1>10, <1>11, <1>12, NodeStep
\* The housekeeping of one node.
LEMMA CleanInv ==
    ASSUME ForumInv, NEW n \in Nodes, CleanRows(n) \/ CleanMaps(n)
    PROVE  ForumInv'
<1>1. MapsTyped /\ RowsTyped /\ ThreadsTyped /\ SyncTyped /\ RestTyped
  BY TypeParts DEF ForumInv
<1>2. /\ UNCHANGED <<netVars, deleted, pending, quota, replyRow, graveRow, pc, work, doing, syncVars, restarts>>
      /\ cleaning' \subseteq Nodes
  BY <1>1 DEF CleanRows, CleanMaps, mapVars, rowVars, RestTyped
<1>3. signed' = signed /\ net' = net /\ expired' = expired
  BY <1>2 DEF netVars
<1>4. ThreadsTyped' /\ SyncTyped' /\ RestTyped'
  BY <1>1, <1>2, <1>3 DEF ThreadsTyped, SyncTyped, syncVars, RestTyped
<1>5. \A t \in Threads : SameWriter(t)
  BY <1>2 DEF SameWriter
<1>6. Written(n)' = Written(n) /\ Erased(n)' = Erased(n) /\ OneWriter'
  <2>1. OneWriter'
    BY <1>5 DEF ForumInv, OneWriter, SameWriter
  <2> QED
    BY <1>5, <2>1, WrittenSame
<1>7. PostsLag(n) /\ RepliesLag(n)
  BY DEF ForumInv
<1>8. /\ MapsTyped' /\ RowsTyped' /\ StatsExact' /\ PostsLag(n)' /\ RepliesLag(n)'
      /\ \A o \in Nodes : /\ posts'[o] \subseteq posts[o] /\ postRow'[o] \subseteq postRow[o]
                          /\ replies'[o] \subseteq replies[o]
      /\ \A o \in Nodes \ {n} : posts'[o] = posts[o] /\ postRow'[o] = postRow[o] /\ replies'[o] = replies[o]
  <2>1. CASE CleanRows(n)
    <3>1. postRow' = [postRow EXCEPT ![n] = @ \ expired] /\ UNCHANGED <<posts, replies, tally>>
      BY <2>1 DEF CleanRows, mapVars
    <3>2. MapsTyped' /\ RowsTyped' /\ StatsExact'
      <4>1. StatsExact'
        BY <3>1 DEF ForumInv, StatsExact, Counted
      <4>2. RowsTyped'
        BY <1>1, <1>2, <1>3, <3>1 DEF RowsTyped
      <4> QED
        BY <1>1, <1>2, <3>1, <4>1, <4>2 DEF MapsTyped
    <3>3. postRow'[n] = postRow[n] \ expired /\ \A o \in Nodes \ {n} : postRow'[o] = postRow[o]
      BY <1>1, <3>1 DEF RowsTyped
    <3>4. PostsLag(n)'
      BY <1>2, <1>3, <1>6, <1>7, <3>1, <3>3 DEF PostsLag, Buried
    <3>5. RepliesLag(n)'
      BY <1>2, <1>3, <1>6, <1>7, <3>1, <3>3 DEF RepliesLag, RepliesTo
    <3> QED
      BY <3>1, <3>2, <3>3, <3>4, <3>5
  <2>2. CASE CleanMaps(n)
    <3>1. Remove(n, expired) /\ expired \in SUBSET Posts /\ postRow' = postRow
      BY <1>1, <2>2 DEF CleanMaps, RestTyped, rowVars
    <3>2. /\ posts' = [posts EXCEPT ![n] = posts[n] \ expired]
          /\ replies' = [replies EXCEPT ![n] = replies[n] \ RepliesTo(expired)]
          /\ tally' \in [Nodes -> Counters]
          /\ StatsExact'
      BY <3>1, RemoveIs DEF ForumInv
    <3>3. MapsTyped' /\ RowsTyped'
      BY <1>1, <1>2, <1>3, <3>1, <3>2 DEF MapsTyped, RowsTyped
    <3>4. /\ posts'[n] = posts[n] \ expired /\ replies'[n] = replies[n] \ RepliesTo(expired)
          /\ \A o \in Nodes \ {n} : posts'[o] = posts[o] /\ replies'[o] = replies[o]
      BY <1>1, <3>2 DEF MapsTyped
    <3>5. PostsLag(n)'
      BY <1>2, <1>3, <1>6, <1>7, <3>1, <3>4 DEF PostsLag, Buried
    <3>6. RepliesLag(n)'
      BY <1>2, <1>3, <1>6, <1>7, <3>1, <3>4 DEF RepliesLag, RepliesTo
    <3> QED
      BY <3>1, <3>2, <3>3, <3>4, <3>5, <3>6
  <2> QED
    BY <2>1, <2>2
<1>9. \A o \in Nodes \ {n} : PostsLag(o)' /\ RepliesLag(o)'
  BY <1>2, <1>3, <1>5, <1>8, LagsKept
<1>10. \A o \in Nodes : PostsLag(o)' /\ RepliesLag(o)'
  BY <1>8, <1>9
<1>11. TypeOK'
  BY <1>4, <1>8, TypePartsNext
<1>12. Authentic'
  BY <1>2, <1>3, <1>8, AuthenticKept
<1>13. Sessions'
  BY <1>2, SessionsKept
<1> QED
  BY <1>6, <1>8, <1>10, <1>11, <1>12, <1>13 DEF ForumInv

\* load takes what the tables hold.
LEMMA RestartInv == ASSUME ForumInv, NEW n \in Nodes, Restart(n) PROVE ForumInv'
<1>1. MapsTyped /\ RowsTyped /\ ThreadsTyped /\ SyncTyped /\ RestTyped
  BY TypeParts DEF ForumInv
<1>2. signed' = signed /\ net' = net /\ expired' = expired
      /\ postRow' = postRow /\ replyRow' = replyRow /\ graveRow' = graveRow
  BY DEF Restart, netVars, rowVars
<1>3. Nobody \notin Nodes /\ NoAsk \in [peer : Nodes \cup {Nobody}, have : SUBSET Posts] /\ NoAsk.peer = Nobody
  BY ForumAssumption DEF Nobody, NoAsk
<1>4. \A t \in Threads : Node(t) \in Nodes /\ (Role(t) = "sync" => t = <<Node(t), "sync">>)
  BY DEF Threads, Node, Role
<1>5. \A t \in Threads :
          IF Node(t) = n
          THEN pc'[t] = "idle" /\ work'[t] = {} /\ doing'[t] = Nothing
          ELSE /\ work'[t] = work[t] /\ doing'[t] = doing[t]
               /\ \/ pc'[t] = pc[t]
                  \/ Role(t) = "sync" /\ asks[Node(t)].peer = n /\ pc'[t] = "idle"
  BY DEF Restart
<1>6. \A t \in Threads : Node(t) # n => pc'[t] = pc[t] \/ (pc[t] = "asked" /\ pc'[t] = "idle")
  <2> SUFFICES ASSUME NEW t \in Threads, Role(t) = "sync", asks[Node(t)].peer = n PROVE pc[t] = "asked"
    BY <1>5
  <2>1. asks[Node(t)].peer # Nobody => pc[<<Node(t), "sync">>] = "asked"
    BY <1>4 DEF ForumInv, Sessions
  <2> QED
    BY <1>3, <1>4, <2>1
<1>7. \A t \in Threads : Node(t) # n => SameWriter(t)
  BY <1>5, <1>6 DEF SameWriter
<1>8. ThreadsTyped'
  <2>1. pc' \in [Threads -> Places]
    <3>1. \A t \in Threads : pc[t] \in Places /\ "idle" \in Places
      BY <1>1 DEF ThreadsTyped, Places
    <3> QED
      BY <3>1 DEF Restart
  <2>2. work' \in [Threads -> SUBSET signed']
    BY <1>1, <1>2 DEF ThreadsTyped, Restart
  <2>3. doing' \in [Threads -> (signed' \cap Deletions) \cup {Nothing}]
    BY <1>1, <1>2 DEF ThreadsTyped, Restart
  <2>4. \A t \in Threads : doing'[t] \in work'[t] \cup {Nothing}
    BY <1>1, <1>5 DEF ThreadsTyped
  <2>5. \A t \in Threads : pc'[t] \in {"handle", "announce"} => work'[t] # {}
    BY <1>1, <1>5, <1>6 DEF ThreadsTyped
  <2>6. \A t \in Threads : pc'[t] \in {"transaction", "tombstone"} <=> doing'[t] # Nothing
    BY <1>1, <1>5, <1>6 DEF ThreadsTyped
  <2> QED
    BY <2>1, <2>2, <2>3, <2>4, <2>5, <2>6 DEF ThreadsTyped
<1>9. /\ asks' = [o \in Nodes |-> IF o = n \/ asks[o].peer = n THEN NoAsk ELSE asks[o]]
      /\ serves' = [o \in Nodes |-> IF o = n \/ serves[o] = n THEN Nobody ELSE serves[o]]
  BY DEF Restart
<1>10. SyncTyped'
  BY <1>1, <1>3, <1>9 DEF SyncTyped
<1>11. Sessions'
  <2> SUFFICES ASSUME NEW o \in Nodes
               PROVE  /\ asks'[o].peer # Nobody => pc'[<<o, "sync">>] = "asked"
                      /\ serves'[o] # Nobody => asks'[serves'[o]].peer = o
    BY DEF Sessions
  <2>1. <<o, "sync">> \in Threads /\ Node(<<o, "sync">>) = o
    BY DEF Threads, Roles, Node
  <2>2. asks'[o].peer # Nobody => pc'[<<o, "sync">>] = "asked"
    <3>1. asks'[o].peer # Nobody => o # n /\ asks[o].peer # n /\ asks[o].peer # Nobody
      BY <1>3, <1>9
    <3>2. asks[o].peer # Nobody => pc[<<o, "sync">>] = "asked"
      BY DEF ForumInv, Sessions
    <3> QED
      BY <1>5, <2>1, <3>1, <3>2
  <2>3. serves'[o] # Nobody => asks'[serves'[o]].peer = o
    <3>1. serves'[o] # Nobody => o # n /\ serves[o] \in Nodes /\ serves[o] # n /\ serves'[o] = serves[o]
      BY <1>1, <1>3, <1>9 DEF SyncTyped
    <3>2. serves[o] # Nobody => asks[serves[o]].peer = o
      BY DEF ForumInv, Sessions
    <3> QED
      BY <1>3, <1>9, <3>1, <3>2
  <2> QED
    BY <2>2, <2>3
<1>12. RestTyped'
  <2>1. quota' \in [Nodes -> [Buckets -> 0..MaxDeletes]]
    <3>1. 0 \in 0..MaxDeletes
      BY ForumAssumption
    <3> QED
      BY <1>1, <3>1 DEF Restart, RestTyped
  <2>2. restarts' \in 0..Incidents
    <3>1. restarts \in 0..Incidents /\ restarts + Cardinality(expired) < Incidents /\ restarts' = restarts + 1
      BY <1>1 DEF Restart, RestTyped
    <3>2. Cardinality(expired) \in Nat /\ Incidents \in Nat
      <4>1. IsFiniteSet(expired)
        BY <1>1, FS_Subset, ForumAssumption DEF RestTyped
      <4> QED
        BY <4>1, FS_CardinalityType, ForumAssumption
    <3> QED
      BY <3>1, <3>2
  <2>3. cleaning' \subseteq Nodes
    BY <1>1 DEF Restart, RestTyped
  <2> QED
    BY <1>1, <1>2, <2>1, <2>2, <2>3 DEF RestTyped
<1>13. /\ posts'[n] = postRow[n] \ expired /\ replies'[n] = replyRow[n]
       /\ deleted'[n] = Buried(n) /\ pending'[n] = {}
       /\ tally'[n] = Counted(postRow[n] \ expired, replyRow[n])
       /\ \A o \in Nodes \ {n} : /\ posts'[o] = posts[o] /\ replies'[o] = replies[o] /\ deleted'[o] = deleted[o]
                                 /\ pending'[o] = pending[o] /\ tally'[o] = tally[o]
  BY <1>1 DEF Restart, MapsTyped
<1>14. Buried(n) \in SUBSET Posts
  BY <1>1, DeletionParts DEF Buried, RowsTyped
<1>15. MapsTyped' /\ RowsTyped'
  <2>1. /\ posts' \in [Nodes -> SUBSET Posts] /\ deleted' \in [Nodes -> SUBSET Posts]
        /\ pending' \in [Nodes -> SUBSET Posts] /\ replies' \in [Nodes -> SUBSET Replies]
    BY <1>1, <1>14 DEF Restart, MapsTyped, RowsTyped
  <2>2. tally' \in [Nodes -> Counters]
    <3>1. postRow[n] \ expired \in SUBSET Posts /\ replyRow[n] \in SUBSET Replies
      BY <1>1 DEF RowsTyped
    <3>2. Counted(postRow[n] \ expired, replyRow[n]) \in Counters
      BY <3>1, CountedTyped DEF Counters
    <3> QED
      BY <1>1, <3>2 DEF Restart, MapsTyped
  <2> QED
    BY <1>1, <1>2, <2>1, <2>2 DEF MapsTyped, RowsTyped
<1>16. TypeOK'
  BY <1>8, <1>10, <1>12, <1>15, TypePartsNext
<1>17. StatsExact'
  <2>1. tally'[n] = Counted(posts'[n], replies'[n])
    BY <1>13
  <2>2. \A o \in Nodes \ {n} : tally'[o] = Counted(posts'[o], replies'[o])
    BY <1>13 DEF ForumInv, StatsExact
  <2>3. \A o \in Nodes : tally'[o] = Counted(posts'[o], replies'[o])
    BY <2>1, <2>2
  <2> QED
    BY <2>3 DEF StatsExact, Counted
<1>18. OneWriter'
  BY <1>5, <1>6 DEF ForumInv, OneWriter
<1>19. Authentic'
  <2>1. \A o \in Nodes : /\ pending'[o] \subseteq pending[o] /\ posts'[o] \subseteq posts[o] \cup postRow[o]
                         /\ replies'[o] \subseteq replies[o] \cup replyRow[o]
    BY <1>13
  <2> QED
    BY <1>2, <2>1, AuthenticKept
<1>20. PostsLag(n)' /\ RepliesLag(n)'
  <2>1. Written(n)' = {} /\ Erased(n)' = {}
    <3>1. Writers(n)' = {} /\ Erasers(n)' = {}
      BY <1>5 DEF Writers, Erasers, Node
    <3> QED
      BY <3>1 DEF Written, Erased
  <2>2. PostsLag(n) /\ RepliesLag(n) /\ Buried(n)' = Buried(n)
    BY <1>2 DEF ForumInv, Buried
  <2>3. PostsLag(n)'
    BY <1>2, <1>13, <2>1, <2>2 DEF PostsLag
  <2>4. RepliesLag(n)'
    BY <1>2, <1>13, <2>1, <2>2 DEF RepliesLag, RepliesTo
  <2> QED
    BY <2>3, <2>4
<1>21. \A o \in Nodes \ {n} : PostsLag(o)' /\ RepliesLag(o)'
  <2> SUFFICES ASSUME NEW o \in Nodes \ {n} PROVE PostsLag(o)' /\ RepliesLag(o)'
    OBVIOUS
  <2>1. \A t \in Threads : Node(t) = o => SameWriter(t)
    BY <1>7
  <2> QED
    BY <1>2, <1>13, <2>1, LagsKept
<1>22. \A o \in Nodes : PostsLag(o)' /\ RepliesLag(o)'
  BY <1>20, <1>21
<1> QED
  BY <1>11, <1>16, <1>17, <1>18, <1>19, <1>22 DEF ForumInv
-----------------------------------------------------------------------------
(* The invariant.                                                           *)

LEMMA InitForum == Init => ForumInv
<1> SUFFICES ASSUME Init PROVE ForumInv
  OBVIOUS
<1> USE DEF Init
<1>1. /\ posts = [n \in Nodes |-> {}] /\ replies = posts /\ deleted = posts /\ pending = posts
      /\ postRow = posts /\ replyRow = posts /\ graveRow = posts
  OBVIOUS
<1>2. Counted({}, {}) \in Counters
  <2>1. {} \in SUBSET Posts /\ {} \in SUBSET Replies
    OBVIOUS
  <2> QED
    BY <2>1, CountedTyped DEF Counters
<1>3. MapsTyped
  BY <1>1, <1>2 DEF MapsTyped
<1>4. RowsTyped
  BY <1>1 DEF RowsTyped
<1>5. ThreadsTyped
  BY DEF ThreadsTyped, Places
<1>6. SyncTyped
  BY DEF SyncTyped, NoAsk
<1>7. RestTyped
  <2>1. 0 \in 0..MaxDeletes /\ 0 \in 0..Incidents
    BY ForumAssumption
  <2> QED
    BY <2>1 DEF RestTyped
<1>8. TypeOK
  BY <1>3, <1>4, <1>5, <1>6, <1>7, TypeParts
<1>9. StatsExact
  <2>1. \A n \in Nodes : posts[n] = {} /\ replies[n] = {} /\ tally[n] = Counted({}, {})
    OBVIOUS
  <2> QED
    BY <2>1 DEF StatsExact
<1>10. Sessions
  BY DEF Sessions, NoAsk
<1>11. Authentic
  BY DEF Authentic
<1>12. OneWriter
  BY DEF OneWriter
<1>13. \A n \in Nodes : PostsLag(n) /\ RepliesLag(n)
  <2> SUFFICES ASSUME NEW n \in Nodes PROVE PostsLag(n) /\ RepliesLag(n)
    OBVIOUS
  <2>1. Writers(n) = {} /\ Erasers(n) = {}
    BY DEF Writers, Erasers
  <2>2. Written(n) = {} /\ Erased(n) = {} /\ Buried(n) = {}
    BY <2>1 DEF Written, Erased, Buried
  <2>3. /\ posts[n] = {} /\ replies[n] = {} /\ deleted[n] = {} /\ postRow[n] = {} /\ replyRow[n] = {}
    BY <1>1
  <2> QED
    BY <2>2, <2>3 DEF PostsLag, RepliesLag
<1> QED
  BY <1>8, <1>9, <1>10, <1>11, <1>12, <1>13 DEF ForumInv

LEMMA StepInv == ASSUME ForumInv, NEW t \in Threads, Step(t) PROVE ForumInv'
<1>1. ASSUME NEW m \in work[t], StorePost(t, m) PROVE ForumInv'
  BY <1>1, StorePostInv
<1>2. ASSUME NEW m \in work[t], StoreReply(t, m) PROVE ForumInv'
  BY <1>2, StoreReplyInv
<1>3. ASSUME NEW m \in work[t], ApplyDelete(t, m) PROVE ForumInv'
  BY <1>3, ApplyDeleteInv
<1>4. ASSUME NEW m \in work[t], ApplyModDelete(t, m) PROVE ForumInv'
  BY <1>4, ApplyModDeleteInv
<1>5. ASSUME NEW m \in work[t], DeleteRefused(t, m) PROVE ForumInv'
  BY <1>5, RefusedInv
<1>6. CASE Transaction(t)
  BY <1>6, TransactionInv
<1>7. CASE Tombstone(t)
  BY <1>7, TombstoneInv
<1> QED
  BY <1>1, <1>2, <1>3, <1>4, <1>5, <1>6, <1>7 DEF Step

LEMMA ForumStep == ForumInv /\ [Next]_vars => ForumInv'
<1> SUFFICES ASSUME ForumInv, [Next]_vars PROVE ForumInv'
  OBVIOUS
<1>1. ASSUME NEW n \in Nodes, NEW m \in net, Deliver(n, m) PROVE ForumInv'
  BY <1>1, DeliverInv
<1>2. ASSUME NEW t \in Threads, Step(t) PROVE ForumInv'
  BY <1>2, StepInv
<1>3. ASSUME NEW p \in Posts, CreatePost(p) \/ DeleteOwnPost(p) PROVE ForumInv'
  BY <1>3, UserInv
<1>4. ASSUME NEW r \in Replies, CreateReply(r) PROVE ForumInv'
  BY <1>4, UserInv
<1>5. ASSUME NEW n \in Nodes, NEW p \in Posts, IssueModDelete(n, p) PROVE ForumInv'
  BY <1>5, UserInv
<1>6. ASSUME NEW n \in Nodes, NEW p \in Nodes, SyncAsk(n, p) PROVE ForumInv'
  BY <1>6, SyncAskInv
<1>7. ASSUME NEW n \in Nodes, Announce(n) PROVE ForumInv'
  BY <1>7, AnnounceInv
<1>8. ASSUME NEW n \in Nodes, Collect(n) PROVE ForumInv'
  BY <1>8, CollectInv
<1>9. ASSUME NEW n \in Nodes, Answer(n) PROVE ForumInv'
  BY <1>9, AnswerInv
<1>10. ASSUME NEW n \in Nodes, SyncFail(n) PROVE ForumInv'
  BY <1>10, SyncFailInv
<1>11. ASSUME NEW n \in Nodes, CleanRows(n) \/ CleanMaps(n) PROVE ForumInv'
  BY <1>11, CleanInv
<1>12. ASSUME NEW n \in Nodes, Restart(n) PROVE ForumInv'
  BY <1>12, RestartInv
<1>13. ASSUME \/ \E n \in Nodes : WindowPasses(n)
              \/ \E n \in Nodes, p \in Posts : PendingExpires(n, p)
              \/ \E p \in Posts : Expire(p)
              \/ UNCHANGED vars
       PROVE  ForumInv'
  BY <1>13, ClockInv
<1> QED
  BY <1>1, <1>2, <1>3, <1>4, <1>5, <1>6, <1>7, <1>8, <1>9, <1>10, <1>11, <1>12, <1>13 DEF Next

\* The inductive invariant: the counters are exact, the tables lag behind the maps
\* only by what a goroutine is about to write and by expired topics, no two
\* goroutines of a node write about one topic, and nothing is stored that its
\* author has not signed.
THEOREM ForumInvariance == Spec => []ForumInv
<1>1. Init => ForumInv
  BY InitForum
<1>2. ForumInv /\ [Next]_vars => ForumInv'
  BY ForumStep
<1> QED
  BY <1>1, <1>2, PTL DEF Spec

\* AuthorStats never drifts: storePost, storeReply, the deletions, cleanup and load
\* keep the counters at what the node holds, in any order.
THEOREM AlwaysExact == Spec => []StatsExact
<1>1. ForumInv => StatsExact
  BY DEF ForumInv
<1> QED
  BY <1>1, ForumInvariance, PTL

\* With no write under way a restart would load what the maps hold: the
\* transaction after the lock, the tombstone of a post that never came and the two
\* halves of cleanup never leave the tables and the maps apart.
THEOREM AlwaysMatch == Spec => []TablesMatch
<1>1. ForumInv => TablesMatch
  <2> SUFFICES ASSUME ForumInv, NEW n \in Nodes, Settled(n)
               PROVE  LET live == posts[n] \ expired
                      IN  /\ live = postRow[n] \ expired
                          /\ replies[n] \cap RepliesTo(live) = replyRow[n] \cap RepliesTo(live)
                          /\ deleted[n] = Buried(n)
    BY DEF TablesMatch, ForumInv
  <2>1. Writers(n) = {} /\ Erasers(n) = {}
    BY DEF Settled, Writers, Erasers
  <2>2. Written(n) = {} /\ Erased(n) = {}
    BY <2>1 DEF Written, Erased
  <2>3. PostsLag(n) /\ RepliesLag(n)
    BY DEF ForumInv
  <2>4. posts[n] \ expired = postRow[n] \ expired /\ deleted[n] = Buried(n)
    BY <2>2, <2>3 DEF PostsLag
  <2>5. \A r \in RepliesTo(posts[n] \ expired) : r \in replies[n] <=> r \in replyRow[n]
    BY <2>2, <2>3 DEF RepliesLag, RepliesTo
  <2> QED
    BY <2>4, <2>5
<1> QED
  BY <1>1, ForumInvariance, PTL
-----------------------------------------------------------------------------
(* The forum implements newest-wins replication.                            *)

LEMMA HeldIs ==
    /\ \A n \in Nodes, p \in Posts :
           held[n][p] = IF p \in posts[n] THEN 1 ELSE IF p \in deleted[n] THEN Gone ELSE 0
    /\ \A n \in Nodes, p \in Posts :
           held'[n][p] = IF p \in posts'[n] THEN 1 ELSE IF p \in deleted'[n] THEN Gone ELSE 0
    /\ held' = [n \in Nodes |-> [p \in Posts |-> held'[n][p]]]
  BY DEF held

LEMMA LevelsAre ==
    \A p \in Posts : /\ Post(p) \in signed => 1 \in levels[p]
                     /\ {Delete(p), ModDelete(p)} \cap signed # {} => Gone \in levels[p]
  BY DEF levels

LEMMA LevelsKept == UNCHANGED signed => UNCHANGED levels
  BY DEF levels

LEMMA HeldKept == UNCHANGED <<posts, deleted>> => UNCHANGED held
  BY DEF held

\* A user signs something.
LEMMA BeginRefines ==
    ASSUME ForumInv, NEW n \in Nodes, NEW m \in Items, NEW b \in BOOLEAN, Begin(n, m, b)
    PROVE  Abstract!Next \/ UNCHANGED <<levels, held>>
<1>1. signed' = signed \cup {m} /\ UNCHANGED held
  BY HeldKept DEF Begin, mapVars
<1>2. \A p, q \in Posts : /\ (Post(p) = Post(q) => p = q) /\ (Delete(p) = Delete(q) => p = q)
                          /\ (ModDelete(p) = ModDelete(q) => p = q)
  BY DEF Post, Delete, ModDelete
<1>3. /\ \A p, q : Post(p) # Delete(q) /\ Post(p) # ModDelete(q) /\ Delete(p) # ModDelete(q)
      /\ \A p, r : Reply(r) \notin {Post(p), Delete(p), ModDelete(p)}
  BY DEF Post, Reply, Delete, ModDelete
<1>4. levels' = [p \in Posts |-> (IF Post(p) \in signed' THEN {1} ELSE {})
                                 \cup (IF {Delete(p), ModDelete(p)} \cap signed' # {} THEN {Gone} ELSE {})]
  BY DEF levels
<1>5. levels = [p \in Posts |-> (IF Post(p) \in signed THEN {1} ELSE {})
                                \cup (IF {Delete(p), ModDelete(p)} \cap signed # {} THEN {Gone} ELSE {})]
  BY DEF levels
<1>6. 1 \in 1..Gone /\ Gone \in 1..Gone
  BY DEF Gone
<1>7. levels = [q \in Posts |-> levels[q]] /\ levels' = [q \in Posts |-> levels'[q]]
  BY <1>4, <1>5
<1>8. ASSUME NEW p \in Posts, m = Post(p) PROVE Abstract!Next
  <2>1. \A q \in Posts : levels'[q] = levels[q] \cup (IF q = p THEN {1} ELSE {})
    BY <1>1, <1>2, <1>3, <1>4, <1>5, <1>8
  <2>2. levels' = [levels EXCEPT ![p] = @ \cup {1}]
    BY <1>7, <2>1
  <2>3. Abstract!Sign(p, 1)
    BY <1>1, <2>2 DEF Abstract!Sign
  <2> QED
    BY <1>6, <2>3 DEF Abstract!Next
<1>9. ASSUME NEW p \in Posts, m \in {Delete(p), ModDelete(p)} PROVE Abstract!Next
  <2>1. \A q \in Posts : levels'[q] = levels[q] \cup (IF q = p THEN {Gone} ELSE {})
    BY <1>1, <1>2, <1>3, <1>4, <1>5, <1>9
  <2>2. levels' = [levels EXCEPT ![p] = @ \cup {Gone}]
    BY <1>7, <2>1
  <2>3. Abstract!Sign(p, Gone)
    BY <1>1, <2>2 DEF Abstract!Sign
  <2> QED
    BY <1>6, <2>3 DEF Abstract!Next
<1>10. ASSUME NEW r \in Replies, m = Reply(r) PROVE UNCHANGED levels
  <2>1. \A q \in Posts : levels'[q] = levels[q]
    BY <1>1, <1>3, <1>4, <1>5, <1>10
  <2> QED
    BY <1>4, <1>5, <2>1
<1> QED
  BY <1>1, <1>8, <1>9, <1>10 DEF Items, Deletions

\* A node takes up a level that was signed.
LEMMA AdoptRefines ==
    ASSUME TypeOK, NEW n \in Nodes, NEW p \in Posts, NEW l \in {1, Gone},
           l \in levels[p], UNCHANGED signed,
           held[n][p] < l, held'[n][p] = l,
           \A q \in Posts \ {p} : /\ q \in posts'[n] <=> q \in posts[n]
                                  /\ q \in deleted'[n] <=> q \in deleted[n],
           \A o \in Nodes \ {n} : posts'[o] = posts[o] /\ deleted'[o] = deleted[o]
    PROVE  Abstract!Next
<1>1. \A o \in Nodes, q \in Posts : held'[o][q] = IF o = n /\ q = p THEN l ELSE held[o][q]
  BY HeldIs
<1>2. held' = [held EXCEPT ![n][p] = l]
  <2>1. held = [o \in Nodes |-> [q \in Posts |-> held[o][q]]]
    BY DEF held
  <2>2. held' = [o \in Nodes |-> [q \in Posts |-> IF o = n /\ q = p THEN l ELSE held[o][q]]]
    BY <1>1, HeldIs
  <2> DEFINE h == held
  <2>3. h = [o \in Nodes |-> [q \in Posts |-> h[o][q]]]
        /\ held' = [o \in Nodes |-> [q \in Posts |-> IF o = n /\ q = p THEN l ELSE h[o][q]]]
    BY <2>1, <2>2
  <2> HIDE DEF h
  <2>4. held' = [h EXCEPT ![n][p] = l]
    BY <2>3
  <2> QED
    BY <2>4 DEF h
<1>3. Abstract!Adopt(n, p, l)
  BY <1>2, LevelsKept DEF Abstract!Adopt
<1>4. l \in 1..Gone
  BY DEF Gone
<1> QED
  BY <1>3, <1>4 DEF Abstract!Next

LEMMA StorePostRefines ==
    ASSUME ForumInv, NEW t \in Threads, NEW m \in work[t], StorePost(t, m)
    PROVE  Abstract!Next \/ UNCHANGED <<levels, held>>
<1> DEFINE n == Node(t)
           p == m.id
<1>1. n \in Nodes /\ p \in Posts /\ Post(p) \in signed
  BY Handled DEF StorePost, ForumInv
<1>2. MapsTyped /\ TypeOK
  BY TypeParts DEF ForumInv
<1>3. UNCHANGED signed
  BY DEF StorePost, netVars
<1> HIDE DEF p
<1>4. CASE UNCHANGED <<posts, deleted>>
  BY <1>3, <1>4, LevelsKept, HeldKept
<1>5. CASE /\ p \notin posts[n] \cup deleted[n] /\ p \in pending[n]
           /\ deleted' = [deleted EXCEPT ![n] = @ \cup {p}]
           /\ UNCHANGED posts
  <2>1. Gone \in levels[p]
    BY <1>1, <1>5, LevelsAre DEF ForumInv, Authentic
  <2>2. /\ deleted'[n] = deleted[n] \cup {p} /\ posts'[n] = posts[n]
        /\ \A o \in Nodes \ {n} : posts'[o] = posts[o] /\ deleted'[o] = deleted[o]
    BY <1>1, <1>2, <1>5 DEF MapsTyped
  <2>3. held[n][p] < Gone /\ held'[n][p] = Gone
    BY <1>1, <1>5, <2>2, HeldIs DEF Gone
  <2> HIDE DEF n
  <2> QED
    BY <1>1, <1>2, <1>3, <2>1, <2>2, <2>3, AdoptRefines
<1>6. CASE /\ p \notin posts[n] \cup deleted[n] \cup pending[n]
           /\ posts' = [posts EXCEPT ![n] = @ \cup {p}]
           /\ UNCHANGED deleted
  <2>1. 1 \in levels[p]
    BY <1>1, LevelsAre
  <2>2. /\ posts'[n] = posts[n] \cup {p} /\ deleted'[n] = deleted[n]
        /\ \A o \in Nodes \ {n} : posts'[o] = posts[o] /\ deleted'[o] = deleted[o]
    BY <1>1, <1>2, <1>6 DEF MapsTyped
  <2>3. held[n][p] < 1 /\ held'[n][p] = 1
    BY <1>1, <1>6, <2>2, HeldIs
  <2> HIDE DEF n
  <2> QED
    BY <1>1, <1>2, <1>3, <2>1, <2>2, <2>3, AdoptRefines
<1> QED
  BY <1>4, <1>5, <1>6 DEF StorePost, p

\* A deletion takes a node's copy from wherever it is.
LEMMA RemoveRefines ==
    ASSUME ForumInv, NEW n \in Nodes, NEW p \in Posts, p \notin deleted[n],
           {Delete(p), ModDelete(p)} \cap signed # {}, UNCHANGED signed, Remove(n, {p}),
           deleted' = [deleted EXCEPT ![n] = @ \cup {p}]
    PROVE  Abstract!Next
<1>1. MapsTyped /\ TypeOK
  BY TypeParts DEF ForumInv
<1>2. /\ posts'[n] = posts[n] \ {p} /\ deleted'[n] = deleted[n] \cup {p}
      /\ \A o \in Nodes \ {n} : posts'[o] = posts[o] /\ deleted'[o] = deleted[o]
  BY <1>1 DEF MapsTyped, Remove
<1>3. held[n][p] < Gone /\ held'[n][p] = Gone
  BY <1>2, HeldIs DEF Gone
<1>4. Gone \in levels[p]
  BY LevelsAre
<1> QED
  BY <1>1, <1>2, <1>3, <1>4, AdoptRefines

LEMMA DeletionRefines ==
    ASSUME ForumInv, NEW t \in Threads, NEW m \in work[t], ApplyDelete(t, m) \/ ApplyModDelete(t, m)
    PROVE  Abstract!Next \/ UNCHANGED <<levels, held>>
<1> DEFINE n == Node(t)
           p == m.id
<1>1. /\ n \in Nodes /\ p \in Posts /\ m \in {Delete(p), ModDelete(p)} /\ m \in signed
      /\ UNCHANGED signed
  BY Handled DEF ApplyDelete, ApplyModDelete, ForumInv, netVars
<1> HIDE DEF p
<1>2. CASE UNCHANGED <<posts, deleted>>
  BY <1>1, <1>2, LevelsKept, HeldKept
<1>3. CASE p \notin deleted[n] /\ Remove(n, {p}) /\ deleted' = [deleted EXCEPT ![n] = @ \cup {p}]
  BY <1>1, <1>3, RemoveRefines
<1>4. p \in posts[n] => p \notin deleted[n]
  BY <1>1 DEF ForumInv, PostsLag
<1> QED
  BY <1>2, <1>3, <1>4 DEF ApplyDelete, ApplyModDelete, p

\* Gossip, late and replayed items, syncs both ways and users only ever move a
\* node's copy of a topic up to a signed level, unless it expires or the process
\* restarts.
THEOREM ForumReplicates == Spec => Replicates
<1>1. Init => Abstract!Init
  BY DEF Init, Abstract!Init, levels, held
<1>2. ForumInv /\ [Next]_vars => [Abstract!Next \/ Forgetting]_<<levels, held>>
  <2> SUFFICES ASSUME ForumInv, [Next]_vars
               PROVE  Abstract!Next \/ Forgetting \/ UNCHANGED <<levels, held>>
    OBVIOUS
  <2>1. CASE UNCHANGED <<signed, posts, deleted>>
    BY <2>1, LevelsKept, HeldKept
  <2>2. ASSUME NEW t \in Threads, Step(t)
        PROVE  Abstract!Next \/ UNCHANGED <<levels, held>>
    <3>1. CASE UNCHANGED <<signed, posts, deleted>>
      BY <3>1, LevelsKept, HeldKept
    <3>2. ASSUME NEW m \in work[t], StorePost(t, m) PROVE Abstract!Next \/ UNCHANGED <<levels, held>>
      BY <3>2, StorePostRefines
    <3>3. ASSUME NEW m \in work[t], ApplyDelete(t, m) \/ ApplyModDelete(t, m)
          PROVE  Abstract!Next \/ UNCHANGED <<levels, held>>
      BY <3>3, DeletionRefines
    <3> QED
      BY <2>2, <3>1, <3>2, <3>3
         DEF Step, StoreReply, DeleteRefused, Transaction, Tombstone, netVars, mapVars
  <2>3. ASSUME \/ \E p \in Posts : CreatePost(p) \/ DeleteOwnPost(p)
               \/ \E r \in Replies : CreateReply(r)
               \/ \E n \in Nodes, p \in Posts : IssueModDelete(n, p)
        PROVE  Abstract!Next \/ UNCHANGED <<levels, held>>
    <3>1. \A x \in Posts \cup Replies : Home[Author[x]] \in Nodes
      BY ForumAssumption
    <3>2. \A p \in Posts : Post(p) \in Items /\ Delete(p) \in Items /\ ModDelete(p) \in Items
      BY DEF Items, Deletions
    <3>3. \A r \in Replies : Reply(r) \in Items
      BY DEF Items
    <3> QED
      BY <2>3, <3>1, <3>2, <3>3, BeginRefines DEF CreatePost, DeleteOwnPost, CreateReply, IssueModDelete
  <2>4. ASSUME NEW n \in Nodes, CleanMaps(n) \/ Restart(n) PROVE Forgetting
    <3>1. CASE CleanMaps(n)
      BY <3>1 DEF CleanMaps, Forgetting
    <3>2. CASE Restart(n)
      <4>1. restarts \in 0..Incidents /\ Incidents \in Nat
        BY TypeParts, ForumAssumption DEF ForumInv, RestTyped
      <4> QED
        BY <3>2, <4>1 DEF Restart, Forgetting
    <3> QED
      BY <2>4, <3>1, <3>2
  <2>5. ASSUME \/ \E n \in Nodes, m \in net : Deliver(n, m)
               \/ \E p \in Posts : Expire(p)
               \/ \E n \in Nodes, p \in Posts : PendingExpires(n, p)
               \/ \E n, p \in Nodes : SyncAsk(n, p)
               \/ \E n \in Nodes : Announce(n) \/ Collect(n) \/ Answer(n) \/ SyncFail(n)
               \/ \E n \in Nodes : CleanRows(n) \/ WindowPasses(n)
               \/ UNCHANGED vars
        PROVE  UNCHANGED <<signed, posts, deleted>>
    BY <2>5 DEF Deliver, Expire, PendingExpires, SyncAsk, Announce, Collect, Answer, SyncFail, CleanRows,
                WindowPasses, vars, netVars, mapVars
  <2> QED
    BY <2>1, <2>2, <2>3, <2>4, <2>5 DEF Next
<1> QED
  BY <1>1, <1>2, ForumInvariance, PTL DEF Spec, Replicates
=============================================================================
