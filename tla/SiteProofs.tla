----------------------------- MODULE SiteProofs -----------------------------
(***************************************************************************)
(* Proofs about personal-site pages, for any nodes, authors, pages, limits *)
(* and number of restarts: a page a node knows to be deleted does not come *)
(* back while the node runs, and the nodes together implement newest-wins  *)
(* replication.                                                            *)
(***************************************************************************)
EXTENDS SitePages, FiniteSetTheorems, SequenceTheorems, TLAPS

Places == {"idle", "asked", "handle", "persist", "upsert", "bury", "announce"}

Requests == [peer : Nodes \cup {"none"}, page : [Keys -> 0..MaxTime], grave : [Keys -> 0..MaxTime]]

Types ==
    /\ time \in 0..MaxTime /\ signed \subseteq Items /\ net \subseteq signed
    /\ page \in Versions /\ grave \in Versions
    /\ pageRow \in Versions /\ graveRow \in Versions
    /\ recent \in [Nodes -> SUBSET Keys] /\ newcomers \in [Nodes -> 0..MaxNew]
    /\ asked \in [Nodes -> Requests]
    /\ restarts \in 0..Restarts

\* What a thread still has to handle was signed, and fits the place it is at.
Threading ==
    /\ pc \in [Threads -> Places] /\ jobs \in [Threads -> Seq(Items)]
    /\ \A t \in Threads : \A i \in DOMAIN jobs[t] : jobs[t][i] \in signed
    /\ \A t \in Threads : pc[t] \notin {"idle", "asked"} => jobs[t] # <<>>
    /\ \A t \in Threads : pc[t] \in {"persist", "upsert"} => Job(t).type = "page"
    /\ \A t \in Threads : pc[t] = "bury" => Job(t).type = "delete"
    /\ \A n \in Nodes : pc[<<n, "sync">>] = "asked" => asked[n].peer \in Nodes

\* Every copy, in memory or in a table, was signed.
Authentic(pages, graves) ==
    \A n \in Nodes, k \in Keys :
        /\ pages[n][k] # 0 => Page(k, pages[n][k]) \in signed
        /\ graves[n][k] # 0 => Delete(k, graves[n][k]) \in signed

\* The inductive invariant.
SiteInv ==
    /\ Types
    /\ Threading
    /\ Authentic(page, grave)
    /\ Authentic(pageRow, graveRow)

-----------------------------------------------------------------------------
(* Threads. *)

LEMMA ThreadParts ==
    /\ \A t \in Threads : t = <<Node(t), Role(t)>> /\ Node(t) \in Nodes /\ Role(t) \in Roles
    /\ \A n \in Nodes, r \in Roles : <<n, r>> \in Threads
BY DEF Threads, Node, Role

\* The rest of a sequence.
LEMMA TailParts ==
    ASSUME NEW S, NEW s \in Seq(S), s # <<>>
    PROVE  /\ Tail(s) \in Seq(S)
           /\ Len(s) # 1 => Tail(s) # <<>>
           /\ \A i \in DOMAIN Tail(s) : i + 1 \in DOMAIN s /\ Tail(s)[i] = s[i + 1]
<1>1. Len(s) \in Nat \ {0} /\ DOMAIN s = 1..Len(s)
  BY EmptySeq, LenProperties
<1>2. Tail(s) \in Seq(S) /\ Len(Tail(s)) = Len(s) - 1 /\ DOMAIN Tail(s) = 1..Len(Tail(s))
  BY HeadTailProperties, LenProperties
<1>3. \A i \in 1..Len(Tail(s)) : Tail(s)[i] = s[i + 1]
  BY HeadTailProperties
<1>4. Len(s) # 1 => Tail(s) # <<>>
  <2>1. Len(<<>>) = 0
    OBVIOUS
  <2>2. Len(s) # 1 => Len(Tail(s)) # 0
    BY <1>1, <1>2
  <2> QED
    BY <2>1, <2>2, Zenon
<1> QED
  BY <1>1, <1>2, <1>3, <1>4

\* The job at hand is signed.
LEMMA JobSigned ==
    ASSUME SiteInv, NEW t \in Threads, pc[t] \notin {"idle", "asked"}
    PROVE  /\ jobs[t] \in Seq(Items) /\ jobs[t] # <<>> /\ Job(t) \in signed
           /\ Job(t) \in Items /\ Job(t).key \in Keys /\ Job(t).at \in 1..MaxTime
           /\ Job(t) = IF Job(t).type = "page" THEN Page(Job(t).key, Job(t).at)
                                               ELSE Delete(Job(t).key, Job(t).at)
<1>1. jobs[t] \in Seq(Items) /\ jobs[t] # <<>>
  BY DEF SiteInv, Threading
<1>2. 1 \in DOMAIN jobs[t] /\ Job(t) = jobs[t][1]
  BY <1>1 DEF Job
<1>3. Job(t) \in signed
  BY <1>2 DEF SiteInv, Threading
<1>4. Job(t) \in Items
  BY <1>3 DEF SiteInv, Types
<1> QED
  BY <1>1, <1>3, <1>4 DEF Items, Page, Delete

\* Ending a job keeps the threads in order.
LEMMA FinishedThreading ==
    ASSUME SiteInv, NEW t \in Threads, pc[t] \in {"handle", "persist", "upsert", "bury"},
           Finished(t), UNCHANGED <<signed, asked>>
    PROVE  Threading'
<1>1. CASE Role(t) = "user"
  <2>1. pc' = [pc EXCEPT ![t] = "announce"] /\ jobs' = jobs
    BY <1>1 DEF Finished, Goto
  <2> QED
    BY <2>1, ThreadParts DEF SiteInv, Threading, Places, Job, Roles
<1>2. CASE Role(t) # "user"
  <2>1. jobs' = [jobs EXCEPT ![t] = Tail(@)]
    BY <1>2 DEF Finished
  <2>2. pc' = [pc EXCEPT ![t] = IF Len(jobs[t]) = 1 THEN "idle" ELSE "handle"]
    BY <1>2 DEF Finished, Goto
  <2>3. jobs[t] \in Seq(Items) /\ jobs[t] # <<>>
    BY JobSigned
  <2>4. /\ Tail(jobs[t]) \in Seq(Items)
        /\ Len(jobs[t]) # 1 => Tail(jobs[t]) # <<>>
        /\ \A i \in DOMAIN Tail(jobs[t]) : i + 1 \in DOMAIN jobs[t] /\ Tail(jobs[t])[i] = jobs[t][i + 1]
    BY <2>3, TailParts
  <2>5. \A i \in DOMAIN Tail(jobs[t]) : Tail(jobs[t])[i] \in signed
    BY <2>4 DEF SiteInv, Threading
  <2> QED
    BY <2>1, <2>2, <2>4, <2>5, ThreadParts DEF SiteInv, Threading, Places, Job, Roles
<1> QED
  BY <1>1, <1>2

\* So does going on with it.
LEMMA GoOnThreading ==
    ASSUME SiteInv, NEW t \in Threads, pc[t] \notin {"idle", "asked"},
           NEW place \in {"persist", "upsert", "bury"}, Goto(t, place),
           Job(t).type = (IF place = "bury" THEN "delete" ELSE "page"),
           UNCHANGED <<signed, asked, jobs>>
    PROVE  Threading'
BY ThreadParts DEF SiteInv, Threading, Places, Job, Goto, Roles

\* And a new list of signed work.
LEMMA StartThreading ==
    ASSUME SiteInv, NEW t \in Threads, pc[t] \in {"idle", "asked"},
           NEW place \in {"handle", "persist"}, Goto(t, place),
           NEW s \in Seq(Items), s # <<>>, jobs' = [jobs EXCEPT ![t] = s],
           \A i \in DOMAIN s : s[i] \in signed', signed \subseteq signed',
           place = "persist" => s[1].type = "page",
           \A n \in Nodes : <<n, "sync">> # t => asked'[n] = asked[n]
    PROVE  Threading'
<1>1. Head(s) = s[1]
  OBVIOUS
<1> QED
  BY <1>1, ThreadParts DEF SiteInv, Threading, Places, Job, Goto, Roles
-----------------------------------------------------------------------------
(* Each action keeps the invariant. *)

\* A copy set to a new version.
LEMMA Setting ==
    ASSUME NEW f \in Versions, NEW n \in Nodes, NEW k \in Keys, NEW v \in 0..MaxTime
    PROVE  LET g == [f EXCEPT ![n][k] = v]
           IN  /\ g \in Versions /\ g[n][k] = v
               /\ \A p \in Nodes, l \in Keys : p # n \/ l # k => g[p][l] = f[p][l]
BY DEF Versions

\* A copy set to what was signed is authentic.
LEMMA AuthenticSetting ==
    ASSUME NEW f \in Versions, NEW g \in Versions, Authentic(f, g),
           NEW n \in Nodes, NEW k \in Keys, NEW v \in 0..MaxTime
    PROVE  /\ (v # 0 => Page(k, v) \in signed) => Authentic([f EXCEPT ![n][k] = v], g)
           /\ (v # 0 => Delete(k, v) \in signed) => Authentic(f, [g EXCEPT ![n][k] = v])
<1>1. ASSUME v # 0 => Page(k, v) \in signed
      PROVE  Authentic([f EXCEPT ![n][k] = v], g)
  <2> SUFFICES ASSUME NEW p \in Nodes, NEW l \in Keys, [f EXCEPT ![n][k] = v][p][l] # 0
               PROVE  Page(l, [f EXCEPT ![n][k] = v][p][l]) \in signed
    BY DEF Authentic
  <2> QED
    BY <1>1, Setting DEF Authentic
<1>2. ASSUME v # 0 => Delete(k, v) \in signed
      PROVE  Authentic(f, [g EXCEPT ![n][k] = v])
  <2> SUFFICES ASSUME NEW p \in Nodes, NEW l \in Keys, [g EXCEPT ![n][k] = v][p][l] # 0
               PROVE  Delete(l, [g EXCEPT ![n][k] = v][p][l]) \in signed
    BY DEF Authentic
  <2> QED
    BY <1>2, Setting DEF Authentic
<1> QED
  BY <1>1, <1>2

LEMMA InitInv == Init => SiteInv
<1> SUFFICES ASSUME Init PROVE SiteInv
  OBVIOUS
<1>1. Nothing \in [Keys -> 0..MaxTime] /\ \A k \in Keys : Nothing[k] = 0
  BY SiteAssumption DEF Nothing
<1>2. Types
  BY <1>1, SiteAssumption DEF Init, Types, Versions, Requests, NoRequest
<1>3. Threading
  <2>1. pc \in [Threads -> Places] /\ \A t \in Threads : pc[t] = "idle"
    BY DEF Init, Places
  <2>2. jobs \in [Threads -> Seq(Items)] /\ \A t \in Threads : jobs[t] = <<>>
    BY EmptySeq DEF Init
  <2>3. DOMAIN <<>> = {}
    OBVIOUS
  <2> QED
    BY <2>1, <2>2, <2>3, ThreadParts DEF Threading, Roles
<1> QED
  BY <1>1, <1>2, <1>3 DEF Init, SiteInv, Authentic

LEMMA DeliverInv ==
    ASSUME SiteInv, NEW n \in Nodes, NEW m \in net, Deliver(n, m)
    PROVE  SiteInv'
<1>1. m \in Items /\ m \in signed
  BY DEF SiteInv, Types
<1>2. <<n, "gossip">> \in Threads
  BY ThreadParts DEF Roles
<1>3. /\ <<m>> \in Seq(Items) /\ <<m>> # <<>>
      /\ \A i \in DOMAIN <<m>> : <<m>>[i] = m
  BY <1>1
<1>4. Threading'
  BY <1>1, <1>2, <1>3, StartThreading DEF Deliver, netVars
<1> QED
  BY <1>4 DEF Deliver, SiteInv, Types, Authentic, netVars, mapVars, rowVars

LEMMA HandlePageInv ==
    ASSUME SiteInv, NEW t \in Threads, HandlePage(t)
    PROVE  SiteInv'
<1>1. Job(t).key \in Keys /\ Node(t) \in Nodes /\ Owner[Job(t).key] \in Authors
  BY JobSigned, ThreadParts, SiteAssumption DEF HandlePage
<1>2. Threading'
  BY FinishedThreading, GoOnThreading DEF HandlePage, netVars
<1>3. recent' \in [Nodes -> SUBSET Keys]
  BY <1>1 DEF HandlePage, SiteInv, Types
<1>4. newcomers' \in [Nodes -> 0..MaxNew]
  <2>1. CASE Owner[Job(t).key] \notin Known(Node(t)) /\ ~Refused(t, Job(t))
    <3>1. newcomers[Node(t)] \in 0..MaxNew /\ ~(newcomers[Node(t)] >= MaxNew)
      BY <2>1, <1>1 DEF Refused, SiteInv, Types
    <3>2. newcomers' = [newcomers EXCEPT ![Node(t)] = newcomers[Node(t)] + 1]
      BY <2>1 DEF HandlePage
    <3> QED
      BY <3>1, <3>2, <1>1, SiteAssumption DEF SiteInv, Types
  <2>2. CASE ~(Owner[Job(t).key] \notin Known(Node(t)) /\ ~Refused(t, Job(t)))
    BY <2>2 DEF HandlePage, SiteInv, Types
  <2> QED
    BY <2>1, <2>2
<1> QED
  BY <1>2, <1>3, <1>4 DEF HandlePage, SiteInv, Types, Authentic, netVars, rowVars

LEMMA PersistInv ==
    ASSUME SiteInv, NEW t \in Threads, Persist(t)
    PROVE  SiteInv'
<1> DEFINE n == Node(t)
           m == Job(t)
<1>1. /\ n \in Nodes /\ m.key \in Keys /\ m.at \in 1..MaxTime /\ m.type = "page"
      /\ Page(m.key, m.at) \in signed
  BY JobSigned, ThreadParts DEF Persist, SiteInv, Threading
<1>2. Threading'
  BY <1>1, FinishedThreading, GoOnThreading DEF Persist, netVars
<1>3. page' \in {page, [page EXCEPT ![n][m.key] = m.at]}
  BY DEF Persist
<1>4. page' \in Versions
  BY <1>1, <1>3, Setting DEF SiteInv, Types
<1>5. Authentic(page', grave)
  <2>1. m.at \in 0..MaxTime
    BY <1>1
  <2>2. Authentic([page EXCEPT ![n][m.key] = m.at], grave)
    BY <1>1, <2>1, AuthenticSetting DEF SiteInv, Types
  <2> QED
    BY <1>3, <2>2 DEF SiteInv
<1>6. Authentic(page, grave)'
  BY <1>5 DEF Persist, Authentic, netVars
<1> QED
  BY <1>2, <1>4, <1>6 DEF Persist, SiteInv, Types, Authentic, netVars, rowVars

LEMMA UpsertInv ==
    ASSUME SiteInv, NEW t \in Threads, Upsert(t)
    PROVE  SiteInv'
<1> DEFINE n == Node(t)
           m == Job(t)
<1>1. /\ n \in Nodes /\ m.key \in Keys /\ m.at \in 1..MaxTime
      /\ Page(m.key, m.at) \in signed
  BY JobSigned, ThreadParts DEF Upsert, SiteInv, Threading
<1>2. Threading'
  BY FinishedThreading DEF Upsert, netVars
<1>3. pageRow' \in Versions
  BY <1>1 DEF Upsert, SiteInv, Types, Versions
<1>4. Authentic(pageRow, graveRow)'
  BY <1>1 DEF Upsert, SiteInv, Types, Versions, Authentic, netVars
<1> QED
  BY <1>2, <1>3, <1>4 DEF Upsert, SiteInv, Types, Authentic, netVars, mapVars

LEMMA ApplyDeleteInv ==
    ASSUME SiteInv, NEW t \in Threads, ApplyDelete(t)
    PROVE  SiteInv'
<1> DEFINE n == Node(t)
           m == Job(t)
<1>1. /\ n \in Nodes /\ m.key \in Keys /\ m.at \in 1..MaxTime /\ m.type = "delete"
      /\ Delete(m.key, m.at) \in signed
  BY JobSigned, ThreadParts DEF ApplyDelete
<1>2. Threading'
  BY <1>1, FinishedThreading, GoOnThreading DEF ApplyDelete, netVars
<1>3. \/ page' = page /\ grave' = grave
      \/ page' = [page EXCEPT ![n][m.key] = 0] /\ grave' = [grave EXCEPT ![n][m.key] = m.at]
  BY DEF ApplyDelete
<1>4. 0 \in 0..MaxTime /\ m.at \in 0..MaxTime
  BY <1>1, SiteAssumption
<1>5. page' \in Versions /\ grave' \in Versions
  BY <1>1, <1>3, <1>4, Setting DEF SiteInv, Types
<1>6. Authentic([page EXCEPT ![n][m.key] = 0], grave)
  BY <1>1, <1>4, AuthenticSetting DEF SiteInv, Types
<1>7. Authentic(page', grave')
  <2>1. [page EXCEPT ![n][m.key] = 0] \in Versions
    BY <1>1, <1>4, Setting DEF SiteInv, Types
  <2>2. Authentic([page EXCEPT ![n][m.key] = 0], [grave EXCEPT ![n][m.key] = m.at])
    BY <1>1, <1>4, <1>6, <2>1, AuthenticSetting DEF SiteInv, Types
  <2> QED
    BY <1>3, <2>2 DEF SiteInv
<1>8. Authentic(page, grave)'
  BY <1>7 DEF ApplyDelete, Authentic, netVars
<1> QED
  BY <1>2, <1>5, <1>8 DEF ApplyDelete, SiteInv, Types, Authentic, netVars, rowVars

LEMMA BuryInv ==
    ASSUME SiteInv, NEW t \in Threads, Bury(t)
    PROVE  SiteInv'
<1> DEFINE n == Node(t)
           m == Job(t)
<1>1. /\ n \in Nodes /\ m.key \in Keys /\ m.at \in 1..MaxTime
      /\ Delete(m.key, m.at) \in signed
  BY JobSigned, ThreadParts DEF Bury, SiteInv, Threading
<1>2. Threading'
  BY FinishedThreading DEF Bury, netVars
<1>3. pageRow' \in Versions /\ graveRow' \in Versions
  BY <1>1, SiteAssumption DEF Bury, SiteInv, Types, Versions
<1>4. Authentic(pageRow, graveRow)'
  BY <1>1 DEF Bury, SiteInv, Types, Versions, Authentic, netVars
<1> QED
  BY <1>2, <1>3, <1>4 DEF Bury, SiteInv, Types, Authentic, netVars, mapVars

LEMMA BeginInv ==
    ASSUME SiteInv, NEW n \in Nodes, NEW k \in Keys,
           NEW m \in {Page(k, time + 1), Delete(k, time + 1)},
           Begin(<<n, "user">>, m, IF m.type = "page" THEN "persist" ELSE "handle")
    PROVE  SiteInv'
<1>1. <<n, "user">> \in Threads
  BY ThreadParts DEF Roles
<1>2. time + 1 \in 1..MaxTime /\ time' = time + 1 /\ signed' = signed \cup {m}
  BY SiteAssumption DEF Begin, SiteInv, Types
<1>3. m \in Items /\ m \in signed' /\ signed \subseteq signed'
  BY <1>2 DEF Items, Page, Delete
<1>4. <<m>> \in Seq(Items) /\ <<m>> # <<>> /\ <<m>>[1] = m /\ \A i \in DOMAIN <<m>> : <<m>>[i] = m
  BY <1>3
<1>5. Threading'
  BY <1>1, <1>3, <1>4, StartThreading DEF Begin
<1>6. Types'
  BY <1>2, <1>3, SiteAssumption DEF Begin, SiteInv, Types, mapVars, rowVars
<1>7. Authentic(page, grave)' /\ Authentic(pageRow, graveRow)'
  BY <1>3 DEF Begin, SiteInv, Authentic, mapVars, rowVars
<1> QED
  BY <1>5, <1>6, <1>7 DEF SiteInv

LEMMA UserInv ==
    ASSUME SiteInv, NEW k \in Keys, Publish(k) \/ DeletePage(k)
    PROVE  SiteInv'
<1>1. Home[Owner[k]] \in Nodes
  BY SiteAssumption
<1>2. Page(k, time + 1).type = "page" /\ Delete(k, time + 1).type = "delete"
  BY DEF Page, Delete
<1> QED
  BY <1>1, <1>2, BeginInv DEF Publish, DeletePage

LEMMA AnnounceInv ==
    ASSUME SiteInv, NEW n \in Nodes, Announce(n)
    PROVE  SiteInv'
<1> DEFINE t == <<n, "user">>
<1>1. t \in Threads /\ pc[t] = "announce"
  BY ThreadParts DEF Announce, Roles
<1>2. Job(t) \in signed
  BY <1>1, JobSigned
<1>3. Threading'
  <2>1. /\ pc' = [pc EXCEPT ![t] = "idle"] /\ jobs' = [jobs EXCEPT ![t] = <<>>]
        /\ UNCHANGED <<signed, asked>>
    BY DEF Announce, Goto
  <2>2. <<>> \in Seq(Items) /\ DOMAIN <<>> = {}
    BY EmptySeq
  <2> QED
    BY <1>1, <2>1, <2>2, ThreadParts DEF SiteInv, Threading, Places, Job, Roles
<1> QED
  BY <1>2, <1>3 DEF Announce, SiteInv, Types, Authentic, mapVars, rowVars

LEMMA SyncAskInv ==
    ASSUME SiteInv, NEW n \in Nodes, NEW p \in Nodes, SyncAsk(n, p)
    PROVE  SiteInv'
<1> DEFINE t == <<n, "sync">>
           request == [peer |-> p, page |-> page[n], grave |-> grave[n]]
<1>1. t \in Threads /\ pc[t] = "idle" /\ pc' = [pc EXCEPT ![t] = "asked"]
  BY ThreadParts DEF SyncAsk, Roles, Goto
<1>2. request \in Requests
  BY DEF Requests, SiteInv, Types, Versions
<1>3. asked' = [asked EXCEPT ![n] = request]
  BY DEF SyncAsk
<1>4. asked' \in [Nodes -> Requests] /\ asked'[n].peer = p
  BY <1>2, <1>3 DEF SiteInv, Types
<1>5. Threading'
  BY <1>1, <1>3, <1>4, ThreadParts DEF SyncAsk, SiteInv, Types, Threading, Places, Job, Roles, netVars
<1> QED
  BY <1>4, <1>5 DEF SyncAsk, SiteInv, Types, Authentic, netVars, mapVars, rowVars

LEMMA SyncFailInv ==
    ASSUME SiteInv, NEW n \in Nodes, SyncFail(n)
    PROVE  SiteInv'
<1> DEFINE t == <<n, "sync">>
<1>1. t \in Threads /\ pc' = [pc EXCEPT ![t] = "idle"]
  BY ThreadParts DEF SyncFail, Roles, Goto
<1>2. NoRequest \in Requests
  BY SiteAssumption DEF Requests, NoRequest, Nothing
<1>3. asked' \in [Nodes -> Requests]
  BY <1>2 DEF SyncFail, SiteInv, Types
<1>4. Threading'
  BY <1>1, ThreadParts DEF SyncFail, SiteInv, Types, Threading, Places, Job, Roles, netVars
<1> QED
  BY <1>3, <1>4 DEF SyncFail, SiteInv, Types, Authentic, netVars, mapVars, rowVars

LEMMA TimePassesInv ==
    ASSUME SiteInv, NEW n \in Nodes, TimePasses(n)
    PROVE  SiteInv'
<1>1. recent' \in [Nodes -> SUBSET Keys] /\ newcomers' \in [Nodes -> 0..MaxNew]
  BY SiteAssumption DEF TimePasses, SiteInv, Types
<1>2. Threading'
  BY DEF TimePasses, SiteInv, Threading, Job, netVars
<1> QED
  BY <1>1, <1>2 DEF TimePasses, SiteInv, Types, Authentic, netVars, rowVars

LEMMA RestartInv ==
    ASSUME SiteInv, NEW n \in Nodes, Restart(n)
    PROVE  SiteInv'
<1>1. NoRequest \in Requests
  BY SiteAssumption DEF Requests, NoRequest, Nothing
<1>2. Types'
  BY <1>1, SiteAssumption DEF Restart, SiteInv, Types, Versions, netVars, rowVars
<1>3. Threading'
  <2>1. \A t \in Threads : /\ Node(t) = n => pc'[t] = "idle" /\ jobs'[t] = <<>>
                           /\ Node(t) # n => pc'[t] = pc[t] /\ jobs'[t] = jobs[t]
    BY DEF Restart
  <2>2. <<>> \in Seq(Items) /\ DOMAIN <<>> = {}
    BY EmptySeq
  <2>3. pc' \in [Threads -> Places] /\ jobs' \in [Threads -> Seq(Items)]
    BY <2>1, <2>2 DEF Restart, SiteInv, Threading, Places
  <2>4. \A p \in Nodes : p # n => asked'[p] = asked[p] /\ Node(<<p, "sync">>) = p
    BY DEF Restart, SiteInv, Types, Node
  <2>5. pc'[<<n, "sync">>] = "idle"
    BY <2>1, ThreadParts DEF Node, Roles
  <2> QED
    BY <2>1, <2>2, <2>3, <2>4, <2>5, ThreadParts
       DEF Restart, SiteInv, Threading, Job, Roles, netVars
<1>4. Authentic(page, grave)'
  BY DEF Restart, SiteInv, Types, Versions, Authentic, netVars
<1> QED
  BY <1>2, <1>3, <1>4 DEF Restart, SiteInv, Authentic, netVars, rowVars

-----------------------------------------------------------------------------
(* A sync's answer. *)

\* An order of a finite set is a sequence over it.
LEMMA OrdersAreSequences ==
    ASSUME NEW S, IsFiniteSet(S), NEW s \in Orders(S)
    PROVE  s \in Seq(S) /\ DOMAIN s = 1..Len(s) /\ \A i \in DOMAIN s : s[i] \in S
<1>1. Cardinality(S) \in Nat
  BY FS_CardinalityType
<1>2. s \in [1..Cardinality(S) -> S]
  BY DEF Orders
<1>3. s \in Seq(S)
  <2>1. s \in UNION {[1..n -> S] : n \in Nat}
    BY <1>1, <1>2
  <2> QED
    BY <2>1, SeqDef, Zenon
<1> QED
  BY <1>2, <1>3, LenProperties

\* A set with an item for each of some pages is finite.
LEMMA ItemsFinite ==
    ASSUME NEW K \in SUBSET Keys, NEW f \in [K -> Items]
    PROVE  IsFiniteSet({f[k] : k \in K})
<1>1. IsFiniteSet(K)
  BY SiteAssumption, FS_Subset
<1>2. f \in Surjection(K, {f[k] : k \in K})
  BY DEF Surjection
<1> QED
  BY <1>1, <1>2, FS_Surjection

\* Two lists of items of a set make one.
LEMMA ConcatOver ==
    ASSUME NEW S, NEW s \in Seq(Items), NEW g \in Seq(Items),
           \A i \in DOMAIN s : s[i] \in S, \A i \in DOMAIN g : g[i] \in S
    PROVE  s \o g \in Seq(Items) /\ \A i \in DOMAIN (s \o g) : (s \o g)[i] \in S
<1>1. /\ Len(s) \in Nat /\ DOMAIN s = 1..Len(s) /\ Len(g) \in Nat /\ DOMAIN g = 1..Len(g)
  BY LenProperties
<1>2. /\ s \o g \in Seq(Items) /\ Len(s \o g) = Len(s) + Len(g)
      /\ \A i \in 1..(Len(s) + Len(g)) :
            (s \o g)[i] = IF i <= Len(s) THEN s[i] ELSE g[i - Len(s)]
  BY ConcatProperties
<1>3. DOMAIN (s \o g) = 1..(Len(s) + Len(g))
  BY <1>2, LenProperties
<1> SUFFICES ASSUME NEW i \in 1..(Len(s) + Len(g))
             PROVE  (s \o g)[i] \in S
  BY <1>2, <1>3
<1>4. CASE i <= Len(s)
  <2>1. i \in DOMAIN s /\ (s \o g)[i] = s[i]
    BY <1>1, <1>2, <1>4
  <2> QED
    BY <2>1
<1>5. CASE ~(i <= Len(s))
  <2>1. i - Len(s) \in DOMAIN g /\ (s \o g)[i] = g[i - Len(s)]
    BY <1>1, <1>2, <1>5
  <2> QED
    BY <2>1
<1> QED
  BY <1>4, <1>5

\* The copies a peer can answer with.
Copies ==
    {Page(k, page[p][k]) : p \in Nodes, k \in Keys}
        \cup {Delete(k, grave[p][k]) : p \in Nodes, k \in Keys}

\* What a peer answers was signed, and is a copy the peer has.
LEMMA SyncAnswerWork ==
    ASSUME SiteInv, NEW n \in Nodes, SyncAnswer(n)
    PROVE  \E w \in Seq(Items) :
              /\ jobs' = [jobs EXCEPT ![<<n, "sync">>] = w]
              /\ Goto(<<n, "sync">>, IF w = <<>> THEN "idle" ELSE "handle")
              /\ \A i \in DOMAIN w : w[i] \in signed \cap Copies
<1> DEFINE t == <<n, "sync">>
           p == asked[n].peer
           pageItem == [k \in Missing(p, asked[n]) |-> Page(k, page[p][k])]
           graveItem == [k \in Buried(p, asked[n]) |-> Delete(k, grave[p][k])]
           pages == {Page(k, page[p][k]) : k \in Missing(p, asked[n])}
           graves == {Delete(k, grave[p][k]) : k \in Buried(p, asked[n])}
<1>1. t \in Threads /\ pc[t] = "asked" /\ p \in Nodes /\ asked[n] \in Requests
  BY ThreadParts DEF SyncAnswer, SiteInv, Types, Threading, Roles
<1>2. \A k \in Keys : page[p][k] \in 0..MaxTime /\ grave[p][k] \in 0..MaxTime
                      /\ asked[n].page[k] \in 0..MaxTime
  BY <1>1 DEF SiteInv, Types, Versions, Requests
<1>3. \A k \in Missing(p, asked[n]) : k \in Keys /\ page[p][k] # 0
  BY <1>2, SiteAssumption DEF Missing
<1>4. \A k \in Buried(p, asked[n]) : k \in Keys /\ grave[p][k] # 0
  BY DEF Buried
<1>5. /\ \A k \in Missing(p, asked[n]) : Page(k, page[p][k]) \in signed
      /\ \A k \in Buried(p, asked[n]) : Delete(k, grave[p][k]) \in signed
  BY <1>1, <1>3, <1>4 DEF SiteInv, Authentic
<1>6. pages \subseteq signed \cap Copies /\ graves \subseteq signed \cap Copies /\ signed \subseteq Items
  BY <1>1, <1>3, <1>4, <1>5 DEF SiteInv, Types, Copies
<1>7. IsFiniteSet(pages)
  <2>1. pageItem \in [Missing(p, asked[n]) -> Items] /\ Missing(p, asked[n]) \subseteq Keys
    BY <1>3, <1>5, <1>6
  <2>2. IsFiniteSet({pageItem[k] : k \in Missing(p, asked[n])})
    BY <2>1, ItemsFinite
  <2>3. pages = {pageItem[k] : k \in Missing(p, asked[n])}
    OBVIOUS
  <2> QED
    BY <2>2, <2>3
<1>8. IsFiniteSet(graves)
  <2>1. graveItem \in [Buried(p, asked[n]) -> Items] /\ Buried(p, asked[n]) \subseteq Keys
    BY <1>4, <1>5, <1>6
  <2>2. IsFiniteSet({graveItem[k] : k \in Buried(p, asked[n])})
    BY <2>1, ItemsFinite
  <2>3. graves = {graveItem[k] : k \in Buried(p, asked[n])}
    OBVIOUS
  <2> QED
    BY <2>2, <2>3
<1>9. PICK sent \in SUBSET pages : \E s \in Orders(sent), g \in Orders(graves) :
          /\ jobs' = [jobs EXCEPT ![t] = s \o g]
          /\ Goto(t, IF s \o g = <<>> THEN "idle" ELSE "handle")
  BY DEF SyncAnswer
<1>10. PICK s \in Orders(sent), g \in Orders(graves) :
          /\ jobs' = [jobs EXCEPT ![t] = s \o g]
          /\ Goto(t, IF s \o g = <<>> THEN "idle" ELSE "handle")
  BY <1>9
<1>11. s \in Seq(Items) /\ \A i \in DOMAIN s : s[i] \in signed \cap Copies
  <2>1. IsFiniteSet(sent)
    BY <1>7, FS_Subset
  <2>2. s \in Seq(sent) /\ \A i \in DOMAIN s : s[i] \in sent
    BY <2>1, OrdersAreSequences
  <2>3. sent \subseteq Items
    BY <1>6
  <2> QED
    BY <2>2, <2>3, <1>6, SeqMonotonic
<1>12. g \in Seq(Items) /\ \A i \in DOMAIN g : g[i] \in signed \cap Copies
  <2>1. g \in Seq(graves) /\ \A i \in DOMAIN g : g[i] \in graves
    BY <1>8, OrdersAreSequences
  <2>2. graves \subseteq Items
    BY <1>6
  <2> QED
    BY <2>1, <2>2, <1>6, SeqMonotonic
<1>13. s \o g \in Seq(Items) /\ \A i \in DOMAIN (s \o g) : (s \o g)[i] \in signed \cap Copies
  BY <1>11, <1>12, ConcatOver, Zenon
<1> QED
  BY <1>10, <1>13

LEMMA SyncAnswerInv ==
    ASSUME SiteInv, NEW n \in Nodes, SyncAnswer(n)
    PROVE  SiteInv'
<1> DEFINE t == <<n, "sync">>
<1>1. t \in Threads /\ pc[t] = "asked"
  BY ThreadParts DEF SyncAnswer, Roles
<1>2. PICK w \in Seq(Items) :
          /\ jobs' = [jobs EXCEPT ![t] = w]
          /\ Goto(t, IF w = <<>> THEN "idle" ELSE "handle")
          /\ \A i \in DOMAIN w : w[i] \in signed
  BY SyncAnswerWork
<1>3. signed' = signed /\ asked' = [asked EXCEPT ![n] = NoRequest] /\ NoRequest \in Requests
  BY SiteAssumption DEF SyncAnswer, netVars, Requests, NoRequest, Nothing
<1>4. Threading'
  <2>1. CASE w = <<>>
    <3>1. pc' = [pc EXCEPT ![t] = "idle"] /\ jobs' = [jobs EXCEPT ![t] = w]
      BY <2>1, <1>2 DEF Goto
    <3> QED
      BY <3>1, <1>1, <1>2, <1>3, ThreadParts
         DEF SiteInv, Types, Threading, Places, Job, Roles
  <2>2. CASE w # <<>>
    <3>1. \A q \in Nodes : <<q, "sync">> # t => asked'[q] = asked[q]
      BY <1>3 DEF SiteInv, Types
    <3>2. Goto(t, "handle") /\ jobs' = [jobs EXCEPT ![t] = w]
      BY <2>2, <1>2
    <3> QED
      BY <3>1, <3>2, <2>2, <1>1, <1>2, <1>3, StartThreading
  <2> QED
    BY <2>1, <2>2
<1>5. Types'
  BY <1>3 DEF SyncAnswer, SiteInv, Types, netVars, mapVars, rowVars
<1> QED
  BY <1>3, <1>4, <1>5 DEF SyncAnswer, SiteInv, Authentic, mapVars, rowVars

-----------------------------------------------------------------------------
(* The theorems. *)

LEMMA NextInv == SiteInv /\ [Next]_vars => SiteInv'
<1> SUFFICES ASSUME SiteInv, [Next]_vars PROVE SiteInv'
  OBVIOUS
<1>1. CASE \E n \in Nodes, m \in net : Deliver(n, m)
  BY <1>1, DeliverInv
<1>2. CASE \E t \in Threads : Step(t)
  BY <1>2, HandlePageInv, PersistInv, UpsertInv, ApplyDeleteInv, BuryInv DEF Step
<1>3. CASE \E k \in Keys : Publish(k) \/ DeletePage(k)
  BY <1>3, UserInv
<1>4. CASE \E n \in Nodes : Announce(n) \/ SyncAnswer(n) \/ SyncFail(n)
  BY <1>4, AnnounceInv, SyncAnswerInv, SyncFailInv
<1>5. CASE \E n, p \in Nodes : SyncAsk(n, p)
  BY <1>5, SyncAskInv
<1>6. CASE \E n \in Nodes : TimePasses(n) \/ Restart(n)
  BY <1>6, TimePassesInv, RestartInv
<1>7. CASE UNCHANGED vars
  BY <1>7 DEF vars, netVars, mapVars, rowVars, SiteInv, Types, Threading, Authentic, Job
<1> QED
  BY <1>1, <1>2, <1>3, <1>4, <1>5, <1>6, <1>7 DEF Next

\* What threads carry was signed and fits where they are; every copy, in memory
\* and in the tables, was signed.
THEOREM SiteInvariance == Spec => []SiteInv
<1> QED
  BY InitInv, NextInv, PTL DEF Spec

\* The variables keep their types.
THEOREM SiteTypes == Spec => []TypeOK
<1>1. SiteInv => TypeOK
  BY DEF SiteInv, Types, Threading, Places, TypeOK
<1> QED
  BY <1>1, SiteInvariance, PTL

\* What a step can do to the copies in memory and to what has been signed.
LEMMA CopySteps ==
    ASSUME [Next]_vars
    PROVE  \/ UNCHANGED <<signed, page, grave>>
           \/ \E n \in Nodes, k \in Keys : \E m \in {Page(k, time + 1), Delete(k, time + 1)} :
                 /\ Begin(<<n, "user">>, m, IF m.type = "page" THEN "persist" ELSE "handle")
                 /\ UNCHANGED <<page, grave>>
           \/ \E t \in Threads : Persist(t) \/ ApplyDelete(t)
           \/ \E n \in Nodes : Restart(n)
<1>1. ASSUME NEW k \in Keys, Publish(k) \/ DeletePage(k)
      PROVE  \E n \in Nodes, m \in {Page(k, time + 1), Delete(k, time + 1)} :
                /\ Begin(<<n, "user">>, m, IF m.type = "page" THEN "persist" ELSE "handle")
                /\ UNCHANGED <<page, grave>>
  <2>1. Home[Owner[k]] \in Nodes
    BY SiteAssumption
  <2>2. Page(k, time + 1).type = "page" /\ Delete(k, time + 1).type = "delete"
    BY DEF Page, Delete
  <2> QED
    BY <1>1, <2>1, <2>2 DEF Publish, DeletePage, Begin, mapVars
<1>2. ASSUME NEW t \in Threads, HandlePage(t) \/ Upsert(t) \/ Bury(t)
      PROVE  UNCHANGED <<signed, page, grave>>
  BY <1>2 DEF HandlePage, Upsert, Bury, netVars, mapVars
<1>3. ASSUME NEW n \in Nodes,
             \/ \E m \in net : Deliver(n, m)
             \/ Announce(n) \/ SyncAnswer(n) \/ SyncFail(n) \/ TimePasses(n)
             \/ \E p \in Nodes : SyncAsk(n, p)
      PROVE  UNCHANGED <<signed, page, grave>>
  BY <1>3 DEF Deliver, Announce, SyncAnswer, SyncFail, SyncAsk, TimePasses, netVars, mapVars
<1> QED
  BY <1>1, <1>2, <1>3 DEF Next, Step, vars, netVars, mapVars

LEMMA RestartIsRestarting ==
    ASSUME SiteInv, NEW n \in Nodes, Restart(n) PROVE Restarting
BY SiteAssumption DEF SiteInv, Types, Restart, Restarting

\* A page known to be deleted does not come back while the node runs, whichever
\* of gossip, sync and the user acts between persist's two locks.
THEOREM DeletedPagesStay == Spec => NotBroughtBack
<1>1. SiteInv /\ [Next]_vars =>
        [\A n \in Nodes, k \in Keys :
           grave[n][k] # 0 /\ page[n][k] = 0 /\ ~Restarting => page'[n][k] = 0]_vars
  <2> SUFFICES ASSUME SiteInv, [Next]_vars, NEW n \in Nodes, NEW k \in Keys,
                      grave[n][k] # 0, page[n][k] = 0, ~Restarting
               PROVE  page'[n][k] = 0
    OBVIOUS
  <2>1. ASSUME NEW t \in Threads, Persist(t)
        PROVE  page'[n][k] = 0
    <3>1. /\ Node(t) \in Nodes /\ Job(t).key \in Keys /\ Job(t).at \in 0..MaxTime
      BY <2>1, JobSigned, ThreadParts DEF Persist
    <3>2. CASE n = Node(t) /\ k = Job(t).key
      BY <2>1, <3>2 DEF Persist
    <3>3. CASE ~(n = Node(t) /\ k = Job(t).key)
      <4>1. page' \in {page, [page EXCEPT ![Node(t)][Job(t).key] = Job(t).at]}
        BY <2>1 DEF Persist
      <4> QED
        BY <3>1, <3>3, <4>1 DEF SiteInv, Types, Versions
    <3> QED
      BY <3>2, <3>3
  <2>2. ASSUME NEW t \in Threads, ApplyDelete(t)
        PROVE  page'[n][k] = 0
    <3>1. Node(t) \in Nodes /\ Job(t).key \in Keys /\ 0 \in 0..MaxTime
      BY <2>2, JobSigned, ThreadParts, SiteAssumption DEF ApplyDelete
    <3>2. page' = page \/ page' = [page EXCEPT ![Node(t)][Job(t).key] = 0]
      BY <2>2 DEF ApplyDelete
    <3>3. CASE page' = page
      BY <3>3
    <3>4. CASE page' = [page EXCEPT ![Node(t)][Job(t).key] = 0]
      BY <3>1, <3>4 DEF SiteInv, Types, Versions
    <3> QED
      BY <3>2, <3>3, <3>4
  <2> QED
    BY <2>1, <2>2, CopySteps, RestartIsRestarting
<1> QED
  BY <1>1, SiteInvariance, PTL DEF Spec, NotBroughtBack

-----------------------------------------------------------------------------
(* Refinement of NewestWins. *)

LEMMA LevelBounds ==
    ASSUME NEW m \in Items
    PROVE  Level(m) \in 1..Gone /\ Gone \in Nat /\ m.key \in Keys
BY SiteAssumption DEF Level, Gone, Items

\* Signing an item is one step of the abstract store.
LEMMA SignStep ==
    ASSUME SiteInv, NEW m \in Items, signed' = signed \cup {m}, UNCHANGED <<page, grave>>
    PROVE  Abstract!Next
<1>1. Level(m) \in 1..Gone /\ m.key \in Keys
  BY LevelBounds
<1>2. held' = held
  BY DEF held
<1>3. \A k \in Keys : levels'[k] = IF k = m.key THEN levels[k] \cup {Level(m)} ELSE levels[k]
  BY DEF levels, Level
<1>4. levels' = [levels EXCEPT ![m.key] = @ \cup {Level(m)}]
  BY <1>1, <1>3 DEF levels
<1>5. Abstract!Sign(m.key, Level(m))
  BY <1>2, <1>4 DEF Abstract!Sign
<1> QED
  BY <1>1, <1>5 DEF Abstract!Next

\* A table that differs from another in one place.
LEMMA OnePlace ==
    ASSUME NEW S, NEW f \in [Nodes -> [Keys -> S]], NEW g \in [Nodes -> [Keys -> S]],
           NEW n \in Nodes, NEW k \in Keys, NEW v,
           \A p \in Nodes, l \in Keys : g[p][l] = IF p = n /\ l = k THEN v ELSE f[p][l]
    PROVE  g = [f EXCEPT ![n][k] = v]
<1> DEFINE h == [f EXCEPT ![n][k] = v]
<1>1. \A p \in Nodes : g[p] = h[p]
  <2> SUFFICES ASSUME NEW p \in Nodes PROVE g[p] = h[p]
    OBVIOUS
  <2>1. \A l \in Keys : g[p][l] = h[p][l]
    OBVIOUS
  <2>2. DOMAIN g[p] = Keys /\ DOMAIN h[p] = Keys
    OBVIOUS
  <2>3. g[p] = [l \in Keys |-> g[p][l]] /\ h[p] = [l \in Keys |-> h[p][l]]
    OBVIOUS
  <2> QED
    BY <2>1, <2>3
<1> QED
  BY <1>1

\* Moving one copy up to a signed level is one, too.
LEMMA AdoptStep ==
    ASSUME SiteInv, NEW m \in signed, NEW n \in Nodes, UNCHANGED signed,
           Level(m) > held[n][m.key], page' \in Versions, grave' \in Versions,
           \A p \in Nodes, k \in Keys :
              held'[p][k] = IF p = n /\ k = m.key THEN Level(m) ELSE held[p][k]
    PROVE  Abstract!Next
<1>1. m \in Items
  BY DEF SiteInv, Types
<1>2. Level(m) \in 1..Gone /\ m.key \in Keys
  BY <1>1, LevelBounds
<1>3. levels' = levels
  BY DEF levels, Level
<1>4. Level(m) \in levels[m.key]
  BY <1>2 DEF levels
<1>5. held' = [held EXCEPT ![n][m.key] = Level(m)]
  <2>1. held \in [Nodes -> [Keys -> 0..Gone]] /\ held' \in [Nodes -> [Keys -> 0..Gone]]
    BY <1>2, SiteAssumption DEF held, SiteInv, Types, Versions, Gone
  <2> QED
    BY <1>2, <2>1, OnePlace
<1>6. Abstract!Adopt(n, m.key, Level(m))
  BY <1>3, <1>4, <1>5 DEF Abstract!Adopt
<1> QED
  BY <1>2, <1>6 DEF Abstract!Next

LEMMA PersistRefines ==
    ASSUME SiteInv, NEW t \in Threads, Persist(t)
    PROVE  Abstract!Next \/ UNCHANGED <<levels, held>>
<1> DEFINE n == Node(t)
           m == Job(t)
<1>1. /\ n \in Nodes /\ m \in signed /\ m.key \in Keys /\ m.at \in 1..MaxTime /\ m.type = "page"
  BY JobSigned, ThreadParts DEF Persist, SiteInv, Threading
<1>2. UNCHANGED <<signed, grave>>
  BY DEF Persist, netVars
<1>3. CASE page' = page
  BY <1>2, <1>3 DEF levels, held, Level
<1>4. CASE page' # page
  <2>1. /\ page' = [page EXCEPT ![n][m.key] = m.at]
        /\ grave[n][m.key] = 0 /\ (page[n][m.key] = 0 \/ ~(m.at <= page[n][m.key]))
    BY <1>4 DEF Persist
  <2>2. m.at \in 0..MaxTime /\ page[n][m.key] \in 0..MaxTime
    BY <1>1 DEF SiteInv, Types, Versions
  <2>3. \A p \in Nodes, k \in Keys :
           page'[p][k] = IF p = n /\ k = m.key THEN m.at ELSE page[p][k]
    BY <1>1, <2>1, <2>2 DEF SiteInv, Types, Versions
  <2>4. Level(m) = m.at
    BY <1>1 DEF Level
  <2>5. Level(m) > held[n][m.key]
    BY <1>1, <2>1, <2>2, <2>4, SiteAssumption DEF held
  <2>6. \A p \in Nodes, k \in Keys :
           held'[p][k] = IF p = n /\ k = m.key THEN Level(m) ELSE held[p][k]
    BY <1>1, <1>2, <2>1, <2>3, <2>4 DEF held
  <2> QED
    BY <1>1, <1>2, <2>5, <2>6, AdoptStep, PersistInv DEF SiteInv, Types
<1> QED
  BY <1>3, <1>4

LEMMA ApplyDeleteRefines ==
    ASSUME SiteInv, NEW t \in Threads, ApplyDelete(t)
    PROVE  Abstract!Next \/ UNCHANGED <<levels, held>>
<1> DEFINE n == Node(t)
           m == Job(t)
<1>1. /\ n \in Nodes /\ m \in signed /\ m.key \in Keys /\ m.at \in 1..MaxTime /\ m.type = "delete"
  BY JobSigned, ThreadParts DEF ApplyDelete
<1>2. UNCHANGED signed
  BY DEF ApplyDelete, netVars
<1>3. CASE UNCHANGED <<page, grave>>
  BY <1>2, <1>3 DEF levels, held, Level
<1>4. CASE /\ page' = [page EXCEPT ![n][m.key] = 0]
           /\ grave' = [grave EXCEPT ![n][m.key] = m.at]
  <2>1. 0 \in 0..MaxTime /\ m.at \in 0..MaxTime
        /\ page[n][m.key] \in 0..MaxTime /\ grave[n][m.key] \in 0..MaxTime
    BY <1>1, SiteAssumption DEF SiteInv, Types, Versions
  <2>2. \A p \in Nodes, k \in Keys :
           /\ page'[p][k] = IF p = n /\ k = m.key THEN 0 ELSE page[p][k]
           /\ grave'[p][k] = IF p = n /\ k = m.key THEN m.at ELSE grave[p][k]
    BY <1>1, <1>4, <2>1 DEF SiteInv, Types, Versions
  <2>3. Level(m) = Gone /\ m.at # 0
    BY <1>1 DEF Level
  <2>4. \A p \in Nodes, k \in Keys :
           held'[p][k] = IF p = n /\ k = m.key THEN Level(m) ELSE held[p][k]
    BY <1>1, <2>2, <2>3 DEF held
  <2>5. CASE grave[n][m.key] = 0
    <3>1. Level(m) > held[n][m.key]
      BY <1>1, <2>1, <2>3, <2>5, SiteAssumption DEF held, Gone
    <3> QED
      BY <1>1, <1>2, <2>4, <3>1, AdoptStep, ApplyDeleteInv DEF SiteInv, Types
  <2>6. CASE grave[n][m.key] # 0
    <3>1. held[n][m.key] = Level(m)
      BY <1>1, <2>3, <2>6 DEF held
    <3>2. held' = held
      BY <2>4, <3>1 DEF held
    <3> QED
      BY <1>2, <3>2 DEF levels, Level
  <2> QED
    BY <2>5, <2>6
<1> QED
  BY <1>3, <1>4 DEF ApplyDelete

\* The nodes' copies implement newest-wins replication: every step moves one copy
\* up to a signed level, signs a new one, leaves all as it is, or restarts a node.
THEOREM ImplementsNewestWins == Spec => Replicates
<1>1. Init => Abstract!Init
  BY DEF Init, Abstract!Init, levels, held, Nothing
<1>2. SiteInv /\ [Next]_vars => [Abstract!Next \/ Restarting]_<<levels, held>>
  <2> SUFFICES ASSUME SiteInv, [Next]_vars
               PROVE  Abstract!Next \/ Restarting \/ UNCHANGED <<levels, held>>
    OBVIOUS
  <2>1. CASE UNCHANGED <<signed, page, grave>>
    BY <2>1 DEF levels, held, Level
  <2>2. ASSUME NEW n \in Nodes, NEW k \in Keys,
               NEW m \in {Page(k, time + 1), Delete(k, time + 1)},
               Begin(<<n, "user">>, m, IF m.type = "page" THEN "persist" ELSE "handle"),
               UNCHANGED <<page, grave>>
        PROVE  Abstract!Next
    <3>1. time + 1 \in 1..MaxTime /\ signed' = signed \cup {m}
      BY <2>2, SiteAssumption DEF Begin, SiteInv, Types
    <3>2. m \in Items
      BY <3>1 DEF Items, Page, Delete
    <3> QED
      BY <2>2, <3>1, <3>2, SignStep
  <2> QED
    BY <2>1, <2>2, CopySteps, PersistRefines, ApplyDeleteRefines, RestartIsRestarting
<1> QED
  BY <1>1, <1>2, SiteInvariance, PTL DEF Spec, Replicates

-----------------------------------------------------------------------------
(* What an author has announced is kept. *)

User(n) == <<n, "user">>
HomeOf(k) == Home[Owner[k]]

\* What the user signed and the node does not hold yet.
Pending(n) == pc[User(n)] \in {"handle", "persist"}

\* The levels of the rows: what a restart takes the copies back to.
stored == [n \in Nodes |-> [k \in Keys |-> IF graveRow[n][k] # 0 THEN Gone ELSE pageRow[n][k]]]

\* A user works on the author's own node, and has nothing but deletions to handle.
UsersAtHome ==
    \A n \in Nodes :
        /\ pc[User(n)] \notin {"idle", "asked"} => HomeOf(Job(User(n)).key) = n
        /\ pc[User(n)] = "handle" => Job(User(n)).type = "delete"

\* m has not left n's user: no other thread has it, and no copy is m.
Unseen(m, n) ==
    /\ m \notin net
    /\ \A t \in Threads : t # User(n) => \A i \in DOMAIN jobs[t] : jobs[t][i] # m
    /\ \A p \in Nodes :
        /\ m.type = "page" => page[p][m.key] # m.at /\ pageRow[p][m.key] # m.at
        /\ m.type = "delete" => grave[p][m.key] # m.at /\ graveRow[p][m.key] # m.at

\* What a user has just signed is unseen, and newer than all that was signed for the page.
Private ==
    /\ \A s \in signed : s.at <= time
    /\ \A n \in Nodes : Pending(n) =>
        /\ Unseen(Job(User(n)), n)
        /\ \A s \in signed : s.key = Job(User(n)).key => s = Job(User(n)) \/ s.at < Job(User(n)).at

\* A tombstone is in memory before it is in the table, where it stays.
BuriedKept ==
    /\ \A n \in Nodes, k \in Keys : graveRow[n][k] # 0 => grave[n][k] # 0
    /\ \A t \in Threads : pc[t] = "bury" => grave[Node(t)][Job(t).key] # 0
    /\ \A m \in net : m.type = "delete" => graveRow[HomeOf(m.key)][m.key] # 0
    /\ \A n \in Nodes : pc[User(n)] = "announce" /\ Job(User(n)).type = "delete"
                         => graveRow[n][Job(User(n)).key] # 0

\* Before any crash an author's node is ahead of all others, only its user changes
\* its copies, and its rows lag behind by no more than what the user is writing.
FirstLife ==
    restarts = 0 =>
        /\ \A s \in signed :
             \/ Level(s) <= held[HomeOf(s.key)][s.key]
             \/ Pending(HomeOf(s.key)) /\ s = Job(User(HomeOf(s.key)))
        /\ \A t \in Threads :
             Role(t) # "user" /\ pc[t] \in {"persist", "upsert"} => HomeOf(Job(t).key) # Node(t)
        /\ \A k \in Keys :
             \/ held[HomeOf(k)][k] <= stored[HomeOf(k)][k]
             \/ /\ pc[User(HomeOf(k))] \in {"upsert", "bury"}
                /\ Job(User(HomeOf(k))).key = k
        /\ \A n \in Nodes : pc[User(n)] = "upsert" => held[n][Job(User(n)).key] <= Job(User(n)).at
        /\ \A m \in net : Level(m) <= stored[HomeOf(m.key)][m.key]

\* Until the second crash it holds what is on the topic, and what it is about to announce.
SecondLife ==
    restarts <= 1 =>
        /\ \A m \in net : Level(m) <= held[HomeOf(m.key)][m.key]
        /\ \A n \in Nodes : pc[User(n)] \in {"upsert", "bury", "announce"}
                             => Level(Job(User(n))) <= held[n][Job(User(n)).key]

KeptInv == UsersAtHome /\ Private /\ BuriedKept /\ FirstLife /\ SecondLife

LEMMA UserParts ==
    /\ \A n \in Nodes : User(n) \in Threads /\ Node(User(n)) = n /\ Role(User(n)) = "user"
    /\ \A t \in Threads : Role(t) = "user" => t = User(Node(t))
    /\ \A k \in Keys : HomeOf(k) \in Nodes
BY ThreadParts, SiteAssumption DEF User, HomeOf, Node, Role, Roles

\* Levels, and the tables they are of.
LEMMA Levels ==
    ASSUME SiteInv
    PROVE  /\ \A n \in Nodes, k \in Keys :
                /\ held[n][k] = (IF grave[n][k] # 0 THEN Gone ELSE page[n][k])
                /\ stored[n][k] = (IF graveRow[n][k] # 0 THEN Gone ELSE pageRow[n][k])
                /\ page[n][k] \in 0..MaxTime /\ grave[n][k] \in 0..MaxTime
                /\ pageRow[n][k] \in 0..MaxTime /\ graveRow[n][k] \in 0..MaxTime
                /\ held[n][k] \in 0..Gone /\ stored[n][k] \in 0..Gone
           /\ \A m \in signed : /\ m \in Items /\ m.key \in Keys /\ m.at \in 1..MaxTime
                                /\ Level(m) = IF m.type = "delete" THEN Gone ELSE m.at
                                /\ Level(m) \in 1..Gone /\ HomeOf(m.key) \in Nodes
           /\ Gone \in Nat /\ MaxTime \in Nat /\ MaxTime < Gone
<1>1. MaxTime \in Nat /\ Gone = MaxTime + 1
  BY SiteAssumption DEF Gone
<1>2. \A n \in Nodes, k \in Keys :
                /\ held[n][k] = (IF grave[n][k] # 0 THEN Gone ELSE page[n][k])
                /\ stored[n][k] = (IF graveRow[n][k] # 0 THEN Gone ELSE pageRow[n][k])
                /\ page[n][k] \in 0..MaxTime /\ grave[n][k] \in 0..MaxTime
                /\ pageRow[n][k] \in 0..MaxTime /\ graveRow[n][k] \in 0..MaxTime
  BY DEF held, stored, SiteInv, Types, Versions
<1>3. \A m \in signed : m \in Items /\ m.key \in Keys /\ m.at \in 1..MaxTime
  BY DEF SiteInv, Types, Items
<1>4. \A m \in signed : Level(m) = IF m.type = "delete" THEN Gone ELSE m.at
  BY DEF Level
<1>5. \A n \in Nodes, k \in Keys : held[n][k] \in 0..Gone /\ stored[n][k] \in 0..Gone
  BY <1>1, <1>2
<1>6. \A m \in signed : Level(m) \in 1..Gone /\ HomeOf(m.key) \in Nodes
  BY <1>1, <1>3, <1>4, UserParts
<1> QED
  BY <1>1, <1>2, <1>3, <1>4, <1>5, <1>6

LEMMA InitKept == Init => KeptInv
<1> SUFFICES ASSUME Init PROVE KeptInv
  OBVIOUS
<1>1. SiteInv
  BY InitInv
<1>2. /\ \A n \in Nodes : pc[User(n)] = "idle"
      /\ \A t \in Threads : pc[t] = "idle"
      /\ net = {} /\ signed = {}
      /\ \A n \in Nodes, k \in Keys : page[n][k] = 0 /\ graveRow[n][k] = 0 /\ grave[n][k] = 0
                                      /\ pageRow[n][k] = 0
  BY UserParts DEF Init, Nothing
<1>3. \A k \in Keys : held[HomeOf(k)][k] <= stored[HomeOf(k)][k]
  <2> SUFFICES ASSUME NEW k \in Keys PROVE held[HomeOf(k)][k] <= stored[HomeOf(k)][k]
    OBVIOUS
  <2>1. HomeOf(k) \in Nodes
    BY UserParts
  <2>2. held[HomeOf(k)][k] = 0 /\ stored[HomeOf(k)][k] = 0
    BY <1>2, <2>1 DEF held, stored
  <2> QED
    BY <2>2
<1> QED
  BY <1>2, <1>3 DEF KeptInv, UsersAtHome, Private, BuriedKept, FirstLife, SecondLife, Pending

\* How a thread goes on: the others stay where they are, and it has no new work.
GoesOn(t) ==
    /\ \A x \in Threads : x # t => pc'[x] = pc[x] /\ jobs'[x] = jobs[x]
    /\ \A i \in DOMAIN jobs'[t] : \E j \in DOMAIN jobs[t] : jobs'[t][i] = jobs[t][j]
    /\ Role(t) = "user" => jobs'[t] = jobs[t]

LEMMA FinishedGoesOn ==
    ASSUME SiteInv, NEW t \in Threads, pc[t] \notin {"idle", "asked"}, Finished(t)
    PROVE  /\ GoesOn(t)
           /\ Role(t) = "user" => pc'[t] = "announce"
           /\ Role(t) # "user" => pc'[t] \in {"idle", "handle"}
<1>1. pc \in [Threads -> Places] /\ jobs \in [Threads -> Seq(Items)]
  BY DEF SiteInv, Threading
<1>2. CASE Role(t) = "user"
  BY <1>1, <1>2 DEF Finished, Goto, GoesOn
<1>3. CASE Role(t) # "user"
  <2>1. jobs' = [jobs EXCEPT ![t] = Tail(@)]
    BY <1>3 DEF Finished
  <2>2. pc' = [pc EXCEPT ![t] = IF Len(jobs[t]) = 1 THEN "idle" ELSE "handle"]
    BY <1>3 DEF Finished, Goto
  <2>3. \A i \in DOMAIN Tail(jobs[t]) : i + 1 \in DOMAIN jobs[t] /\ Tail(jobs[t])[i] = jobs[t][i + 1]
    BY JobSigned, TailParts
  <2> QED
    BY <1>1, <1>3, <2>1, <2>2, <2>3 DEF GoesOn
<1> QED
  BY <1>2, <1>3

LEMMA GotoGoesOn ==
    ASSUME SiteInv, NEW t \in Threads, NEW place, Goto(t, place), UNCHANGED jobs
    PROVE  GoesOn(t) /\ pc'[t] = place
<1>1. pc \in [Threads -> Places] /\ jobs \in [Threads -> Seq(Items)]
  BY DEF SiteInv, Threading
<1> QED
  BY <1>1 DEF Goto, GoesOn

\* What each step of a thread does to the copies and the rows.
LEMMA HandlePageFacts ==
    ASSUME SiteInv, NEW t \in Threads, HandlePage(t)
    PROVE  /\ pc[t] = "handle" /\ Job(t).type = "page" /\ GoesOn(t)
           /\ UNCHANGED <<net, time, signed, restarts, page, grave, pageRow, graveRow>>
           /\ \/ Role(t) = "user" /\ pc'[t] = "announce"
              \/ Role(t) # "user" /\ pc'[t] \in {"idle", "handle"}
              \/ pc'[t] = "persist" /\ UNCHANGED jobs /\ ~Refused(t, Job(t))
<1>1. Finished(t) \/ (Goto(t, "persist") /\ UNCHANGED jobs /\ ~Refused(t, Job(t)))
  BY DEF HandlePage
<1>2. pc[t] = "handle" /\ Job(t).type = "page"
      /\ UNCHANGED <<net, time, signed, restarts, page, grave, pageRow, graveRow>>
  BY DEF HandlePage, netVars, rowVars
<1> QED
  BY <1>1, <1>2, FinishedGoesOn, GotoGoesOn

LEMMA PersistFacts ==
    ASSUME SiteInv, NEW t \in Threads, Persist(t)
    PROVE  /\ pc[t] = "persist" /\ Job(t).type = "page" /\ GoesOn(t)
           /\ Job(t) \in signed /\ Node(t) \in Nodes
           /\ UNCHANGED <<net, time, signed, restarts, grave, pageRow, graveRow>>
           /\ \/ /\ \/ Role(t) = "user" /\ pc'[t] = "announce"
                    \/ Role(t) # "user" /\ pc'[t] \in {"idle", "handle"}
                 /\ UNCHANGED page /\ Level(Job(t)) <= held[Node(t)][Job(t).key]
              \/ /\ pc'[t] = "upsert" /\ UNCHANGED jobs
                 /\ held[Node(t)][Job(t).key] < Job(t).at
                 /\ grave[Node(t)][Job(t).key] = 0
                 /\ \A p \in Nodes, k \in Keys :
                      page'[p][k] = IF p = Node(t) /\ k = Job(t).key THEN Job(t).at ELSE page[p][k]
<1> DEFINE n == Node(t)
           m == Job(t)
<1>1. /\ n \in Nodes /\ m.key \in Keys /\ m.at \in 1..MaxTime /\ m.type = "page" /\ m \in signed
  BY JobSigned, ThreadParts DEF Persist, SiteInv, Threading
<1>2. pc[t] = "persist" /\ UNCHANGED <<net, time, signed, restarts, grave, pageRow, graveRow>>
  BY DEF Persist, netVars, rowVars
<1>3. Level(m) = m.at
  BY <1>1 DEF Level
<1>4. /\ held[n][m.key] = (IF grave[n][m.key] # 0 THEN Gone ELSE page[n][m.key])
      /\ page[n][m.key] \in 0..MaxTime /\ Gone \in Nat /\ MaxTime < Gone /\ MaxTime \in Nat
  BY <1>1, Levels
<1>5. CASE grave[n][m.key] # 0 \/ (page[n][m.key] # 0 /\ m.at <= page[n][m.key])
  <2>1. Finished(t) /\ UNCHANGED page
    BY <1>5 DEF Persist
  <2>2. Level(m) <= held[n][m.key]
    BY <1>1, <1>3, <1>4, <1>5
  <2> QED
    BY <1>1, <1>2, <2>1, <2>2, FinishedGoesOn
<1>6. CASE ~(grave[n][m.key] # 0 \/ (page[n][m.key] # 0 /\ m.at <= page[n][m.key]))
  <2>1. page' = [page EXCEPT ![n][m.key] = m.at] /\ Goto(t, "upsert") /\ UNCHANGED jobs
    BY <1>6 DEF Persist
  <2>2. held[n][m.key] < m.at /\ grave[n][m.key] = 0
    BY <1>1, <1>4, <1>6
  <2>3. \A p \in Nodes, k \in Keys :
            page'[p][k] = IF p = n /\ k = m.key THEN m.at ELSE page[p][k]
    BY <1>1, <2>1 DEF SiteInv, Types, Versions
  <2> QED
    BY <1>1, <1>2, <2>1, <2>2, <2>3, GotoGoesOn
<1> QED
  BY <1>5, <1>6

LEMMA UpsertFacts ==
    ASSUME SiteInv, NEW t \in Threads, Upsert(t)
    PROVE  /\ pc[t] = "upsert" /\ Job(t).type = "page" /\ GoesOn(t)
           /\ Job(t) \in signed /\ Node(t) \in Nodes
           /\ UNCHANGED <<net, time, signed, restarts, page, grave, graveRow>>
           /\ \/ Role(t) = "user" /\ pc'[t] = "announce"
              \/ Role(t) # "user" /\ pc'[t] \in {"idle", "handle"}
           /\ \A p \in Nodes, k \in Keys :
                pageRow'[p][k] = IF p = Node(t) /\ k = Job(t).key THEN Job(t).at ELSE pageRow[p][k]
<1>1. /\ Node(t) \in Nodes /\ Job(t).key \in Keys /\ Job(t).at \in 1..MaxTime
      /\ Job(t).type = "page" /\ Job(t) \in signed
  BY JobSigned, ThreadParts DEF Upsert, SiteInv, Threading
<1>2. /\ pc[t] = "upsert" /\ Finished(t)
      /\ pageRow' = [pageRow EXCEPT ![Node(t)][Job(t).key] = Job(t).at]
      /\ UNCHANGED <<net, time, signed, restarts, page, grave, graveRow>>
  BY DEF Upsert, netVars, mapVars
<1>3. \A p \in Nodes, k \in Keys :
        pageRow'[p][k] = IF p = Node(t) /\ k = Job(t).key THEN Job(t).at ELSE pageRow[p][k]
  BY <1>1, <1>2 DEF SiteInv, Types, Versions
<1> QED
  BY <1>1, <1>2, <1>3, FinishedGoesOn

LEMMA ApplyDeleteFacts ==
    ASSUME SiteInv, NEW t \in Threads, ApplyDelete(t)
    PROVE  /\ pc[t] = "handle" /\ Job(t).type = "delete" /\ GoesOn(t)
           /\ Job(t) \in signed /\ Node(t) \in Nodes
           /\ UNCHANGED <<net, time, signed, restarts, pageRow, graveRow>>
           /\ \/ /\ \/ Role(t) = "user" /\ pc'[t] = "announce"
                    \/ Role(t) # "user" /\ pc'[t] \in {"idle", "handle"}
                 /\ UNCHANGED <<page, grave>>
                 /\ grave[Node(t)][Job(t).key] # 0 /\ Job(t).at <= grave[Node(t)][Job(t).key]
              \/ /\ pc'[t] = "bury" /\ UNCHANGED jobs
                 /\ \A p \in Nodes, k \in Keys :
                      /\ page'[p][k] = IF p = Node(t) /\ k = Job(t).key THEN 0 ELSE page[p][k]
                      /\ grave'[p][k] = IF p = Node(t) /\ k = Job(t).key THEN Job(t).at ELSE grave[p][k]
<1> DEFINE n == Node(t)
           m == Job(t)
<1>1. /\ n \in Nodes /\ m.key \in Keys /\ m.at \in 1..MaxTime /\ m.type = "delete" /\ m \in signed
  BY JobSigned, ThreadParts DEF ApplyDelete
<1>2. pc[t] = "handle" /\ UNCHANGED <<net, time, signed, restarts, pageRow, graveRow>>
  BY DEF ApplyDelete, netVars, rowVars
<1>3. CASE grave[n][m.key] # 0 /\ m.at <= grave[n][m.key]
  <2>1. Finished(t) /\ UNCHANGED <<page, grave>>
    BY <1>3 DEF ApplyDelete
  <2> QED
    BY <1>1, <1>2, <1>3, <2>1, FinishedGoesOn
<1>4. CASE ~(grave[n][m.key] # 0 /\ m.at <= grave[n][m.key])
  <2>1. /\ page' = [page EXCEPT ![n][m.key] = 0] /\ grave' = [grave EXCEPT ![n][m.key] = m.at]
        /\ Goto(t, "bury") /\ UNCHANGED jobs
    BY <1>4 DEF ApplyDelete
  <2>2. \A p \in Nodes, k \in Keys :
            /\ page'[p][k] = IF p = n /\ k = m.key THEN 0 ELSE page[p][k]
            /\ grave'[p][k] = IF p = n /\ k = m.key THEN m.at ELSE grave[p][k]
    BY <1>1, <2>1 DEF SiteInv, Types, Versions
  <2> QED
    BY <1>1, <1>2, <2>1, <2>2, GotoGoesOn
<1> QED
  BY <1>3, <1>4

LEMMA BuryFacts ==
    ASSUME SiteInv, NEW t \in Threads, Bury(t)
    PROVE  /\ pc[t] = "bury" /\ Job(t).type = "delete" /\ GoesOn(t)
           /\ Job(t) \in signed /\ Node(t) \in Nodes
           /\ UNCHANGED <<net, time, signed, restarts, page, grave>>
           /\ \/ Role(t) = "user" /\ pc'[t] = "announce"
              \/ Role(t) # "user" /\ pc'[t] \in {"idle", "handle"}
           /\ \A p \in Nodes, k \in Keys :
                /\ pageRow'[p][k] = IF p = Node(t) /\ k = Job(t).key THEN 0 ELSE pageRow[p][k]
                /\ graveRow'[p][k] = IF p = Node(t) /\ k = Job(t).key THEN Job(t).at ELSE graveRow[p][k]
<1>1. /\ Node(t) \in Nodes /\ Job(t).key \in Keys /\ Job(t).at \in 1..MaxTime
      /\ Job(t).type = "delete" /\ Job(t) \in signed
  BY JobSigned, ThreadParts DEF Bury, SiteInv, Threading
<1>2. /\ pc[t] = "bury" /\ Finished(t)
      /\ pageRow' = [pageRow EXCEPT ![Node(t)][Job(t).key] = 0]
      /\ graveRow' = [graveRow EXCEPT ![Node(t)][Job(t).key] = Job(t).at]
      /\ UNCHANGED <<net, time, signed, restarts, page, grave>>
  BY DEF Bury, netVars, mapVars
<1>3. \A p \in Nodes, k \in Keys :
        /\ pageRow'[p][k] = IF p = Node(t) /\ k = Job(t).key THEN 0 ELSE pageRow[p][k]
        /\ graveRow'[p][k] = IF p = Node(t) /\ k = Job(t).key THEN Job(t).at ELSE graveRow[p][k]
  BY <1>1, <1>2 DEF SiteInv, Types, Versions
<1> QED
  BY <1>1, <1>2, <1>3, FinishedGoesOn

\* Steps of a thread, as far as the users are concerned.
LEMMA StepUsers ==
    ASSUME SiteInv, UsersAtHome, NEW t \in Threads, Step(t)
    PROVE  /\ SiteInv' /\ GoesOn(t) /\ UNCHANGED <<net, time, signed, restarts>>
           /\ pc[t] \in {"handle", "persist", "upsert", "bury"}
           /\ Node(t) \in Nodes /\ Job(t) \in signed /\ 1 \in DOMAIN jobs[t] /\ Job(t) = jobs[t][1]
           /\ \A n \in Nodes : Job(User(n))' = Job(User(n))
           /\ \A n \in Nodes : t # User(n) => pc'[User(n)] = pc[User(n)]
           /\ Role(t) = "user" => pc'[t] \in {"upsert", "bury", "announce"} /\ t = User(Node(t))
           /\ pc'[t] # "asked"
<1>1. SiteInv'
  BY HandlePageInv, PersistInv, UpsertInv, ApplyDeleteInv, BuryInv DEF Step
<1>2. GoesOn(t) /\ UNCHANGED <<net, time, signed, restarts>>
  BY HandlePageFacts, PersistFacts, UpsertFacts, ApplyDeleteFacts, BuryFacts DEF Step
<1>3. pc[t] \in {"handle", "persist", "upsert", "bury"}
  BY DEF Step, HandlePage, Persist, Upsert, ApplyDelete, Bury
<1>4. jobs[t] \in Seq(Items) /\ jobs[t] # <<>> /\ Job(t) \in signed
  BY <1>3, JobSigned
<1>5. 1 \in DOMAIN jobs[t] /\ Job(t) = jobs[t][1]
  BY <1>4 DEF Job
<1>6. \A n \in Nodes : jobs'[User(n)] = jobs[User(n)]
  BY <1>2, UserParts DEF GoesOn
<1>7. \A n \in Nodes : t # User(n) => pc'[User(n)] = pc[User(n)]
  BY <1>2, UserParts DEF GoesOn
<1>8. ASSUME Role(t) = "user"
      PROVE  pc'[t] \in {"upsert", "bury", "announce"} /\ t = User(Node(t))
  <2>1. t = User(Node(t)) /\ Node(t) \in Nodes
    BY <1>8, UserParts, ThreadParts
  <2>2. pc[t] = "handle" => Job(t).type = "delete"
    BY <2>1 DEF UsersAtHome
  <2> QED
    BY <1>8, <2>1, <2>2, HandlePageFacts, PersistFacts, UpsertFacts, ApplyDeleteFacts, BuryFacts DEF Step
<1>9. pc'[t] # "asked"
  BY HandlePageFacts, PersistFacts, UpsertFacts, ApplyDeleteFacts, BuryFacts DEF Step
<1> QED
  BY <1>1, <1>2, <1>3, <1>4, <1>5, <1>6, <1>7, <1>8, <1>9, ThreadParts DEF Job

LEMMA StepAtHome ==
    ASSUME SiteInv, KeptInv, NEW t \in Threads, Step(t)
    PROVE  UsersAtHome'
<1> SUFFICES ASSUME NEW n \in Nodes
             PROVE  /\ pc'[User(n)] \notin {"idle", "asked"} => HomeOf(Job(User(n))'.key) = n
                    /\ pc'[User(n)] = "handle" => Job(User(n))'.type = "delete"
  BY DEF UsersAtHome, HomeOf
<1>1. UsersAtHome
  BY DEF KeptInv
<1>2. Job(User(n))' = Job(User(n))
  BY <1>1, StepUsers
<1>3. CASE t # User(n)
  <2>1. pc'[User(n)] = pc[User(n)]
    BY <1>1, <1>3, StepUsers
  <2> QED
    BY <1>1, <1>2, <2>1 DEF UsersAtHome
<1>4. CASE t = User(n)
  <2>1. pc[t] \in {"handle", "persist", "upsert", "bury"} /\ pc'[t] # "handle"
    BY <1>1, <1>4, StepUsers, UserParts
  <2> QED
    BY <1>1, <1>2, <1>4, <2>1 DEF UsersAtHome
<1> QED
  BY <1>3, <1>4

\* A step of another thread does not show anyone what a user has just signed: where
\* a copy changes, it becomes that thread's job.
LEMMA StepUnseen ==
    ASSUME SiteInv, UsersAtHome, NEW t \in Threads, Step(t), NEW n \in Nodes, t # User(n),
           NEW m \in signed, Unseen(m, n)
    PROVE  Unseen(m, n)'
<1>1. /\ GoesOn(t) /\ net' = net /\ Job(t) = jobs[t][1] /\ 1 \in DOMAIN jobs[t] /\ Node(t) \in Nodes
      /\ Job(t) \in signed
  BY StepUsers
<1>2. m \in Items /\ m.key \in Keys /\ m.at \in 1..MaxTime /\ m # Job(t)
  BY <1>1, Levels DEF Unseen
<1>3. Job(t) \in Items /\ Job(t).key \in Keys
  BY <1>1, Levels
<1>4. \A x \in Threads : x # User(n) => \A i \in DOMAIN jobs'[x] : jobs'[x][i] # m
  BY <1>1 DEF GoesOn, Unseen
<1>5. \A a \in Items, b \in Items : a.type = b.type /\ a.key = b.key /\ a.at = b.at => a = b
  BY DEF Items
<1>6. ASSUME m.type = "page", NEW p \in Nodes
      PROVE  page'[p][m.key] # m.at /\ pageRow'[p][m.key] # m.at
  <2>1. page[p][m.key] # m.at /\ pageRow[p][m.key] # m.at /\ m.at # 0
    BY <1>2, <1>6 DEF Unseen
  <2>2. \/ page'[p][m.key] \in {page[p][m.key], 0}
        \/ page'[p][m.key] = Job(t).at /\ Job(t).key = m.key /\ Job(t).type = "page"
    BY <1>2, HandlePageFacts, PersistFacts, UpsertFacts, ApplyDeleteFacts, BuryFacts DEF Step
  <2>3. \/ pageRow'[p][m.key] \in {pageRow[p][m.key], 0}
        \/ pageRow'[p][m.key] = Job(t).at /\ Job(t).key = m.key /\ Job(t).type = "page"
    BY <1>2, HandlePageFacts, PersistFacts, UpsertFacts, ApplyDeleteFacts, BuryFacts DEF Step
  <2> QED
    BY <1>2, <1>3, <1>5, <1>6, <2>1, <2>2, <2>3
<1>7. ASSUME m.type = "delete", NEW p \in Nodes
      PROVE  grave'[p][m.key] # m.at /\ graveRow'[p][m.key] # m.at
  <2>1. grave[p][m.key] # m.at /\ graveRow[p][m.key] # m.at
    BY <1>2, <1>7 DEF Unseen
  <2>2. \/ grave'[p][m.key] = grave[p][m.key]
        \/ grave'[p][m.key] = Job(t).at /\ Job(t).key = m.key /\ Job(t).type = "delete"
    BY <1>2, HandlePageFacts, PersistFacts, UpsertFacts, ApplyDeleteFacts, BuryFacts DEF Step
  <2>3. \/ graveRow'[p][m.key] = graveRow[p][m.key]
        \/ graveRow'[p][m.key] = Job(t).at /\ Job(t).key = m.key /\ Job(t).type = "delete"
    BY <1>2, HandlePageFacts, PersistFacts, UpsertFacts, ApplyDeleteFacts, BuryFacts DEF Step
  <2> QED
    BY <1>2, <1>3, <1>5, <1>7, <2>1, <2>2, <2>3
<1> QED
  BY <1>1, <1>4, <1>6, <1>7 DEF Unseen

LEMMA StepPrivate ==
    ASSUME SiteInv, KeptInv, NEW t \in Threads, Step(t)
    PROVE  Private'
<1>1. UsersAtHome /\ Private
  BY DEF KeptInv
<1>2. signed' = signed /\ time' = time
  BY <1>1, StepUsers
<1> SUFFICES ASSUME NEW n \in Nodes, Pending(n)'
             PROVE  /\ Unseen(Job(User(n)), n)'
                    /\ \A s \in signed : s.key = Job(User(n))'.key
                         => s = Job(User(n))' \/ s.at < Job(User(n))'.at
  BY <1>1, <1>2 DEF Private
<1> DEFINE m == Job(User(n))
<1>3. t # User(n)
  BY <1>1, StepUsers, UserParts DEF Pending
<1>4. Pending(n) /\ m' = m
  BY <1>1, <1>3, StepUsers DEF Pending
<1>5. m \in signed
  BY <1>4, JobSigned, UserParts DEF Pending
<1>6. Unseen(m, n)
  BY <1>1, <1>4 DEF Private
<1> HIDE DEF m
<1>7. Unseen(m, n)'
  <2>1. /\ m \notin net'
        /\ \A x \in Threads : x # User(n) => \A i \in DOMAIN jobs'[x] : jobs'[x][i] # m
        /\ \A p \in Nodes :
            /\ m.type = "page" => page'[p][m.key] # m.at /\ pageRow'[p][m.key] # m.at
            /\ m.type = "delete" => grave'[p][m.key] # m.at /\ graveRow'[p][m.key] # m.at
    <3> SUFFICES ASSUME NEW c \in signed, Unseen(c, n)
                 PROVE  /\ c \notin net'
                        /\ \A x \in Threads : x # User(n) => \A i \in DOMAIN jobs'[x] : jobs'[x][i] # c
                        /\ \A p \in Nodes :
                            /\ c.type = "page" => page'[p][c.key] # c.at /\ pageRow'[p][c.key] # c.at
                            /\ c.type = "delete" => grave'[p][c.key] # c.at /\ graveRow'[p][c.key] # c.at
      BY <1>5, <1>6
    <3> QED
      BY <1>1, <1>3, StepUnseen DEF Unseen
  <2> QED
    BY <1>4, <2>1 DEF Unseen
<1>8. \A s \in signed : s.key = m.key => s = m \/ s.at < m.at
  BY <1>1, <1>4 DEF Private, m
<1> QED
  BY <1>4, <1>7, <1>8 DEF m

\* The user's own deletion is newer than any tombstone, so it is never skipped.
LEMMA OwnDeleteTaken ==
    ASSUME SiteInv, KeptInv, NEW t \in Threads, ApplyDelete(t), Role(t) = "user"
    PROVE  pc'[t] = "bury"
<1> DEFINE n == Node(t)
           m == Job(t)
<1>1. /\ pc[t] = "handle" /\ m.type = "delete" /\ m \in signed /\ n \in Nodes /\ t = User(n)
      /\ m.key \in Keys /\ m.at \in 1..MaxTime
  BY ApplyDeleteFacts, UserParts, Levels
<1>2. /\ Unseen(m, n)
      /\ \A s \in signed : s.key = m.key => s = m \/ s.at < m.at
  BY <1>1 DEF KeptInv, Private, Pending
<1>3. grave[n][m.key] # m.at
  BY <1>1, <1>2 DEF Unseen
<1>4. ASSUME grave[n][m.key] # 0
      PROVE  grave[n][m.key] < m.at
  <2>1. Delete(m.key, grave[n][m.key]) \in signed
    BY <1>1, <1>4 DEF SiteInv, Authentic
  <2>2. Delete(m.key, grave[n][m.key]).at = grave[n][m.key] /\ Delete(m.key, grave[n][m.key]).key = m.key
    BY DEF Delete
  <2> QED
    BY <1>2, <1>3, <2>1, <2>2
<1>5. grave[n][m.key] \in 0..MaxTime /\ MaxTime \in Nat
  BY <1>1, Levels
<1>6. ~(grave[n][m.key] # 0 /\ m.at <= grave[n][m.key])
  BY <1>1, <1>4, <1>5
<1> QED
  BY <1>6, ApplyDeleteFacts

LEMMA StepBuried ==
    ASSUME SiteInv, KeptInv, NEW t \in Threads, Step(t)
    PROVE  BuriedKept'
<1>1. UsersAtHome /\ BuriedKept
  BY DEF KeptInv
<1>2. /\ GoesOn(t) /\ net' = net /\ Node(t) \in Nodes /\ Job(t) \in signed
      /\ Job(t).key \in Keys /\ Job(t).at \in 1..MaxTime /\ MaxTime \in Nat
  BY <1>1, StepUsers, Levels
<1>3. \A n \in Nodes, k \in Keys :
        /\ grave[n][k] # 0 => grave'[n][k] # 0
        /\ graveRow[n][k] # 0 => graveRow'[n][k] # 0
  BY <1>2, HandlePageFacts, PersistFacts, UpsertFacts, ApplyDeleteFacts, BuryFacts DEF Step
<1>4. \A n \in Nodes, k \in Keys : graveRow'[n][k] # 0 => grave'[n][k] # 0
  <2> SUFFICES ASSUME NEW n \in Nodes, NEW k \in Keys, graveRow'[n][k] # 0, graveRow[n][k] = 0
               PROVE  grave'[n][k] # 0
    BY <1>1, <1>3 DEF BuriedKept
  <2>1. Bury(t) /\ n = Node(t) /\ k = Job(t).key
    BY HandlePageFacts, PersistFacts, UpsertFacts, ApplyDeleteFacts, BuryFacts DEF Step
  <2> QED
    BY <1>1, <1>3, <2>1, BuryFacts DEF BuriedKept
<1>5. ASSUME NEW x \in Threads, pc'[x] = "bury"
      PROVE  grave'[Node(x)][Job(x)'.key] # 0
  <2>1. CASE x = t
    <3>1. ApplyDelete(t) /\ jobs' = jobs /\ grave'[Node(t)][Job(t).key] = Job(t).at
      BY <1>2, <1>5, <2>1, HandlePageFacts, PersistFacts, UpsertFacts, ApplyDeleteFacts, BuryFacts DEF Step
    <3> QED
      BY <1>2, <2>1, <3>1 DEF Job
  <2>2. CASE x # t
    <3>1. pc[x] = "bury" /\ Job(x)' = Job(x)
      BY <1>2, <1>5, <2>2 DEF GoesOn, Job
    <3>2. Node(x) \in Nodes /\ Job(x).key \in Keys
      BY <3>1, JobSigned, ThreadParts
    <3> QED
      BY <1>1, <1>3, <3>1, <3>2 DEF BuriedKept
  <2> QED
    BY <2>1, <2>2
<1>6. ASSUME NEW m \in net', m.type = "delete"
      PROVE  graveRow'[HomeOf(m.key)][m.key] # 0
  <2>1. m \in net /\ m \in signed /\ m.key \in Keys /\ HomeOf(m.key) \in Nodes
    BY <1>2, <1>6, Levels DEF SiteInv, Types
  <2> QED
    BY <1>1, <1>3, <1>6, <2>1 DEF BuriedKept
<1>7. ASSUME NEW n \in Nodes, pc'[User(n)] = "announce", Job(User(n))'.type = "delete"
      PROVE  graveRow'[n][Job(User(n))'.key] # 0
  <2>1. Job(User(n))' = Job(User(n))
    BY <1>1, StepUsers
  <2>2. CASE t = User(n)
    <3>1. Job(t).type = "delete" /\ Role(t) = "user" /\ Node(t) = n
      BY <1>7, <2>1, <2>2, UserParts
    <3>2. ApplyDelete(t) \/ Bury(t)
      BY <3>1, HandlePageFacts, PersistFacts, UpsertFacts, ApplyDeleteFacts, BuryFacts DEF Step
    <3>3. Bury(t)
      BY <1>7, <2>2, <3>1, <3>2, OwnDeleteTaken
    <3> QED
      BY <1>2, <2>1, <2>2, <3>1, <3>3, BuryFacts
  <2>3. CASE t # User(n)
    <3>1. pc[User(n)] = "announce"
      BY <1>1, <1>7, <2>3, StepUsers
    <3>2. Job(User(n)).key \in Keys
      BY <3>1, JobSigned, UserParts
    <3> QED
      BY <1>1, <1>3, <1>7, <2>1, <3>1, <3>2 DEF BuriedKept
  <2> QED
    BY <2>2, <2>3
<1> QED
  BY <1>4, <1>5, <1>6, <1>7 DEF BuriedKept, HomeOf

\* No step of a thread takes a copy back, and whoever moves one leaves it at the
\* level of its job.
LEMMA HeldGrows ==
    ASSUME SiteInv, UsersAtHome, NEW t \in Threads, Step(t)
    PROVE  /\ \A n \in Nodes, k \in Keys : held[n][k] <= held'[n][k]
           /\ \A n \in Nodes, k \in Keys : held'[n][k] # held[n][k] =>
                /\ n = Node(t) /\ k = Job(t).key /\ held'[n][k] = Level(Job(t))
                /\ held[n][k] < Level(Job(t))
                /\ (Persist(t) /\ pc'[t] = "upsert") \/ ApplyDelete(t)
<1>1. SiteInv' /\ UNCHANGED signed /\ Node(t) \in Nodes /\ Job(t) \in signed
  BY StepUsers
<1>2. /\ Job(t).key \in Keys /\ Job(t).at \in 1..MaxTime /\ MaxTime < Gone /\ MaxTime \in Nat /\ Gone \in Nat
      /\ Level(Job(t)) = IF Job(t).type = "delete" THEN Gone ELSE Job(t).at
  BY <1>1, Levels
<1> SUFFICES ASSUME NEW n \in Nodes, NEW k \in Keys
             PROVE  /\ held[n][k] <= held'[n][k]
                    /\ held'[n][k] # held[n][k] =>
                         /\ n = Node(t) /\ k = Job(t).key /\ held'[n][k] = Level(Job(t))
                         /\ held[n][k] < Level(Job(t))
                         /\ (Persist(t) /\ pc'[t] = "upsert") \/ ApplyDelete(t)
  OBVIOUS
<1>3. /\ held[n][k] = (IF grave[n][k] # 0 THEN Gone ELSE page[n][k])
      /\ page[n][k] \in 0..MaxTime /\ grave[n][k] \in 0..MaxTime /\ held[n][k] \in 0..Gone
  BY Levels
<1>4. held'[n][k] = (IF grave'[n][k] # 0 THEN Gone ELSE page'[n][k])
  BY DEF held
<1>5. CASE grave'[n][k] = grave[n][k] /\ page'[n][k] = page[n][k]
  <2>1. held'[n][k] = held[n][k]
    BY <1>3, <1>4, <1>5
  <2> QED
    BY <1>3, <2>1
<1>6. CASE ~(grave'[n][k] = grave[n][k] /\ page'[n][k] = page[n][k])
  <2>1. Persist(t) \/ ApplyDelete(t)
    BY <1>6, HandlePageFacts, UpsertFacts, BuryFacts DEF Step
  <2>2. CASE Persist(t)
    <3>1. /\ pc'[t] = "upsert" /\ n = Node(t) /\ k = Job(t).key /\ page'[n][k] = Job(t).at
          /\ held[n][k] < Job(t).at /\ grave[n][k] = 0 /\ grave'[n][k] = 0 /\ Job(t).type = "page"
      BY <1>6, <2>2, PersistFacts
    <3>2. held'[n][k] = Job(t).at /\ Level(Job(t)) = Job(t).at
      BY <1>2, <1>4, <3>1
    <3> QED
      BY <1>2, <1>3, <2>2, <3>1, <3>2
  <2>3. CASE ApplyDelete(t)
    <3>1. /\ n = Node(t) /\ k = Job(t).key /\ grave'[n][k] = Job(t).at /\ Job(t).type = "delete"
      BY <1>6, <2>3, ApplyDeleteFacts
    <3>2. held'[n][k] = Gone /\ Level(Job(t)) = Gone
      BY <1>2, <1>4, <3>1
    <3> QED
      BY <1>2, <1>3, <2>3, <3>1, <3>2
  <2> QED
    BY <2>1, <2>2, <2>3
<1> QED
  BY <1>5, <1>6

LEMMA StepSecond ==
    ASSUME SiteInv, KeptInv, NEW t \in Threads, Step(t)
    PROVE  SecondLife'
<1>1. UsersAtHome /\ SecondLife /\ SiteInv'
  BY StepUsers DEF KeptInv
<1>2. net' = net /\ restarts' = restarts /\ signed' = signed
  BY <1>1, StepUsers
<1> SUFFICES ASSUME restarts <= 1
             PROVE  /\ \A m \in net : Level(m) <= held'[HomeOf(m.key)][m.key]
                    /\ \A n \in Nodes : pc'[User(n)] \in {"upsert", "bury", "announce"}
                         => Level(Job(User(n))') <= held'[n][Job(User(n))'.key]
  BY <1>2 DEF SecondLife, HomeOf, Level
<1>3. \A n \in Nodes, k \in Keys :
        held[n][k] \in 0..Gone /\ held'[n][k] \in 0..Gone /\ held[n][k] <= held'[n][k]
  <2>1. \A n \in Nodes, k \in Keys : held'[n][k] \in 0..Gone
    BY <1>1, Levels DEF held, SiteInv, Types, Versions
  <2> QED
    BY <1>1, <2>1, HeldGrows, Levels
<1>4. ASSUME NEW m \in net
      PROVE  Level(m) <= held'[HomeOf(m.key)][m.key]
  <2>1. m \in signed /\ HomeOf(m.key) \in Nodes /\ m.key \in Keys /\ Level(m) \in 1..Gone
    BY <1>4, Levels DEF SiteInv, Types
  <2>2. Level(m) <= held[HomeOf(m.key)][m.key]
    BY <1>1, <1>4 DEF SecondLife
  <2>3. held[HomeOf(m.key)][m.key] \in 0..Gone /\ held'[HomeOf(m.key)][m.key] \in 0..Gone
        /\ held[HomeOf(m.key)][m.key] <= held'[HomeOf(m.key)][m.key]
    BY <1>3, <2>1
  <2> QED
    BY <2>1, <2>2, <2>3, Levels
<1>5. ASSUME NEW n \in Nodes, pc'[User(n)] \in {"upsert", "bury", "announce"}
      PROVE  Level(Job(User(n))') <= held'[n][Job(User(n))'.key]
  <2> DEFINE m == Job(User(n))
  <2>1. m' = m
    BY <1>1, StepUsers
  <2>2. pc[User(n)] \notin {"idle", "asked"}
    BY <1>1, <1>5, StepUsers
  <2>3. m \in signed /\ m.key \in Keys /\ Level(m) \in 1..Gone
    BY <2>2, JobSigned, UserParts, Levels
  <2>4. held[n][m.key] \in 0..Gone /\ held'[n][m.key] \in 0..Gone /\ held[n][m.key] <= held'[n][m.key]
    BY <1>3, <2>3
  <2>5. CASE pc[User(n)] \in {"upsert", "bury", "announce"}
    <3>1. Level(m) <= held[n][m.key]
      BY <1>1, <2>5 DEF SecondLife
    <3> QED
      BY <2>1, <2>3, <2>4, <3>1, Levels
  <2>6. CASE pc[User(n)] \notin {"upsert", "bury", "announce"}
    <3>1. t = User(n) /\ Node(t) = n /\ Role(t) = "user"
      BY <1>1, <1>5, <2>6, StepUsers, UserParts
    <3>2. Persist(t) \/ ApplyDelete(t)
      <4>1. pc[t] = "handle" => Job(t).type = "delete"
        BY <1>1, <3>1 DEF UsersAtHome
      <4> QED
        BY <2>6, <3>1, <4>1, HandlePageFacts, UpsertFacts, BuryFacts DEF Step
    <3>3. Level(m) <= held'[n][m.key]
      <4>1. CASE Persist(t)
        <5>1. \/ Level(m) <= held[n][m.key]
              \/ pc'[t] = "upsert" /\ grave'[n][m.key] = 0 /\ page'[n][m.key] = m.at /\ m.type = "page"
          BY <2>3, <3>1, <4>1, PersistFacts
        <5>2. grave'[n][m.key] = 0 => held'[n][m.key] = page'[n][m.key]
          BY <2>3 DEF held
        <5>3. m.type = "page" => Level(m) = m.at
          BY DEF Level
        <5> QED
          BY <2>3, <2>4, <5>1, <5>2, <5>3, Levels
      <4>2. CASE ApplyDelete(t)
        <5>1. grave'[n][m.key] # 0
          BY <2>3, <3>1, <4>2, ApplyDeleteFacts, Levels
        <5>2. held'[n][m.key] = Gone
          BY <2>3, <5>1 DEF held, Gone
        <5> QED
          BY <2>3, <5>2, Levels
      <4> QED
        BY <3>2, <4>1, <4>2
    <3> QED
      BY <2>1, <3>3
  <2> QED
    BY <2>5, <2>6
<1> QED
  BY <1>4, <1>5

\* Before any crash nobody but the user has news for an author's node.
LEMMA NoNews ==
    ASSUME SiteInv, KeptInv, restarts = 0, NEW t \in Threads, Role(t) # "user",
           pc[t] \notin {"idle", "asked"}, HomeOf(Job(t).key) = Node(t)
    PROVE  Level(Job(t)) <= held[Node(t)][Job(t).key]
<1> DEFINE n == Node(t)
<1>1. n \in Nodes /\ Job(t) \in signed /\ 1 \in DOMAIN jobs[t] /\ Job(t) = jobs[t][1] /\ t # User(n)
  <2>1. jobs[t] \in Seq(Items) /\ jobs[t] # <<>> /\ Job(t) \in signed
    BY JobSigned
  <2>2. 1 \in DOMAIN jobs[t] /\ Job(t) = jobs[t][1]
    BY <2>1 DEF Job
  <2> QED
    BY <2>1, <2>2, ThreadParts, UserParts
<1>2. CASE Pending(n) /\ Job(t) = Job(User(n))
  <2>1. Unseen(Job(User(n)), n)
    BY <1>1, <1>2 DEF KeptInv, Private
  <2>2. jobs[t][1] # Job(User(n))
    BY <1>1, <2>1 DEF Unseen
  <2> QED
    BY <1>1, <1>2, <2>2
<1>3. CASE ~(Pending(n) /\ Job(t) = Job(User(n)))
  BY <1>1, <1>3 DEF KeptInv, FirstLife
<1> QED
  BY <1>2, <1>3

\* So its handlers and syncs accept no page for it, and change no copy of it.
LEMMA OnlyTheUser ==
    ASSUME SiteInv, KeptInv, restarts = 0, NEW t \in Threads, Role(t) # "user", Step(t),
           HomeOf(Job(t).key) = Node(t)
    PROVE  /\ pc'[t] \notin {"persist", "upsert"} /\ pc[t] \notin {"persist", "upsert"}
           /\ \A k \in Keys : held'[Node(t)][k] = held[Node(t)][k]
<1> DEFINE n == Node(t)
           k == Job(t).key
           m == Job(t)
<1>1. UsersAtHome
  BY DEF KeptInv
<1>2. /\ n \in Nodes /\ m \in signed /\ k \in Keys /\ pc[t] \notin {"idle", "asked"}
      /\ m.at \in 1..MaxTime
  BY <1>1, StepUsers, Levels
<1>3. Level(m) <= held[n][k]
  BY <1>2, NoNews
<1>4. pc[t] \notin {"persist", "upsert"}
  BY <1>2 DEF KeptInv, FirstLife
<1>5. /\ held[n][k] = (IF grave[n][k] # 0 THEN Gone ELSE page[n][k])
      /\ Level(m) = (IF m.type = "delete" THEN Gone ELSE m.at) /\ Level(m) \in 1..Gone
      /\ page[n][k] \in 0..MaxTime /\ MaxTime \in Nat /\ Gone \in Nat /\ MaxTime < Gone
      /\ held[n][k] \in 0..Gone
  BY <1>2, Levels
<1>6. pc'[t] \notin {"persist", "upsert"}
  <2>1. CASE HandlePage(t)
    <3>1. m.type = "page" /\ (grave[n][k] # 0 \/ (page[n][k] # 0 /\ m.at <= page[n][k]))
      BY <1>2, <1>3, <1>5, <2>1, HandlePageFacts
    <3>2. Refused(t, m)
      BY <3>1 DEF Refused
    <3> QED
      BY <2>1, <3>2, HandlePageFacts
  <2>2. CASE ~HandlePage(t)
    BY <1>4, <2>2, PersistFacts, UpsertFacts, ApplyDeleteFacts, BuryFacts DEF Step
  <2> QED
    BY <2>1, <2>2
<1>7. \A l \in Keys : held'[n][l] = held[n][l]
  BY <1>1, <1>2, <1>3, <1>5, HeldGrows
<1> QED
  BY <1>4, <1>6, <1>7

\* A step that moves the copy of an author's node is its user's.
LEMMA MovedByUser ==
    ASSUME SiteInv, KeptInv, restarts = 0, NEW t \in Threads, Step(t), NEW k \in Keys,
           held'[HomeOf(k)][k] # held[HomeOf(k)][k]
    PROVE  /\ t = User(HomeOf(k)) /\ Job(t).key = k /\ held'[HomeOf(k)][k] = Level(Job(t))
           /\ (Persist(t) /\ pc'[t] = "upsert") \/ (ApplyDelete(t) /\ pc'[t] = "bury")
<1>1. UsersAtHome /\ HomeOf(k) \in Nodes
  BY UserParts DEF KeptInv
<1>2. /\ HomeOf(k) = Node(t) /\ k = Job(t).key /\ held'[HomeOf(k)][k] = Level(Job(t))
      /\ (Persist(t) /\ pc'[t] = "upsert") \/ ApplyDelete(t)
  BY <1>1, HeldGrows
<1>3. Role(t) = "user"
  BY <1>1, <1>2, OnlyTheUser
<1>4. t = User(HomeOf(k))
  BY <1>2, <1>3, UserParts
<1> QED
  BY <1>2, <1>3, <1>4, OwnDeleteTaken

\* Before any crash the rows of an author's node do not go back either.
LEMMA StoredGrows ==
    ASSUME SiteInv, KeptInv, restarts = 0, NEW t \in Threads, Step(t), NEW k \in Keys
    PROVE  LET n == HomeOf(k)
           IN  /\ stored'[n][k] # stored[n][k] => n = Node(t) /\ Job(t).key = k
               /\ Bury(t) /\ n = Node(t) /\ Job(t).key = k => stored'[n][k] = Gone
               /\ Upsert(t) /\ n = Node(t) /\ Job(t).key = k =>
                    /\ t = User(n) /\ held[n][k] <= stored'[n][k]
               /\ ~Bury(t) /\ ~Upsert(t) => stored'[n][k] = stored[n][k]
<1> DEFINE n == HomeOf(k)
<1>1. UsersAtHome /\ n \in Nodes
  BY UserParts DEF KeptInv
<1>2. Node(t) \in Nodes /\ Job(t) \in signed /\ Job(t).at \in 1..MaxTime /\ Job(t).key \in Keys
  BY <1>1, StepUsers, Levels
<1>3. /\ stored[n][k] = (IF graveRow[n][k] # 0 THEN Gone ELSE pageRow[n][k])
      /\ held[n][k] \in 0..Gone /\ Gone \in Nat
  BY <1>1, Levels
<1>4. stored'[n][k] = (IF graveRow'[n][k] # 0 THEN Gone ELSE pageRow'[n][k])
  BY <1>1 DEF stored, Gone
<1>5. stored'[n][k] # stored[n][k] => n = Node(t) /\ Job(t).key = k
  BY <1>1, <1>3, <1>4, HandlePageFacts, PersistFacts, UpsertFacts, ApplyDeleteFacts, BuryFacts DEF Step
<1>6. ASSUME Bury(t), n = Node(t), Job(t).key = k
      PROVE  stored'[n][k] = Gone
  <2>1. graveRow'[n][k] = Job(t).at
    BY <1>1, <1>6, BuryFacts
  <2> QED
    BY <1>2, <1>4, <2>1
<1>7. ASSUME Upsert(t), n = Node(t), Job(t).key = k
      PROVE  t = User(n) /\ held[n][k] <= stored'[n][k]
  <2>1. Role(t) = "user"
    BY <1>7, UpsertFacts, OnlyTheUser
  <2>2. t = User(n) /\ pc[t] = "upsert"
    BY <1>7, <2>1, UserParts, UpsertFacts
  <2>3. held[n][k] <= Job(t).at
    BY <1>1, <1>7, <2>2 DEF KeptInv, FirstLife
  <2>4. pageRow'[n][k] = Job(t).at
    BY <1>1, <1>7, UpsertFacts
  <2> QED
    BY <1>2, <1>3, <1>4, <2>2, <2>3, <2>4
<1>8. ASSUME ~Bury(t), ~Upsert(t)
      PROVE  stored'[n][k] = stored[n][k]
  BY <1>1, <1>3, <1>4, <1>8, HandlePageFacts, PersistFacts, ApplyDeleteFacts DEF Step
<1> QED
  BY <1>5, <1>6, <1>7, <1>8

LEMMA StepFirst ==
    ASSUME SiteInv, KeptInv, NEW t \in Threads, Step(t)
    PROVE  FirstLife'
<1>1. UsersAtHome /\ FirstLife /\ SiteInv'
  BY StepUsers DEF KeptInv
<1>2. /\ net' = net /\ restarts' = restarts /\ signed' = signed /\ GoesOn(t)
      /\ Node(t) \in Nodes /\ Job(t) \in signed
      /\ \A n \in Nodes : Job(User(n))' = Job(User(n))
      /\ \A n \in Nodes : t # User(n) => pc'[User(n)] = pc[User(n)]
  BY <1>1, StepUsers
<1> SUFFICES ASSUME restarts = 0
             PROVE  /\ \A s \in signed :
                         \/ Level(s) <= held'[HomeOf(s.key)][s.key]
                         \/ Pending(HomeOf(s.key))' /\ s = Job(User(HomeOf(s.key)))'
                    /\ \A x \in Threads : Role(x) # "user" /\ pc'[x] \in {"persist", "upsert"}
                         => HomeOf(Job(x)'.key) # Node(x)
                    /\ \A k \in Keys :
                         \/ held'[HomeOf(k)][k] <= stored'[HomeOf(k)][k]
                         \/ /\ pc'[User(HomeOf(k))] \in {"upsert", "bury"}
                            /\ Job(User(HomeOf(k)))'.key = k
                    /\ \A n \in Nodes : pc'[User(n)] = "upsert"
                         => held'[n][Job(User(n))'.key] <= Job(User(n))'.at
                    /\ \A m \in net : Level(m) <= stored'[HomeOf(m.key)][m.key]
  BY <1>2 DEF FirstLife, HomeOf, Level, Node, Role
<1>3. \A n \in Nodes, k \in Keys :
        /\ held[n][k] \in 0..Gone /\ held'[n][k] \in 0..Gone /\ held[n][k] <= held'[n][k]
        /\ stored[n][k] \in 0..Gone /\ stored'[n][k] \in 0..Gone
  <2>1. \A n \in Nodes, k \in Keys : held'[n][k] \in 0..Gone /\ stored'[n][k] \in 0..Gone
    BY <1>1, Levels DEF held, stored, SiteInv, Types, Versions, Gone
  <2> QED
    BY <1>1, <2>1, HeldGrows, Levels
<1>4. Gone \in Nat /\ MaxTime \in Nat
  BY Levels
<1>5. ASSUME NEW s \in signed
      PROVE  \/ Level(s) <= held'[HomeOf(s.key)][s.key]
             \/ Pending(HomeOf(s.key))' /\ s = Job(User(HomeOf(s.key)))'
  <2> DEFINE n == HomeOf(s.key)
  <2>1. s.key \in Keys /\ n \in Nodes /\ Level(s) \in 1..Gone
    BY Levels
  <2>2. CASE Level(s) <= held[n][s.key]
    BY <1>3, <1>4, <2>1, <2>2
  <2>3. CASE Pending(n) /\ s = Job(User(n)) /\ t # User(n)
    BY <1>2, <2>1, <2>3 DEF Pending
  <2>4. CASE Pending(n) /\ s = Job(User(n)) /\ t = User(n)
    <3>1. Role(t) = "user" /\ Node(t) = n
      BY <2>1, <2>4, UserParts
    <3>2. pc'[User(n)] \in {"upsert", "bury", "announce"}
      BY <1>1, <2>4, <3>1, StepUsers
    <3>3. SecondLife'
      BY StepSecond
    <3>4. Level(Job(User(n))') <= held'[n][Job(User(n))'.key]
      BY <1>2, <2>1, <3>2, <3>3 DEF SecondLife
    <3> QED
      BY <1>2, <2>1, <2>4, <3>4
  <2> QED
    BY <1>1, <2>2, <2>3, <2>4 DEF FirstLife
<1>6. ASSUME NEW x \in Threads, Role(x) # "user", pc'[x] \in {"persist", "upsert"}
      PROVE  HomeOf(Job(x)'.key) # Node(x)
  <2>1. CASE x = t
    <3>1. jobs' = jobs
      BY <1>6, <2>1, HandlePageFacts, PersistFacts, UpsertFacts, ApplyDeleteFacts, BuryFacts DEF Step
    <3>2. Job(x)' = Job(x)
      BY <3>1 DEF Job
    <3> QED
      BY <1>6, <2>1, <3>2, OnlyTheUser
  <2>2. CASE x # t
    <3>1. pc'[x] = pc[x] /\ Job(x)' = Job(x)
      BY <1>2, <2>2 DEF GoesOn, Job
    <3> QED
      BY <1>1, <1>6, <3>1 DEF FirstLife
  <2> QED
    BY <2>1, <2>2
<1>7. ASSUME NEW k \in Keys
      PROVE  \/ held'[HomeOf(k)][k] <= stored'[HomeOf(k)][k]
             \/ /\ pc'[User(HomeOf(k))] \in {"upsert", "bury"}
                /\ Job(User(HomeOf(k)))'.key = k
  <2> DEFINE n == HomeOf(k)
  <2>1. n \in Nodes
    BY UserParts
  <2>2. CASE held'[n][k] # held[n][k]
    BY <1>2, <2>1, <2>2, MovedByUser
  <2>3. CASE held'[n][k] = held[n][k]
    <3>1. CASE Bury(t) /\ n = Node(t) /\ Job(t).key = k
      BY <1>3, <1>4, <2>1, <3>1, StoredGrows
    <3>2. CASE Upsert(t) /\ n = Node(t) /\ Job(t).key = k
      BY <2>3, <3>2, StoredGrows
    <3>3. CASE ~(n = Node(t) /\ Job(t).key = k)
      <4>1. stored'[n][k] = stored[n][k]
        BY <3>3, StoredGrows
      <4>2. CASE held[n][k] <= stored[n][k]
        BY <2>3, <4>1, <4>2
      <4>3. CASE pc[User(n)] \in {"upsert", "bury"} /\ Job(User(n)).key = k
        <5>1. t # User(n)
          BY <2>1, <3>3, <4>3, UserParts
        <5> QED
          BY <1>2, <2>1, <4>3, <5>1
      <4> QED
        BY <1>1, <4>2, <4>3 DEF FirstLife
    <3>4. CASE ~Bury(t) /\ ~Upsert(t)
      <4>1. stored'[n][k] = stored[n][k]
        BY <3>4, StoredGrows
      <4>2. CASE held[n][k] <= stored[n][k]
        BY <2>3, <4>1, <4>2
      <4>3. CASE pc[User(n)] \in {"upsert", "bury"} /\ Job(User(n)).key = k
        <5>1. t # User(n)
          BY <3>4, <4>3, HandlePageFacts, PersistFacts, ApplyDeleteFacts DEF Step
        <5> QED
          BY <1>2, <2>1, <4>3, <5>1
      <4> QED
        BY <1>1, <4>2, <4>3 DEF FirstLife
    <3> QED
      BY <3>1, <3>2, <3>3, <3>4
  <2> QED
    BY <2>2, <2>3
<1>8. ASSUME NEW n \in Nodes, pc'[User(n)] = "upsert"
      PROVE  held'[n][Job(User(n))'.key] <= Job(User(n))'.at
  <2> DEFINE m == Job(User(n))
  <2>1. m' = m
    BY <1>2
  <2>2. pc[User(n)] \notin {"idle", "asked"} /\ HomeOf(m.key) = n
    BY <1>1, <1>2, <1>8, StepUsers DEF UsersAtHome
  <2>3. m \in signed /\ m.key \in Keys /\ m.at \in 1..MaxTime
    BY <2>2, JobSigned, UserParts, Levels
  <2>4. CASE held'[n][m.key] # held[n][m.key]
    <3>1. t = User(n) /\ held'[n][m.key] = Level(m) /\ (Persist(t) \/ pc'[t] = "bury")
      BY <2>2, <2>3, <2>4, MovedByUser
    <3>2. m.type = "page" /\ Level(m) = m.at
      BY <1>8, <2>3, <3>1, PersistFacts, Levels
    <3> QED
      BY <2>1, <2>3, <3>1, <3>2
  <2>5. CASE held'[n][m.key] = held[n][m.key]
    <3>1. CASE t = User(n)
      <4>1. Persist(t) /\ held[n][m.key] < m.at
        BY <1>8, <3>1, UserParts, HandlePageFacts, PersistFacts, UpsertFacts, ApplyDeleteFacts,
           BuryFacts, StepUsers, <1>1 DEF Step, UsersAtHome
      <4>2. held[n][m.key] \in 0..Gone
        BY <1>3, <2>3
      <4> QED
        BY <1>4, <2>1, <2>3, <2>5, <4>1, <4>2
    <3>2. CASE t # User(n)
      <4>1. pc[User(n)] = "upsert"
        BY <1>2, <1>8, <3>2
      <4>2. held[n][m.key] <= m.at
        BY <1>1, <4>1 DEF FirstLife
      <4> QED
        BY <2>1, <2>5, <4>2
    <3> QED
      BY <3>1, <3>2
  <2> QED
    BY <2>4, <2>5
<1>9. ASSUME NEW m \in net
      PROVE  Level(m) <= stored'[HomeOf(m.key)][m.key]
  <2> DEFINE n == HomeOf(m.key)
             k == m.key
  <2>1. m \in signed /\ k \in Keys /\ n \in Nodes /\ Level(m) \in 1..Gone
    BY <1>9, Levels DEF SiteInv, Types
  <2>2. Level(m) <= stored[n][k] /\ Level(m) <= held[n][k]
    <3>1. Level(m) <= held[n][k]
      BY <1>9 DEF KeptInv, SecondLife
    <3> QED
      BY <1>1, <1>9, <3>1 DEF FirstLife
  <2>3. CASE stored'[n][k] = stored[n][k]
    BY <2>2, <2>3
  <2>4. CASE stored'[n][k] # stored[n][k]
    <3>1. n = Node(t) /\ Job(t).key = k /\ (Bury(t) \/ Upsert(t))
      BY <2>1, <2>4, StoredGrows
    <3>2. stored'[n][k] = Gone \/ held[n][k] <= stored'[n][k]
      BY <2>1, <3>1, StoredGrows
    <3>3. held[n][k] \in 0..Gone /\ stored'[n][k] \in 0..Gone
      BY <1>3, <2>1
    <3> QED
      BY <1>4, <2>1, <2>2, <3>2, <3>3
  <2> QED
    BY <2>3, <2>4
<1> QED
  BY <1>5, <1>6, <1>7, <1>8, <1>9

LEMMA StepKept ==
    ASSUME SiteInv, KeptInv, NEW t \in Threads, Step(t)
    PROVE  KeptInv'
BY StepAtHome, StepPrivate, StepBuried, StepFirst, StepSecond DEF KeptInv

\* Whatever leaves the users, the topic, the copies and the rows alone, and gives
\* other threads nothing but what the topic or a node has, keeps the invariant.
LEMMA QuietKept ==
    ASSUME SiteInv, SiteInv', KeptInv,
           UNCHANGED <<net, time, signed, restarts, page, grave, pageRow, graveRow>>,
           NEW t \in Threads, Role(t) # "user",
           \A x \in Threads : x # t => pc'[x] = pc[x] /\ jobs'[x] = jobs[x],
           pc'[t] \in {"idle", "asked", "handle"} \/ pc'[t] = pc[t],
           pc'[t] = pc[t] => jobs'[t] = jobs[t],
           \A i \in DOMAIN jobs'[t] : \/ jobs'[t][i] \in net \cup Copies
                                      \/ \E j \in DOMAIN jobs[t] : jobs'[t][i] = jobs[t][j]
    PROVE  KeptInv'
<1>1. \A n \in Nodes : pc'[User(n)] = pc[User(n)] /\ jobs'[User(n)] = jobs[User(n)]
                       /\ Job(User(n))' = Job(User(n))
  BY UserParts DEF Job
<1>2. \A n \in Nodes : Pending(n)' = Pending(n)
  BY <1>1 DEF Pending
<1>3. held' = held /\ stored' = stored
  BY DEF held, stored
<1>4. UsersAtHome'
  <2>1. UsersAtHome
    BY DEF KeptInv
  <2> QED
    BY <1>1, <2>1 DEF UsersAtHome, HomeOf
<1>5. \A x \in Threads : pc'[x] \in {"persist", "upsert", "bury"} => pc'[x] = pc[x] /\ Job(x)' = Job(x)
  BY DEF Job
<1>6. Private'
  <2> SUFFICES ASSUME NEW n \in Nodes, Pending(n)
               PROVE  /\ Unseen(Job(User(n)), n)'
                      /\ \A s \in signed : s.key = Job(User(n))'.key
                           => s = Job(User(n))' \/ s.at < Job(User(n))'.at
    BY <1>2 DEF KeptInv, Private
  <2> DEFINE m == Job(User(n))
  <2>1. m' = m /\ m \in signed /\ m \in Items /\ m.key \in Keys /\ m.at \in 1..MaxTime
    BY <1>1, JobSigned, UserParts DEF Pending
  <2>2. Unseen(m, n) /\ \A s \in signed : s.key = m.key => s = m \/ s.at < m.at
    BY DEF KeptInv, Private
  <2>3. m \notin net \cup Copies
    BY <2>1, <2>2 DEF Unseen, Copies, Page, Delete
  <2>4. \A x \in Threads : x # User(n) => \A i \in DOMAIN jobs'[x] : jobs'[x][i] # m
    <3> HIDE DEF m
    <3> SUFFICES ASSUME NEW i \in DOMAIN jobs'[t], t # User(n) PROVE jobs'[t][i] # m
      BY <2>2 DEF Unseen
    <3> QED
      BY <2>2, <2>3 DEF Unseen
  <2>5. Unseen(m, n)'
    BY <2>1, <2>2, <2>4 DEF Unseen
  <2> QED
    BY <2>1, <2>2, <2>5
<1>7. BuriedKept'
  <2>1. BuriedKept
    BY DEF KeptInv
  <2> QED
    BY <1>1, <1>5, <2>1 DEF BuriedKept, HomeOf
<1>8. FirstLife'
  <2>1. FirstLife
    BY DEF KeptInv
  <2> SUFFICES ASSUME restarts = 0 PROVE FirstLife'
    BY DEF FirstLife
  <2>2. \A x \in Threads : Role(x) # "user" /\ pc'[x] \in {"persist", "upsert"}
                           => HomeOf(Job(x)'.key) # Node(x)
    BY <1>5, <2>1 DEF FirstLife
  <2>3. \A s \in signed :
             \/ Level(s) <= held[HomeOf(s.key)][s.key]
             \/ Pending(HomeOf(s.key))' /\ s = Job(User(HomeOf(s.key)))'
    <3>1. \A s \in signed : HomeOf(s.key) \in Nodes
      BY Levels
    <3> QED
      BY <1>1, <1>2, <2>1, <3>1 DEF FirstLife
  <2>4. \A k \in Keys :
             \/ held[HomeOf(k)][k] <= stored[HomeOf(k)][k]
             \/ /\ pc'[User(HomeOf(k))] \in {"upsert", "bury"}
                /\ Job(User(HomeOf(k)))'.key = k
    BY <1>1, <2>1, UserParts DEF FirstLife
  <2>5. /\ \A n \in Nodes : pc'[User(n)] = "upsert" => held[n][Job(User(n))'.key] <= Job(User(n))'.at
        /\ \A m \in net : Level(m) <= stored[HomeOf(m.key)][m.key]
    BY <1>1, <2>1 DEF FirstLife
  <2> QED
    BY <1>3, <2>2, <2>3, <2>4, <2>5 DEF FirstLife, HomeOf, Level, Node, Role
<1>9. SecondLife'
  <2>1. SecondLife
    BY DEF KeptInv
  <2> QED
    BY <1>1, <1>3, <2>1 DEF SecondLife, HomeOf, Level
<1> QED
  BY <1>4, <1>6, <1>7, <1>8, <1>9 DEF KeptInv

\* Deliveries, syncs and the passing of time.
LEMMA OthersKept ==
    ASSUME SiteInv, KeptInv, NEW n \in Nodes,
           \/ \E m \in net : Deliver(n, m)
           \/ SyncAnswer(n) \/ SyncFail(n) \/ TimePasses(n)
           \/ \E p \in Nodes : SyncAsk(n, p)
    PROVE  KeptInv'
<1>1. SiteInv'
  BY DeliverInv, SyncAnswerInv, SyncFailInv, TimePassesInv, SyncAskInv
<1>2. UNCHANGED <<net, time, signed, restarts, page, grave, pageRow, graveRow>>
  BY DEF Deliver, SyncAnswer, SyncFail, TimePasses, SyncAsk, netVars, mapVars, rowVars
<1>3. /\ <<n, "gossip">> \in Threads /\ Role(<<n, "gossip">>) # "user"
      /\ <<n, "sync">> \in Threads /\ Role(<<n, "sync">>) # "user"
  BY ThreadParts DEF Role, Roles
<1>4. pc \in [Threads -> Places] /\ jobs \in [Threads -> Seq(Items)]
  BY DEF SiteInv, Threading
<1>5. CASE \E m \in net : Deliver(n, m)
  <2> DEFINE t == <<n, "gossip">>
  <2>1. PICK m \in net : Deliver(n, m)
    BY <1>5
  <2>2. pc[t] = "idle" /\ jobs' = [jobs EXCEPT ![t] = <<m>>] /\ pc' = [pc EXCEPT ![t] = "handle"]
    BY <2>1 DEF Deliver, Goto
  <2>3. \A i \in DOMAIN <<m>> : <<m>>[i] = m
    OBVIOUS
  <2>4. /\ \A x \in Threads : x # t => pc'[x] = pc[x] /\ jobs'[x] = jobs[x]
        /\ pc'[t] = "handle" /\ pc'[t] # pc[t] /\ jobs'[t] = <<m>>
    BY <1>3, <1>4, <2>2
  <2>5. \A i \in DOMAIN jobs'[t] : jobs'[t][i] \in net \cup Copies
    BY <2>3, <2>4
  <2> QED
    BY <1>1, <1>2, <1>3, <2>4, <2>5, QuietKept
<1>6. CASE SyncAnswer(n)
  <2> DEFINE t == <<n, "sync">>
  <2>1. PICK w \in Seq(Items) :
            /\ jobs' = [jobs EXCEPT ![t] = w]
            /\ Goto(t, IF w = <<>> THEN "idle" ELSE "handle")
            /\ \A i \in DOMAIN w : w[i] \in Copies
    BY <1>6, SyncAnswerWork
  <2>2. pc[t] = "asked"
    BY <1>6 DEF SyncAnswer
  <2>3. /\ \A x \in Threads : x # t => pc'[x] = pc[x] /\ jobs'[x] = jobs[x]
        /\ pc'[t] \in {"idle", "handle"} /\ pc'[t] # pc[t] /\ jobs'[t] = w
    BY <1>3, <1>4, <2>1, <2>2 DEF Goto
  <2>4. \A i \in DOMAIN jobs'[t] : jobs'[t][i] \in net \cup Copies
    BY <2>1, <2>3
  <2> QED
    BY <1>1, <1>2, <1>3, <2>3, <2>4, QuietKept
<1>7. CASE SyncFail(n) \/ \E p \in Nodes : SyncAsk(n, p)
  <2> DEFINE t == <<n, "sync">>
  <2>1. /\ jobs' = jobs
        /\ \/ pc[t] = "asked" /\ pc' = [pc EXCEPT ![t] = "idle"]
           \/ pc[t] = "idle" /\ pc' = [pc EXCEPT ![t] = "asked"]
    BY <1>7 DEF SyncFail, SyncAsk, Goto
  <2>2. /\ \A x \in Threads : x # t => pc'[x] = pc[x] /\ jobs'[x] = jobs[x]
        /\ pc'[t] \in {"idle", "asked"} /\ jobs'[t] = jobs[t]
    BY <1>3, <1>4, <2>1
  <2> QED
    BY <1>1, <1>2, <1>3, <2>2, QuietKept
<1>8. CASE TimePasses(n)
  <2>1. pc' = pc /\ jobs' = jobs
    BY <1>8 DEF TimePasses
  <2> QED
    BY <1>1, <1>2, <1>3, <2>1, QuietKept
<1> QED
  BY <1>5, <1>6, <1>7, <1>8

\* The user signs a page or its deletion: nobody has that, nothing else changes.
LEMMA BeginKept ==
    ASSUME SiteInv, KeptInv, NEW k \in Keys, NEW m \in {Page(k, time + 1), Delete(k, time + 1)},
           Begin(User(HomeOf(k)), m, IF m.type = "page" THEN "persist" ELSE "handle")
    PROVE  KeptInv'
<1> DEFINE n == HomeOf(k)
           t == User(n)
           place == IF m.type = "page" THEN "persist" ELSE "handle"
<1>1. /\ n \in Nodes /\ t \in Threads /\ Node(t) = n /\ Role(t) = "user"
      /\ pc \in [Threads -> Places] /\ jobs \in [Threads -> Seq(Items)]
  BY UserParts DEF SiteInv, Threading
<1>2. /\ pc[t] = "idle" /\ time' = time + 1 /\ signed' = signed \cup {m}
      /\ jobs' = [jobs EXCEPT ![t] = <<m>>] /\ pc' = [pc EXCEPT ![t] = place]
      /\ UNCHANGED <<net, restarts, page, grave, pageRow, graveRow>>
      /\ time \in Nat /\ time + 1 \in 1..MaxTime
  BY SiteAssumption DEF Begin, Goto, mapVars, rowVars, SiteInv, Types
<1>3. /\ m.key = k /\ m.at = time + 1 /\ m.type \in {"page", "delete"} /\ m \in Items
  BY <1>2 DEF Page, Delete, Items
<1>4. /\ \A x \in Threads : x # t => pc'[x] = pc[x] /\ jobs'[x] = jobs[x] /\ Job(x)' = Job(x)
      /\ pc'[t] = place /\ jobs'[t] = <<m>> /\ Job(t)' = m
      /\ \A i \in DOMAIN <<m>> : <<m>>[i] = m
  BY <1>1, <1>2, <1>3 DEF Job
<1>5. \A s \in signed : s.at <= time /\ s # m /\ s.at \in 1..MaxTime
  BY <1>2, <1>3, Levels DEF KeptInv, Private
<1>6. held' = held /\ stored' = stored
  BY <1>2 DEF held, stored
<1>7. \A x \in Nodes : x # n => /\ User(x) # t /\ pc'[User(x)] = pc[User(x)] /\ Job(User(x))' = Job(User(x))
  BY <1>1, <1>4, UserParts
<1>8. UsersAtHome'
  <2> SUFFICES ASSUME NEW x \in Nodes
               PROVE  /\ pc'[User(x)] \notin {"idle", "asked"} => HomeOf(Job(User(x))'.key) = x
                      /\ pc'[User(x)] = "handle" => Job(User(x))'.type = "delete"
    BY DEF UsersAtHome, HomeOf
  <2>1. CASE x = n
    BY <1>3, <1>4, <2>1
  <2>2. CASE x # n
    BY <1>7, <2>2 DEF KeptInv, UsersAtHome
  <2> QED
    BY <2>1, <2>2
<1>9. Private'
  <2>1. \A s \in signed' : s.at <= time'
    BY <1>2, <1>3, <1>5
  <2>2. ASSUME NEW x \in Nodes, Pending(x)'
        PROVE  /\ Unseen(Job(User(x)), x)'
               /\ \A s \in signed' : s.key = Job(User(x))'.key
                    => s = Job(User(x))' \/ s.at < Job(User(x))'.at
    <3>1. CASE x = n
      <4>1. m \notin net
        BY <1>5 DEF SiteInv, Types
      <4>2. \A y \in Threads : y # t => \A i \in DOMAIN jobs[y] : jobs[y][i] # m
        BY <1>5 DEF SiteInv, Threading
      <4>3. \A p \in Nodes :
              /\ page[p][k] # m.at /\ pageRow[p][k] # m.at
              /\ grave[p][k] # m.at /\ graveRow[p][k] # m.at
        <5>1. \A v : Page(k, v).at = v /\ Delete(k, v).at = v
          BY DEF Page, Delete
        <5> QED
          BY <1>2, <1>3, <1>5, <5>1 DEF SiteInv, Authentic
      <4>4. \A s \in signed' : s = m \/ s.at < m.at
        BY <1>2, <1>3, <1>5
      <4> QED
        BY <1>2, <1>3, <1>4, <3>1, <4>1, <4>2, <4>3, <4>4 DEF Unseen
    <3>2. CASE x # n
      <4> DEFINE c == Job(User(x))
      <4>1. Pending(x) /\ c' = c
        BY <1>7, <2>2, <3>2 DEF Pending
      <4>2. c \in signed /\ HomeOf(c.key) = x
        BY <4>1, JobSigned, UserParts DEF Pending, KeptInv, UsersAtHome
      <4>3. Unseen(c, x) /\ \A s \in signed : s.key = c.key => s = c \/ s.at < c.at
        BY <4>1 DEF KeptInv, Private
      <4>4. c # m /\ c.key # m.key
        BY <1>3, <1>5, <3>2, <4>2
      <4> HIDE DEF c
      <4>5. \A y \in Threads : y # User(x) => \A i \in DOMAIN jobs'[y] : jobs'[y][i] # c
        BY <1>4, <4>3, <4>4 DEF Unseen
      <4>6. Unseen(c, x)'
        BY <1>2, <4>1, <4>3, <4>5 DEF Unseen
      <4> QED
        BY <1>2, <4>1, <4>3, <4>4, <4>6 DEF c
    <3> QED
      BY <3>1, <3>2
  <2> QED
    BY <2>1, <2>2 DEF Private
<1>10. BuriedKept'
  <2>1. BuriedKept
    BY DEF KeptInv
  <2>2. \A x \in Threads : pc'[x] = "bury" => pc[x] = "bury" /\ Job(x)' = Job(x)
    BY <1>4
  <2>3. \A x \in Nodes : pc'[User(x)] = "announce" => pc[User(x)] = "announce" /\ Job(User(x))' = Job(User(x))
    BY <1>4, UserParts
  <2> QED
    BY <1>2, <2>1, <2>2, <2>3 DEF BuriedKept, HomeOf
<1>11. FirstLife'
  <2>1. FirstLife
    BY DEF KeptInv
  <2> SUFFICES ASSUME restarts = 0 PROVE FirstLife'
    BY <1>2 DEF FirstLife
  <2>2. \A x \in Threads : Role(x) # "user" /\ pc'[x] \in {"persist", "upsert"}
                           => HomeOf(Job(x)'.key) # Node(x)
    BY <1>1, <1>4, <2>1 DEF FirstLife
  <2>3. ASSUME NEW s \in signed'
        PROVE  \/ Level(s) <= held[HomeOf(s.key)][s.key]
               \/ Pending(HomeOf(s.key))' /\ s = Job(User(HomeOf(s.key)))'
    <3>1. CASE s = m
      BY <1>3, <1>4, <3>1 DEF Pending
    <3>2. CASE s \in signed
      <4>1. HomeOf(s.key) \in Nodes
        BY <3>2, Levels
      <4>2. Pending(HomeOf(s.key)) => HomeOf(s.key) # n
        BY <1>2 DEF Pending
      <4> QED
        BY <1>7, <2>1, <3>2, <4>1, <4>2 DEF FirstLife, Pending
    <3> QED
      BY <1>2, <3>1, <3>2
  <2>4. ASSUME NEW l \in Keys
        PROVE  \/ held[HomeOf(l)][l] <= stored[HomeOf(l)][l]
               \/ /\ pc'[User(HomeOf(l))] \in {"upsert", "bury"}
                  /\ Job(User(HomeOf(l)))'.key = l
    <3>1. HomeOf(l) \in Nodes
      BY UserParts
    <3> QED
      BY <1>2, <1>7, <2>1, <3>1 DEF FirstLife
  <2>5. \A x \in Nodes : pc'[User(x)] = "upsert" => held[x][Job(User(x))'.key] <= Job(User(x))'.at
    <3>1. \A x \in Nodes : pc'[User(x)] = "upsert" => pc[User(x)] = "upsert" /\ Job(User(x))' = Job(User(x))
      BY <1>4, UserParts
    <3> QED
      BY <2>1, <3>1 DEF FirstLife
  <2> QED
    BY <1>2, <1>6, <2>1, <2>2, <2>3, <2>4, <2>5 DEF FirstLife, HomeOf, Level, Node, Role
<1>12. SecondLife'
  <2>1. SecondLife
    BY DEF KeptInv
  <2>2. \A x \in Nodes : pc'[User(x)] \in {"upsert", "bury", "announce"}
           => pc[User(x)] = pc'[User(x)] /\ Job(User(x))' = Job(User(x))
    BY <1>4, UserParts
  <2> QED
    BY <1>2, <1>6, <2>1, <2>2 DEF SecondLife, HomeOf, Level
<1> QED
  BY <1>8, <1>9, <1>10, <1>11, <1>12 DEF KeptInv

LEMMA UserKept ==
    ASSUME SiteInv, KeptInv, NEW k \in Keys, Publish(k) \/ DeletePage(k)
    PROVE  KeptInv'
<1>1. Page(k, time + 1).type = "page" /\ Delete(k, time + 1).type = "delete"
  BY DEF Page, Delete
<1> QED
  BY <1>1, BeginKept DEF Publish, DeletePage, User, HomeOf

\* What goes out on the topic is held, and has its row.
LEMMA AnnounceKept ==
    ASSUME SiteInv, KeptInv, NEW n \in Nodes, Announce(n)
    PROVE  KeptInv'
<1> DEFINE t == User(n)
           m == Job(t)
<1>1. /\ t \in Threads /\ Node(t) = n /\ Role(t) = "user"
      /\ pc \in [Threads -> Places] /\ jobs \in [Threads -> Seq(Items)]
  BY UserParts DEF SiteInv, Threading
<1>2. /\ pc[t] = "announce" /\ net' = net \cup {m}
      /\ jobs' = [jobs EXCEPT ![t] = <<>>] /\ pc' = [pc EXCEPT ![t] = "idle"]
      /\ UNCHANGED <<signed, time, restarts, page, grave, pageRow, graveRow>>
  BY DEF Announce, Goto, User, mapVars, rowVars
<1>3. /\ m \in signed /\ m.key \in Keys /\ HomeOf(m.key) = n /\ Level(m) \in 1..Gone
      /\ 1 \in DOMAIN jobs[t] /\ m = jobs[t][1]
  <2>1. jobs[t] \in Seq(Items) /\ jobs[t] # <<>> /\ m \in signed
    BY <1>1, <1>2, JobSigned
  <2>2. 1 \in DOMAIN jobs[t] /\ m = jobs[t][1]
    BY <2>1 DEF Job
  <2> QED
    BY <1>2, <2>1, <2>2, Levels DEF KeptInv, UsersAtHome
<1>4. /\ \A x \in Threads : x # t => pc'[x] = pc[x] /\ jobs'[x] = jobs[x] /\ Job(x)' = Job(x)
      /\ pc'[t] = "idle" /\ jobs'[t] = <<>> /\ DOMAIN <<>> = {}
  BY <1>1, <1>2 DEF Job
<1>5. held' = held /\ stored' = stored
  BY <1>2 DEF held, stored
<1>6. \A x \in Nodes : pc'[User(x)] # "idle" =>
         x # n /\ User(x) # t /\ pc'[User(x)] = pc[User(x)] /\ Job(User(x))' = Job(User(x))
  BY <1>1, <1>4, UserParts
<1>7. UsersAtHome'
  BY <1>6 DEF KeptInv, UsersAtHome, HomeOf
<1>8. Private'
  <2> SUFFICES ASSUME NEW x \in Nodes, Pending(x)'
               PROVE  /\ Unseen(Job(User(x)), x)'
                      /\ \A s \in signed : s.key = Job(User(x))'.key
                           => s = Job(User(x))' \/ s.at < Job(User(x))'.at
    BY <1>2 DEF KeptInv, Private
  <2> DEFINE c == Job(User(x))
  <2>1. Pending(x) /\ c' = c /\ t # User(x)
    BY <1>6 DEF Pending
  <2>2. Unseen(c, x) /\ \A s \in signed : s.key = c.key => s = c \/ s.at < c.at
    BY <2>1 DEF KeptInv, Private
  <2> HIDE DEF c
  <2>3. m # c
    BY <1>1, <1>3, <2>1, <2>2 DEF Unseen
  <2>4. \A y \in Threads : y # User(x) => \A i \in DOMAIN jobs'[y] : jobs'[y][i] # c
    BY <1>4, <2>2 DEF Unseen
  <2>5. Unseen(c, x)'
    BY <1>2, <2>1, <2>2, <2>3, <2>4 DEF Unseen
  <2> QED
    BY <2>1, <2>2, <2>5 DEF c
<1>9. BuriedKept'
  <2>1. BuriedKept
    BY DEF KeptInv
  <2>2. m.type = "delete" => graveRow[n][m.key] # 0
    BY <1>2, <2>1 DEF BuriedKept
  <2>3. \A x \in Threads : pc'[x] = "bury" => pc[x] = "bury" /\ Job(x)' = Job(x)
    BY <1>4
  <2>4. \A y \in net' : y.type = "delete" => graveRow[HomeOf(y.key)][y.key] # 0
    BY <1>2, <1>3, <2>1, <2>2 DEF BuriedKept
  <2> QED
    BY <1>2, <1>6, <2>1, <2>3, <2>4 DEF BuriedKept, HomeOf
<1>10. FirstLife'
  <2>1. FirstLife /\ SecondLife
    BY DEF KeptInv
  <2> SUFFICES ASSUME restarts = 0 PROVE FirstLife'
    BY <1>2 DEF FirstLife
  <2>2. \A x \in Threads : Role(x) # "user" /\ pc'[x] \in {"persist", "upsert"}
                           => HomeOf(Job(x)'.key) # Node(x)
    BY <1>1, <1>4, <2>1 DEF FirstLife
  <2>3. ASSUME NEW s \in signed
        PROVE  \/ Level(s) <= held[HomeOf(s.key)][s.key]
               \/ Pending(HomeOf(s.key))' /\ s = Job(User(HomeOf(s.key)))'
    <3>1. HomeOf(s.key) \in Nodes
      BY Levels
    <3>2. Pending(HomeOf(s.key)) => HomeOf(s.key) # n
      BY <1>2 DEF Pending
    <3>3. \A x \in Nodes : x # n => pc'[User(x)] = pc[User(x)] /\ Job(User(x))' = Job(User(x))
      BY <1>1, <1>4, UserParts
    <3> QED
      BY <2>1, <3>1, <3>2, <3>3 DEF FirstLife, Pending
  <2>4. ASSUME NEW l \in Keys
        PROVE  \/ held[HomeOf(l)][l] <= stored[HomeOf(l)][l]
               \/ /\ pc'[User(HomeOf(l))] \in {"upsert", "bury"}
                  /\ Job(User(HomeOf(l)))'.key = l
    <3>1. HomeOf(l) \in Nodes
      BY UserParts
    <3>2. \A x \in Nodes : x # n => pc'[User(x)] = pc[User(x)] /\ Job(User(x))' = Job(User(x))
      BY <1>1, <1>4, UserParts
    <3> QED
      BY <1>2, <2>1, <3>1, <3>2 DEF FirstLife
  <2>5. \A x \in Nodes : pc'[User(x)] = "upsert" => held[x][Job(User(x))'.key] <= Job(User(x))'.at
    BY <1>6, <2>1 DEF FirstLife
  <2>6. Level(m) <= stored[n][m.key]
    <3>1. Level(m) <= held[n][m.key]
      BY <1>2, <2>1 DEF SecondLife
    <3>2. held[n][m.key] <= stored[n][m.key]
      BY <1>2, <1>3, <2>1 DEF FirstLife
    <3> QED
      BY <1>1, <1>3, <3>1, <3>2, Levels, UserParts
  <2>7. \A y \in net' : Level(y) <= stored[HomeOf(y.key)][y.key]
    BY <1>2, <1>3, <2>1, <2>6 DEF FirstLife
  <2> QED
    BY <1>2, <1>5, <2>2, <2>3, <2>4, <2>5, <2>7 DEF FirstLife, HomeOf, Level, Node, Role
<1>11. SecondLife'
  <2>1. SecondLife
    BY DEF KeptInv
  <2> SUFFICES ASSUME restarts <= 1 PROVE SecondLife'
    BY <1>2 DEF SecondLife
  <2>2. Level(m) <= held[n][m.key]
    BY <1>2, <2>1 DEF SecondLife
  <2>3. \A y \in net' : Level(y) <= held[HomeOf(y.key)][y.key]
    BY <1>2, <1>3, <2>1, <2>2 DEF SecondLife
  <2> QED
    BY <1>2, <1>5, <1>6, <2>1, <2>3 DEF SecondLife, HomeOf, Level
<1> QED
  BY <1>7, <1>8, <1>9, <1>10, <1>11 DEF KeptInv

\* A restart takes the copies back to the rows.
LEMMA RestartKept ==
    ASSUME SiteInv, KeptInv, NEW n \in Nodes, Restart(n)
    PROVE  KeptInv'
<1>1. /\ restarts' = restarts + 1 /\ UNCHANGED <<net, signed, time, pageRow, graveRow>>
      /\ restarts \in Nat
      /\ \A x \in Threads : /\ Node(x) = n => pc'[x] = "idle" /\ jobs'[x] = <<>>
                            /\ Node(x) # n => pc'[x] = pc[x] /\ jobs'[x] = jobs[x] /\ Job(x)' = Job(x)
  BY SiteAssumption DEF Restart, netVars, rowVars, Job, SiteInv, Types
<1>2. \A p \in Nodes : /\ page'[p] = IF p = n THEN pageRow[n] ELSE page[p]
                       /\ grave'[p] = IF p = n THEN graveRow[n] ELSE grave[p]
  BY DEF Restart, SiteInv, Types, Versions
<1>3. \A p \in Nodes, k \in Keys : held'[p][k] = IF p = n THEN stored[p][k] ELSE held[p][k]
  <2>1. \A p \in Nodes, k \in Keys : held'[p][k] = (IF grave'[p][k] # 0 THEN Gone ELSE page'[p][k])
    BY DEF held, Gone
  <2> QED
    BY <1>2, <2>1, Levels
<1>4. \A x \in Nodes : pc'[User(x)] # "idle" =>
         x # n /\ pc'[User(x)] = pc[User(x)] /\ Job(User(x))' = Job(User(x))
  BY <1>1, UserParts
<1>5. UsersAtHome'
  BY <1>4 DEF KeptInv, UsersAtHome, HomeOf
<1>6. Private'
  <2> SUFFICES ASSUME NEW x \in Nodes, Pending(x)'
               PROVE  /\ Unseen(Job(User(x)), x)'
                      /\ \A s \in signed : s.key = Job(User(x))'.key
                           => s = Job(User(x))' \/ s.at < Job(User(x))'.at
    BY <1>1 DEF KeptInv, Private
  <2> DEFINE c == Job(User(x))
  <2>1. Pending(x) /\ c' = c
    BY <1>4 DEF Pending
  <2>2. Unseen(c, x) /\ \A s \in signed : s.key = c.key => s = c \/ s.at < c.at
    BY <2>1 DEF KeptInv, Private
  <2> HIDE DEF c
  <2>3. DOMAIN <<>> = {}
    OBVIOUS
  <2>4. \A y \in Threads : y # User(x) => \A i \in DOMAIN jobs'[y] : jobs'[y][i] # c
    BY <1>1, <2>2, <2>3 DEF Unseen
  <2>5. \A p \in Nodes :
          /\ c.type = "page" => page'[p][c.key] # c.at /\ pageRow'[p][c.key] # c.at
          /\ c.type = "delete" => grave'[p][c.key] # c.at /\ graveRow'[p][c.key] # c.at
    BY <1>1, <1>2, <2>2 DEF Unseen
  <2>6. Unseen(c, x)'
    BY <1>1, <2>1, <2>2, <2>4, <2>5 DEF Unseen
  <2> QED
    BY <2>1, <2>2, <2>6 DEF c
<1>7. BuriedKept'
  <2>1. BuriedKept
    BY DEF KeptInv
  <2>2. \A p \in Nodes, k \in Keys : graveRow'[p][k] # 0 => grave'[p][k] # 0
    BY <1>1, <1>2, <2>1 DEF BuriedKept
  <2>3. ASSUME NEW x \in Threads, pc'[x] = "bury"
        PROVE  grave'[Node(x)][Job(x)'.key] # 0
    <3>1. Node(x) # n /\ pc[x] = "bury" /\ Job(x)' = Job(x) /\ Node(x) \in Nodes
      BY <1>1, <2>3, ThreadParts
    <3> QED
      BY <1>2, <2>1, <3>1 DEF BuriedKept
  <2> QED
    BY <1>1, <1>4, <2>1, <2>2, <2>3 DEF BuriedKept, HomeOf, Node
<1>8. FirstLife'
  BY <1>1 DEF FirstLife
<1>9. SecondLife'
  <2> SUFFICES ASSUME restarts = 0 PROVE SecondLife'
    BY <1>1 DEF SecondLife
  <2>1. FirstLife /\ SecondLife
    BY DEF KeptInv
  <2>2. ASSUME NEW m \in net
        PROVE  Level(m) <= held'[HomeOf(m.key)][m.key]
    <3>1. m \in signed /\ m.key \in Keys /\ HomeOf(m.key) \in Nodes
      BY <2>2, Levels DEF SiteInv, Types
    <3> QED
      BY <1>3, <2>1, <2>2, <3>1 DEF FirstLife, SecondLife
  <2>3. ASSUME NEW x \in Nodes, pc'[User(x)] \in {"upsert", "bury", "announce"}
        PROVE  Level(Job(User(x))') <= held'[x][Job(User(x))'.key]
    <3>1. x # n /\ pc'[User(x)] = pc[User(x)] /\ Job(User(x))' = Job(User(x))
      BY <1>4, <2>3
    <3>2. Job(User(x)).key \in Keys
      BY <2>3, <3>1, JobSigned, UserParts
    <3> QED
      BY <1>3, <2>1, <2>3, <3>1, <3>2 DEF SecondLife
  <2> QED
    BY <1>1, <2>2, <2>3 DEF SecondLife, HomeOf, Level
<1> QED
  BY <1>5, <1>6, <1>7, <1>8, <1>9 DEF KeptInv

LEMMA NextKept == SiteInv /\ KeptInv /\ [Next]_vars => KeptInv'
<1> SUFFICES ASSUME SiteInv, KeptInv, [Next]_vars PROVE KeptInv'
  OBVIOUS
<1>1. CASE \E n \in Nodes, m \in net : Deliver(n, m)
  BY <1>1, OthersKept
<1>2. CASE \E t \in Threads : Step(t)
  BY <1>2, StepKept
<1>3. CASE \E k \in Keys : Publish(k) \/ DeletePage(k)
  BY <1>3, UserKept
<1>4. CASE \E n \in Nodes : Announce(n) \/ SyncAnswer(n) \/ SyncFail(n)
  BY <1>4, AnnounceKept, OthersKept
<1>5. CASE \E n, p \in Nodes : SyncAsk(n, p)
  BY <1>5, OthersKept
<1>6. CASE \E n \in Nodes : TimePasses(n) \/ Restart(n)
  BY <1>6, OthersKept, RestartKept
<1>7. CASE UNCHANGED vars
  <2>1. UNCHANGED <<net, time, signed, restarts, page, grave, pageRow, graveRow, pc, jobs>>
    BY <1>7 DEF vars, netVars, mapVars, rowVars
  <2> QED
    BY <2>1 DEF KeptInv, UsersAtHome, Private, Unseen, Pending, BuriedKept, FirstLife, SecondLife,
       held, stored, Level, HomeOf, Job
<1> QED
  BY <1>1, <1>2, <1>3, <1>4, <1>5, <1>6, <1>7 DEF Next

\* A deletion an author has announced is never forgotten by the author's node, however
\* often nodes crash and at whatever point between memory, table and topic; an announced
\* version survives the first crash.
THEOREM AlwaysAnnouncedKept == Spec => []AnnouncedKept
<1>1. SiteInv /\ KeptInv => AnnouncedKept
  <2> SUFFICES ASSUME SiteInv, KeptInv, NEW m \in net, m.type = "delete" \/ restarts <= 1
               PROVE  held[HomeOf(m.key)][m.key] >= Level(m)
    BY DEF AnnouncedKept, HomeOf
  <2>1. m \in signed /\ m.key \in Keys /\ HomeOf(m.key) \in Nodes
    BY Levels DEF SiteInv, Types
  <2>2. CASE m.type = "delete"
    <3>1. grave[HomeOf(m.key)][m.key] # 0
      BY <2>1, <2>2 DEF KeptInv, BuriedKept
    <3> QED
      BY <2>1, <2>2, <3>1, Levels
  <2>3. CASE restarts <= 1
    <3>1. Level(m) <= held[HomeOf(m.key)][m.key]
      BY <2>3 DEF KeptInv, SecondLife
    <3> QED
      BY <2>1, <3>1, Levels
  <2> QED
    BY <2>2, <2>3
<1> QED
  BY <1>1, InitInv, NextInv, InitKept, NextKept, PTL DEF Spec
=============================================================================
