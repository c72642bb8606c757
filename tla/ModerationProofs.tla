-------------------------- MODULE ModerationProofs --------------------------
(***************************************************************************)
(* Proofs about one node's moderation, for any peers, moderators, users,   *)
(* limits and clocks: lifted bans stay lifted, the quota survives clean    *)
(* stops, the files follow the maps, a revoked certificate installs        *)
(* nothing, and one message is handled once.                               *)
(***************************************************************************)
EXTENDS Moderation, FilterProofs, SequenceTheorems

\* What a handler may still have to save, and the two loops.
Plans(t) ==
    CASE t = Cleaner -> {<<>>, <<"bans">>}
      [] t = RateSaver -> {<<>>, <<"rates">>}
      [] OTHER -> {<<>>, <<"mark", "bans", "log">>, <<"bans", "log">>, <<"log">>, <<"history">>,
                   <<"mark">>, <<"revoked">>}

Certificates == [key : Mods, at : Time, until : Nat]
Entries == [action : {"ban", "unban"}, peer : Peers, by : Keys]
Times == {s \in Seq(Time) : Len(s) <= RateLimit}
Histories == {h \in Seq(Entries) : Len(h) <= HistoryCap}
FileStates == [bans : [Peers -> BanRecords], mark : [Peers -> 0..MaxTime], revoked : [Mods -> 0..MaxTime],
               rates : [Keys -> Times], history : Histories]

\* A signed message.
Proper(m) ==
    /\ m.type \in {"ban", "unban", "revoke"} /\ m.by \in Keys /\ m.at \in Time /\ m.until \in Nat
    /\ m.type # "revoke" => m.subject \in Peers
    /\ m.type = "revoke" => m.subject \in Mods /\ m.cert = NoCert
    /\ m.cert # NoCert => m.cert.key \in Mods /\ m.by # Founder

EnvTyped ==
    /\ clock \in Time /\ scene \in Scenes /\ crashes \in Nat
    /\ certs \subseteq Certificates /\ \A m \in net : Proper(m)
    /\ acted \in [Keys -> Seq(Time)]

MemTyped ==
    /\ bans \in [Peers -> BanRecords] /\ mark \in [Peers -> 0..MaxTime]
    /\ revoked \in [Mods -> 0..MaxTime] /\ rates \in [Keys -> Times]
    /\ history \in Histories
    /\ ratesDirty \in BOOLEAN
    /\ seen \in [{"ban", "unban", "revoke"} -> Seq(net)]
    /\ \A y \in {"ban", "unban", "revoke"} : Len(seen[y]) <= SeenCap

ThreadsTyped ==
    /\ pc \in [Threads -> Places] /\ msg \in [Threads -> net \cup {NoMsg}]
    /\ \E P : todo \in [Threads -> P]
    /\ snap \in [Threads -> FileStates]

\* Where a goroutine is, what it handles and what it owes fit together, and those
\* that take no part stand still.
Fits(t, place, m, owed) ==
    /\ owed \in Plans(t)
    /\ place \in {"save", "write"} <=> owed # <<>>
    /\ place = "write" => owed # <<"log">>
    /\ place \in {"verify", "quota"} => m.type \in {"ban", "unban"}
    /\ place = "install" => m # NoMsg
    /\ place = "idle" \/ t \in {Cleaner, RateSaver} => m = NoMsg
    /\ owed \in {<<"mark", "bans", "log">>, <<"bans", "log">>, <<"log">>}
           => m.type \in {"ban", "unban"}
    /\ t \notin scene.active \cup {Handler} => place = "idle"

Placed(t) == Fits(t, pc[t], msg[t], todo[t])

ModTypes ==
    /\ EnvTyped /\ MemTyped /\ disk \in FileStates /\ ThreadsTyped
    /\ \A t \in Threads : Placed(t)

\* What the handler does not owe is in the files.
InForce(bs, c) ==
    [p \in Peers |-> IF bs[p] # NoBan /\ (bs[p].until = NoTime \/ c < bs[p].until) THEN bs[p] ELSE NoBan]
Bans(d) == InForce(d.bans, clock) = InForce(bans, clock)

Follow(owed, writes, copy, d) ==
    /\ owed \notin {<<"mark", "bans", "log">>, <<"bans", "log">>} => Bans(d)
    /\ owed \notin {<<"mark", "bans", "log">>, <<"mark">>} => d.mark = mark
    /\ owed # <<"revoked">> => d.revoked = revoked
    /\ owed # <<"history">> => d.history = history
    /\ writes /\ owed = <<"bans", "log">> => Bans(copy)
    /\ writes /\ owed \in {<<"mark", "bans", "log">>, <<"mark">>} => copy.mark = mark
    /\ writes /\ owed = <<"revoked">> => copy.revoked = revoked
    /\ writes /\ owed = <<"history">> => copy.history = history

FilesFollow == Alone => Follow(todo[Handler], pc[Handler] = "write", snap[Handler], disk)

\* No ban in force, and none on its way, is older than the unban of its peer.
NoneStale ==
    crashes = 0 /\ Alone =>
        /\ \A p \in Peers : bans[p] # NoBan => bans[p].at > mark[p]
        /\ pc[Handler] \in {"verify", "quota", "install"} /\ msg[Handler].type = "ban"
               => msg[Handler].at > mark[msg[Handler].subject]

\* A certificate that has been verified is not revoked before it is used.
Verified ==
    Unused /\ pc[Handler] \in {"quota", "install"} /\ msg[Handler].cert # NoCert
        => msg[Handler].cert.at > revoked[msg[Handler].cert.key]

\* The list r of a key's actions has every action that still counts, now or later.
Later(s, c) == Cardinality({i \in DOMAIN s : s[i] > c})
Covering(done, r, now) ==
    \A k \in Keys, c \in (-RateWindow)..MaxTime :
        c >= now - RateWindow => Later(done[k], c) <= Later(r[k], c)
Covers(r) == Covering(acted, r, clock)

\* The lists in memory do, and the file unless a save is due or under way.
QuotaKept ==
    crashes = 0 =>
        /\ Covers(rates)
        /\ ~ratesDirty /\ todo[RateSaver] = <<>> => Covers(disk.rates)
        /\ ~ratesDirty /\ pc[RateSaver] = "write" => Covers(snap[RateSaver].rates)

\* The inductive invariant.
ModInv == ModTypes /\ FilesFollow /\ NoneStale /\ Verified /\ QuotaKept

-----------------------------------------------------------------------------
(* Lists of times. *)

\* What is counted in a list of times lies within its length, and an action
\* appended counts where it is late enough.
LEMMA LaterCounts ==
    ASSUME NEW s \in Seq(Time), NEW c \in Int
    PROVE  /\ Later(s, c) \in Nat /\ Later(s, c) <= Len(s)
           /\ \A x \in Time : Later(Append(s, x), c) = Later(s, c) + (IF x > c THEN 1 ELSE 0)
<1> DEFINE J == {i \in DOMAIN s : s[i] > c}
<1>1. Len(s) \in Nat /\ J \subseteq 1..Len(s) /\ J \in SUBSET (1..Len(s))
  OBVIOUS
<1>2. IsFiniteSet(1..Len(s)) /\ Cardinality(1..Len(s)) = Len(s)
  BY <1>1, FS_Interval
<1>3. IsFiniteSet(J) /\ Cardinality(J) <= Len(s)
  BY <1>1, <1>2, FS_Subset
<1>4. Cardinality(J) \in Nat
  BY <1>3, FS_CardinalityType
<1>5. ASSUME NEW x \in Time
      PROVE  Later(Append(s, x), c) = Later(s, c) + (IF x > c THEN 1 ELSE 0)
  <2> DEFINE n == Len(s) + 1
             K == {i \in DOMAIN Append(s, x) : Append(s, x)[i] > c}
  <2>1. n \notin J /\ DOMAIN Append(s, x) = 1..n /\ Append(s, x)[n] = x
        /\ \A i \in 1..Len(s) : Append(s, x)[i] = s[i]
    BY <1>1
  <2>2. CASE x > c
    <3>1. K = J \cup {n}
      <4> HIDE DEF n
      <4>1. n = Len(s) + 1
        BY DEF n
      <4>2. K \subseteq J \cup {n}
        BY <1>1, <2>1, <4>1
      <4>3. J \cup {n} \subseteq K
        BY <1>1, <2>1, <2>2, <4>1
      <4> QED
        BY <4>2, <4>3
    <3>2. Cardinality(J \cup {n}) = Cardinality(J) + 1
      BY <1>3, <2>1, FS_AddElement
    <3> QED
      BY <2>2, <3>1, <3>2 DEF Later
  <2>3. CASE ~(x > c)
    <3>1. K = J
      <4> HIDE DEF n
      <4>1. n = Len(s) + 1
        BY DEF n
      <4>2. K \subseteq J
        <5> SUFFICES ASSUME NEW i \in K PROVE i \in J
          OBVIOUS
        <5>1. i \in 1..n /\ Append(s, x)[i] > c
          BY <2>1
        <5>2. i # n
          BY <2>1, <2>3, <5>1
        <5> QED
          BY <1>1, <2>1, <4>1, <5>1, <5>2
      <4>3. J \subseteq K
        BY <1>1, <2>1, <4>1
      <4> QED
        BY <4>2, <4>3
    <3>2. Later(Append(s, x), c) = Cardinality(K) /\ Later(s, c) = Cardinality(J)
      BY DEF Later
    <3> HIDE DEF J, K
    <3> QED
      BY <1>4, <2>3, <3>1, <3>2
  <2> QED
    BY <2>2, <2>3
<1> QED
  BY <1>3, <1>4, <1>5 DEF Later

\* Dropping what has left the window changes no count inside it.
LEMMA FreshCounts ==
    ASSUME clock \in Time, NEW s \in Seq(Time)
    PROVE  /\ Fresh(s) \in Seq(Time)
           /\ Len(Fresh(s)) = Later(s, clock - RateWindow)
           /\ \A c \in Int : c >= clock - RateWindow => Later(Fresh(s), c) = Later(s, c)
<1> DEFINE I == {i \in DOMAIN s : s[i] > clock - RateWindow}
<1>0. RateWindow \in Int /\ clock \in Int /\ \A i \in DOMAIN s : s[i] \in Int
  BY ModerationAssumption DEF Time
<1>1. I \in SUBSET (DOMAIN s) /\ Fresh(s) = AtPositions(s, I)
  BY DEF Fresh
<1> HIDE DEF I
<1>2. /\ AtPositions(s, I) \in Seq(Time) /\ Cardinality(I) \in Nat
      /\ DOMAIN AtPositions(s, I) = 1..Cardinality(I)
  BY <1>1, FilterKeeps
<1>3. Len(Fresh(s)) = Cardinality(I)
  BY <1>1, <1>2
<1>4. ASSUME NEW c \in Int, c >= clock - RateWindow PROVE Later(Fresh(s), c) = Later(s, c)
  <2> DEFINE X == {x \in Int : x > c}
             t == AtPositions(s, I)
  <2>1. Cardinality({k \in DOMAIN t : t[k] \in X}) = Cardinality({i \in I : s[i] \in X})
    <3> HIDE DEF X, t
    <3>1. LET u == AtPositions(s, I)
          IN  /\ Cardinality(Hits(u, DOMAIN u, X)) = Cardinality(Hits(s, I, X))
              /\ Cardinality(Hits(s, I, X)) \in Nat
      BY <1>1, FilterCounts, Zenon
    <3> QED
      BY <3>1, Zenon DEF t, Hits
  <2>2. {k \in DOMAIN t : t[k] \in X} = {k \in DOMAIN t : t[k] > c}
    <3>1. \A k \in DOMAIN t : t[k] \in Int
      <4> HIDE DEF t
      <4>1. t \in Seq(Time) /\ DOMAIN t = 1..Len(t)
        BY <1>2 DEF t
      <4>2. \A k \in DOMAIN t : t[k] \in Time
        BY <4>1, ElementOfSeq
      <4> QED
        BY <4>2 DEF Time
    <3> QED
      BY <3>1
  <2>3. {i \in I : s[i] \in X} = {i \in DOMAIN s : s[i] > c}
    BY <1>0, <1>4 DEF I
  <2> QED
    BY <1>1, <2>1, <2>2, <2>3 DEF Later
<1> QED
  BY <1>1, <1>2, <1>3, <1>4 DEF Later, I

-----------------------------------------------------------------------------
(* Types. *)

\* One goroutine goes to a place, with a message, files to save and a copy.
Moves(t, place, m, owed, copy) ==
    /\ pc' = [pc EXCEPT ![t] = place] /\ msg' = [msg EXCEPT ![t] = m]
    /\ todo' = [todo EXCEPT ![t] = owed] /\ snap' = [snap EXCEPT ![t] = copy]

LEMMA MoveKeeps ==
    ASSUME ModTypes, NEW t \in Threads, NEW place \in Places, NEW m \in net \cup {NoMsg}, NEW owed,
           NEW copy \in FileStates,
           Moves(t, place, m, owed, copy), Fits(t, place, m, owed), net' = net, scene' = scene
    PROVE  /\ ThreadsTyped' /\ \A u \in Threads : Placed(u)'
           /\ \A u \in Threads : /\ pc'[u] = IF u = t THEN place ELSE pc[u]
                                 /\ msg'[u] = IF u = t THEN m ELSE msg[u]
                                 /\ todo'[u] = IF u = t THEN owed ELSE todo[u]
                                 /\ snap'[u] = IF u = t THEN copy ELSE snap[u]
<1>1. /\ pc \in [Threads -> Places] /\ msg \in [Threads -> net \cup {NoMsg}]
      /\ snap \in [Threads -> FileStates] /\ \A u \in Threads : Placed(u)
  BY DEF ModTypes, ThreadsTyped
<1>2. PICK P : todo \in [Threads -> P]
  BY DEF ModTypes, ThreadsTyped
<1>3. /\ pc' \in [Threads -> Places] /\ msg' \in [Threads -> net' \cup {NoMsg}]
      /\ snap' \in [Threads -> FileStates]
  BY <1>1 DEF Moves
<1>4. todo' \in [Threads -> P \cup {owed}]
  BY <1>2 DEF Moves
<1>5. \A u \in Threads : /\ pc'[u] = IF u = t THEN place ELSE pc[u]
                         /\ msg'[u] = IF u = t THEN m ELSE msg[u]
                         /\ todo'[u] = IF u = t THEN owed ELSE todo[u]
                         /\ snap'[u] = IF u = t THEN copy ELSE snap[u]
  BY <1>1, <1>2 DEF Moves
<1>6. ASSUME NEW u \in Threads PROVE Placed(u)'
  <2>1. CASE u = t
    BY <1>5, <2>1 DEF Placed, Fits
  <2>2. CASE u # t
    <3>1. pc'[u] = pc[u] /\ msg'[u] = msg[u] /\ todo'[u] = todo[u]
      BY <1>5, <2>2
    <3> QED
      BY <1>1, <3>1 DEF Placed, Fits
  <2> QED
    BY <2>1, <2>2
<1>7. ThreadsTyped'
  <2>1. \E Q : todo' \in [Threads -> Q]
    BY <1>4
  <2> QED
    BY <1>3, <2>1 DEF ThreadsTyped
<1> QED
  BY <1>5, <1>6, <1>7

\* Nothing is at hand at the start.
LEMMA IdleFits == \A t \in Threads : Fits(t, "idle", NoMsg, <<>>)
BY DEF Fits, Plans

LEMMA EmptyDiskTyped == EmptyDisk \in FileStates /\ NoSnap \in FileStates
<1>0. /\ RateLimit \in Nat /\ HistoryCap \in Nat /\ MaxTime \in Nat
  BY ModerationAssumption
<1>1. EmptyBans \in [Peers -> BanRecords]
  BY <1>0 DEF EmptyBans, NoBan, BanRecords, NoTime, Keys
<1>2. EmptyMark \in [Peers -> 0..MaxTime] /\ EmptyRevoked \in [Mods -> 0..MaxTime]
  BY <1>0 DEF EmptyMark, EmptyRevoked, NoTime
<1>3. EmptyRates \in [Keys -> Times] /\ <<>> \in Histories
  BY <1>0 DEF EmptyRates, Times, Histories
<1> QED
  BY <1>1, <1>2, <1>3 DEF EmptyDisk, NoSnap, FileStates

LEMMA ActiveTyped ==
    ASSUME NEW bs \in [Peers -> BanRecords] PROVE ActiveBans(bs) \in [Peers -> BanRecords]
<1>1. NoBan \in BanRecords
  BY ModerationAssumption DEF NoBan, BanRecords, NoTime, Keys
<1> QED
  BY <1>1 DEF ActiveBans

LEMMA FreshTyped ==
    ASSUME clock \in Time, NEW s \in Times
    PROVE  Fresh(s) \in Times
<1>1. s \in Seq(Time) /\ Len(s) <= RateLimit /\ Len(s) \in Nat /\ RateLimit \in Nat
  BY ModerationAssumption DEF Times
<1>2. Fresh(s) \in Seq(Time) /\ Len(Fresh(s)) = Later(s, clock - RateWindow)
  BY <1>1, FreshCounts
<1>3. clock - RateWindow \in Int
  BY ModerationAssumption DEF Time
<1>4. Later(s, clock - RateWindow) \in Nat /\ Later(s, clock - RateWindow) <= Len(s)
  BY <1>1, <1>3, LaterCounts
<1>5. Len(Fresh(s)) <= RateLimit
  BY <1>1, <1>2, <1>4
<1> QED
  BY <1>2, <1>5 DEF Times

LEMMA FreshRatesTyped ==
    ASSUME clock \in Time, NEW r \in [Keys -> Times]
    PROVE  [k \in Keys |-> Fresh(r[k])] \in [Keys -> Times]
<1>1. \A k \in Keys : Fresh(r[k]) \in Times
  BY FreshTyped
<1> QED
  BY <1>1

LEMMA MemoryTyped == ModTypes => Memory \in FileStates
<1> SUFFICES ASSUME ModTypes PROVE Memory \in FileStates
  OBVIOUS
<1>1. /\ clock \in Time /\ bans \in [Peers -> BanRecords] /\ mark \in [Peers -> 0..MaxTime]
      /\ revoked \in [Mods -> 0..MaxTime] /\ rates \in [Keys -> Times] /\ history \in Histories
  BY DEF ModTypes, EnvTyped, MemTyped
<1>2. ActiveBans(bans) \in [Peers -> BanRecords]
  BY <1>1, ActiveTyped
<1>3. [k \in Keys |-> Fresh(rates[k])] \in [Keys -> Times]
  BY <1>1, FreshRatesTyped
<1> QED
  BY <1>1, <1>2, <1>3 DEF Memory, FileStates

LEMMA TypesInit == Init => ModTypes
<1> SUFFICES ASSUME Init PROVE ModTypes
  OBVIOUS
<1>0. RateLimit \in Nat /\ MaxTime \in Nat \ {0} /\ SeenCap \in Nat
  BY ModerationAssumption
<1>1. EnvTyped
  BY <1>0 DEF Init, EnvTyped, Time, Certificates
<1>2. EmptyDisk \in FileStates /\ NoSnap \in FileStates
  BY EmptyDiskTyped
<1>3. MemTyped
  <2>1. seen \in [{"ban", "unban", "revoke"} -> Seq(net)] /\ \A y \in {"ban", "unban", "revoke"} : Len(seen[y]) <= SeenCap
    BY <1>0 DEF Init, EmptySeen
  <2>2. /\ bans \in [Peers -> BanRecords] /\ mark \in [Peers -> 0..MaxTime]
        /\ revoked \in [Mods -> 0..MaxTime] /\ rates \in [Keys -> Times] /\ history \in Histories
    BY <1>2 DEF Init, EmptyDisk, FileStates
  <2> QED
    BY <2>1, <2>2 DEF Init, MemTyped
<1>4. ThreadsTyped
  <2>1. todo \in [Threads -> {<<>>}]
    BY DEF Init
  <2>2. \E P : todo \in [Threads -> P]
    BY <2>1
  <2>3. pc \in [Threads -> Places] /\ msg \in [Threads -> net \cup {NoMsg}] /\ snap \in [Threads -> FileStates]
    BY <1>2 DEF Init, Places
  <2> QED
    BY <2>2, <2>3 DEF ThreadsTyped
<1>5. \A t \in Threads : Placed(t)
  BY IdleFits DEF Init, Placed
<1> QED
  BY <1>1, <1>2, <1>3, <1>4, <1>5 DEF ModTypes, Init

-----------------------------------------------------------------------------
(* Time and the issuers. *)

LEMMA TypesTick == ModTypes /\ Tick => ModTypes'
<1> SUFFICES ASSUME ModTypes, Tick PROVE ModTypes'
  OBVIOUS
<1> USE DEF ModTypes
<1>0. /\ UNCHANGED <<certs, net, bans, revoked, mark, seen, rates, ratesDirty, history, disk>>
      /\ UNCHANGED <<pc, msg, todo, snap, acted, crashes, scene>> /\ clock' = clock + 1 /\ clock < MaxTime
  BY DEF Tick, memVars, thrVars, logVars
<1>1. clock' \in Time
  BY <1>0, ModerationAssumption DEF EnvTyped, Time
<1>2. EnvTyped'
  BY <1>0, <1>1 DEF EnvTyped, Proper
<1>3. MemTyped' /\ ThreadsTyped' /\ disk' \in FileStates
  BY <1>0 DEF MemTyped, ThreadsTyped
<1>4. \A t \in Threads : Placed(t)'
  BY <1>0 DEF Placed, Fits
<1> QED
  BY <1>2, <1>3, <1>4

\* Issuing adds proper messages and certificates and touches nothing else.
Issued ==
    /\ UNCHANGED <<clock, bans, revoked, mark, seen, rates, ratesDirty, history, disk, pc, msg, todo, snap, acted, crashes, scene>>
    /\ net \subseteq net'

LEMMA UntilTyped == \A d \in Nat : clock \in Time => Until(d) \in Nat
BY DEF Until, Time, NoTime

LEMMA IssueForm ==
    ASSUME ModTypes, Issue
    PROVE  Issued /\ certs' \subseteq Certificates /\ \A m \in net' : Proper(m)
<1>0. /\ clock \in Time /\ scene \in Scenes /\ certs \subseteq Certificates /\ \A m \in net : Proper(m)
  BY DEF ModTypes, EnvTyped
<1>1. \A d \in scene.bans \cup scene.certs : d \in Nat
  BY <1>0, ModerationAssumption
<1>2. \A d \in scene.bans \cup scene.certs : Until(d) \in Nat
  BY <1>0, <1>1, UntilTyped
<1>3. ASSUME NEW k \in Mods, NEW d \in scene.certs, Grant(k, d)
      PROVE  Issued /\ certs' \subseteq Certificates /\ \A m \in net' : Proper(m)
  <2>1. [key |-> k, at |-> clock, until |-> Until(d)] \in Certificates
    BY <1>0, <1>2 DEF Certificates
  <2> QED
    BY <1>0, <1>3, <2>1 DEF Grant, Issued, memVars, thrVars, logVars
<1>4. ASSUME NEW m, Proper(m), Publish(m)
      PROVE  Issued /\ certs' \subseteq Certificates /\ \A n \in net' : Proper(n)
  BY <1>0, <1>4 DEF Publish, Issued, memVars, thrVars, logVars
<1>5. ASSUME NEW p \in Peers, NEW d \in scene.bans
      PROVE  /\ Proper(Message("ban", p, Founder, NoCert, Until(d)))
             /\ \A c \in certs : Proper(Message("ban", p, c.key, c, Until(d)))
  BY <1>0, <1>2, ModerationAssumption DEF Proper, Message, Keys, Certificates
<1>6. ASSUME NEW p \in Peers
      PROVE  /\ Proper(Message("unban", p, Founder, NoCert, NoTime))
             /\ \A c \in certs : Proper(Message("unban", p, c.key, c, NoTime))
  BY <1>0, ModerationAssumption DEF Proper, Message, Keys, Certificates, NoTime
<1>7. ASSUME NEW k \in Mods PROVE Proper(Message("revoke", k, Founder, NoCert, NoTime))
  BY <1>0 DEF Proper, Message, Keys, NoTime
<1>8. CASE \E k \in Mods, d \in scene.certs : Grant(k, d)
  BY <1>3, <1>8
<1>9. CASE \E p \in Peers, d \in scene.bans : IssueBan(p, d)
  BY <1>4, <1>5, <1>9 DEF IssueBan
<1>10. CASE \E p \in Peers : IssueUnban(p)
  BY <1>4, <1>6, <1>10 DEF IssueUnban
<1>11. CASE \E k \in Mods : IssueRevoke(k)
  BY <1>4, <1>7, <1>11 DEF IssueRevoke
<1> QED
  BY <1>8, <1>9, <1>10, <1>11 DEF Issue

LEMMA TypesIssue == ModTypes /\ Issue => ModTypes'
<1> SUFFICES ASSUME ModTypes, Issue PROVE ModTypes'
  OBVIOUS
<1>1. Issued /\ certs' \subseteq Certificates /\ \A m \in net' : Proper(m)
  BY IssueForm
<1>0. /\ UNCHANGED <<clock, bans, revoked, mark, seen, rates, ratesDirty, history, disk>>
      /\ UNCHANGED <<pc, msg, todo, snap, acted, crashes, scene>> /\ net \subseteq net'
  BY <1>1 DEF Issued
<1>2. EnvTyped'
  BY <1>0, <1>1 DEF EnvTyped, ModTypes, Proper
<1>3. MemTyped'
  <2>1. seen \in [{"ban", "unban", "revoke"} -> Seq(net)] /\ seen' = seen
    BY <1>0 DEF ModTypes, MemTyped
  <2>2. \A y \in {"ban", "unban", "revoke"} : seen[y] \in Seq(net')
    <3>1. \A s \in Seq(net) : s \in Seq(net')
      BY <1>0, SeqMonotonic
    <3> QED
      BY <2>1, <3>1
  <2>3. seen' \in [{"ban", "unban", "revoke"} -> Seq(net')]
    BY <2>1, <2>2
  <2> QED
    BY <1>0, <2>3 DEF ModTypes, MemTyped
<1>4. ThreadsTyped'
  BY <1>0 DEF ModTypes, ThreadsTyped
<1>5. \A t \in Threads : Placed(t)'
  BY <1>0 DEF ModTypes, Placed, Fits
<1> QED
  BY <1>0, <1>2, <1>3, <1>4, <1>5 DEF ModTypes

-----------------------------------------------------------------------------
(* The handler's steps. *)

Kinds == {"ban", "unban", "revoke"}

LEMMA RememberTyped ==
    ASSUME MemTyped, NEW m \in net, m.type \in Kinds, net' = net, Remember(m)
    PROVE  /\ seen' \in [{"ban", "unban", "revoke"} -> Seq(net')]
           /\ \A y \in {"ban", "unban", "revoke"} : Len(seen'[y]) <= SeenCap
<1>0. SeenCap \in Nat /\ SeenCap # 0
  BY ModerationAssumption
<1> DEFINE y == m.type
           s == seen[y]
           kept == IF Len(s) = SeenCap THEN Tail(s) ELSE s
<1>1. y \in {"ban", "unban", "revoke"} /\ s \in Seq(net) /\ Len(s) <= SeenCap /\ Len(s) \in Nat
  BY DEF MemTyped, Kinds
<1>2. seen' = [seen EXCEPT ![y] = Append(kept, m)]
  BY DEF Remember
<1>3. kept \in Seq(net) /\ Len(kept) < SeenCap
  <2>1. CASE Len(s) = SeenCap
    <3>1. s # <<>>
      BY <1>0, <1>1, <2>1
    <3>2. Tail(s) \in Seq(net) /\ Len(Tail(s)) = Len(s) - 1
      BY <1>1, <3>1, HeadTailProperties
    <3> QED
      BY <1>0, <2>1, <3>2
  <2>2. CASE Len(s) # SeenCap
    <3> HIDE DEF s
    <3> QED
      BY <1>0, <1>1, <2>2
  <2> QED
    BY <2>1, <2>2
<1> HIDE DEF kept
<1>4. Append(kept, m) \in Seq(net) /\ Len(Append(kept, m)) <= SeenCap
  <2>1. Append(kept, m) \in Seq(net) /\ Len(Append(kept, m)) = Len(kept) + 1 /\ Len(kept) \in Nat
    BY <1>3
  <2> QED
    BY <1>0, <1>3, <2>1
<1> HIDE DEF y
<1>5. \A x \in {"ban", "unban", "revoke"} : seen'[x] = IF x = y THEN Append(kept, m) ELSE seen[x]
  BY <1>2 DEF MemTyped
<1>6. seen' \in [{"ban", "unban", "revoke"} -> Seq(net)]
  BY <1>1, <1>2, <1>4 DEF MemTyped
<1> QED
  BY <1>4, <1>5, <1>6 DEF MemTyped

\* What stays as it is when only the threads, the rates or the maps change.
LEMMA SameEnv == EnvTyped /\ UNCHANGED <<clock, certs, net, acted, crashes, scene>> => EnvTyped'
BY DEF EnvTyped, Proper

LEMMA SameMem ==
    MemTyped /\ UNCHANGED <<net, bans, revoked, mark, seen, rates, ratesDirty, history>> => MemTyped'
BY DEF MemTyped

LEMMA NotSigned == ModTypes => NoMsg \notin net
BY DEF ModTypes, EnvTyped, Proper, NoMsg

LEMMA TypesTake ==
    ASSUME ModTypes, NEW t \in Threads, NEW m \in net, NEW place, Take(t, m, place),
           (place = "verify" /\ m.type \in {"ban", "unban"}) \/ place = "install"
    PROVE  /\ ModTypes'
           /\ t \notin {Cleaner, RateSaver} /\ (t = Handler \/ t \in scene.active)
           /\ pc[t] = "idle" /\ todo[t] = <<>>
           /\ Moves(t, place, m, <<>>, snap[t])
<1>0. /\ UNCHANGED <<clock, certs, net, acted, crashes, scene, bans, revoked, mark, rates, ratesDirty, history, disk, todo, snap>>
      /\ pc[t] = "idle" /\ Remember(m) /\ (t = Handler \/ t \in Users \cap scene.active)
      /\ pc' = [pc EXCEPT ![t] = place] /\ msg' = [msg EXCEPT ![t] = m]
  BY DEF Take, envVars, logVars, Goto, Free
<1>1. t \notin {Cleaner, RateSaver}
  BY <1>0, ModerationAssumption
<1>2. Proper(m) /\ place \in Places /\ m # NoMsg
  BY NotSigned DEF ModTypes, EnvTyped, Places
<1>3. todo[t] = <<>>
  BY <1>0 DEF ModTypes, Placed, Fits
<1>4. Fits(t, place, m, <<>>)
  <2>1. <<>> \in Plans(t)
    BY DEF Plans
  <2>2. /\ place \notin {"save", "write", "idle"} /\ t \in scene.active \cup {Handler}
        /\ place \in {"verify", "quota"} => m.type \in {"ban", "unban"}
    BY <1>0
  <2> QED
    BY <1>1, <1>2, <2>1, <2>2 DEF Fits
<1>5. Moves(t, place, m, <<>>, snap[t]) /\ snap[t] \in FileStates
  BY <1>0, <1>3 DEF Moves, ModTypes, ThreadsTyped
<1>6. ThreadsTyped' /\ \A u \in Threads : Placed(u)'
  BY <1>0, <1>2, <1>4, <1>5, MoveKeeps
<1>7. EnvTyped' /\ disk' \in FileStates
  BY <1>0, SameEnv DEF ModTypes
<1>8. MemTyped'
  <2>1. m.type \in Kinds
    BY <1>2 DEF Proper, Kinds
  <2>2. /\ seen' \in [{"ban", "unban", "revoke"} -> Seq(net')]
        /\ \A y \in {"ban", "unban", "revoke"} : Len(seen'[y]) <= SeenCap
    <3>1. MemTyped /\ Remember(m) /\ net' = net
      BY <1>0 DEF ModTypes
    <3> QED
      BY <2>1, <3>1, RememberTyped, Zenon
  <2> QED
    BY <1>0, <2>2 DEF ModTypes, MemTyped
<1>9. ModTypes'
  BY <1>6, <1>7, <1>8 DEF ModTypes
<1>10. t = Handler \/ t \in scene.active
  BY <1>0
<1> QED
  BY <1>0, <1>1, <1>3, <1>5, <1>9, <1>10

\* Nothing else moves when a goroutine keeps its message, its files or its copy.
LEMMA Keeps ==
    ASSUME ModTypes, NEW t \in Threads
    PROVE  /\ [msg EXCEPT ![t] = msg[t]] = msg /\ [todo EXCEPT ![t] = todo[t]] = todo
           /\ [snap EXCEPT ![t] = snap[t]] = snap
           /\ msg[t] \in net \cup {NoMsg} /\ snap[t] \in FileStates /\ Fits(t, pc[t], msg[t], todo[t])
<1>1. PICK P : todo \in [Threads -> P]
  BY DEF ModTypes, ThreadsTyped
<1>2. [todo EXCEPT ![t] = todo[t]] = todo
  BY <1>1
<1> QED
  BY <1>2 DEF ModTypes, ThreadsTyped, Placed

LEMMA TypesVerify ==
    ASSUME ModTypes, NEW t \in Threads, Verify(t)
    PROVE  ModTypes' /\ \E place \in {"quota", "idle"}, m \in {msg[t], NoMsg} :
               /\ Moves(t, place, m, <<>>, snap[t])
               /\ place = "quota" => m = msg[t] /\ Authorised(msg[t])
<1>0. /\ UNCHANGED <<clock, certs, net, acted, crashes, scene, bans, revoked, mark, seen, rates, ratesDirty, history, disk, todo, snap>>
      /\ pc[t] = "verify"
  BY DEF Verify, envVars, memVars, logVars
<1>1. /\ msg[t] \in net \cup {NoMsg} /\ snap[t] \in FileStates /\ Fits(t, pc[t], msg[t], todo[t])
      /\ [msg EXCEPT ![t] = msg[t]] = msg /\ [todo EXCEPT ![t] = todo[t]] = todo
      /\ [snap EXCEPT ![t] = snap[t]] = snap
  BY Keeps
<1>2. todo[t] = <<>>
  BY <1>0, <1>1 DEF Fits
<1>3. \E place \in {"quota", "idle"}, m \in {msg[t], NoMsg} :
          /\ Moves(t, place, m, <<>>, snap[t]) /\ Fits(t, place, m, <<>>)
          /\ place = "quota" => m = msg[t] /\ Authorised(msg[t])
  <2>1. CASE Authorised(msg[t])
    <3>1. Moves(t, "quota", msg[t], <<>>, snap[t])
      BY <1>0, <1>1, <1>2, <2>1 DEF Verify, Goto, Moves
    <3>2. Fits(t, "quota", msg[t], <<>>)
      BY <1>0, <1>1, <1>2 DEF Fits
    <3> QED
      BY <2>1, <3>1, <3>2
  <2>2. CASE ~Authorised(msg[t])
    <3>1. Moves(t, "idle", NoMsg, <<>>, snap[t])
      BY <1>0, <1>1, <1>2, <2>2 DEF Verify, Drop, Goto, Moves
    <3> QED
      BY <3>1, IdleFits
  <2> QED
    BY <2>1, <2>2
<1>4. PICK place \in {"quota", "idle"}, m \in {msg[t], NoMsg} :
          /\ Moves(t, place, m, <<>>, snap[t]) /\ Fits(t, place, m, <<>>)
          /\ place = "quota" => m = msg[t] /\ Authorised(msg[t])
  BY <1>3
<1>5. place \in Places /\ m \in net \cup {NoMsg}
  BY <1>1 DEF Places
<1>6. ThreadsTyped' /\ \A u \in Threads : Placed(u)'
  BY <1>0, <1>1, <1>4, <1>5, MoveKeeps
<1>7. EnvTyped' /\ disk' \in FileStates /\ MemTyped'
  BY <1>0, SameEnv, SameMem DEF ModTypes
<1>8. ModTypes'
  BY <1>6, <1>7 DEF ModTypes
<1> QED
  BY <1>4, <1>8

\* The quota's two outcomes.
LEMMA TypesQuota ==
    ASSUME ModTypes, NEW t \in Threads, Quota(t)
    PROVE  /\ ModTypes' /\ msg[t].by \in Keys
           /\ \/ /\ Moves(t, "install", msg[t], <<>>, snap[t])
                 /\ rates' = [rates EXCEPT ![msg[t].by] = Append(Fresh(rates[msg[t].by]), clock)]
                 /\ acted' = [acted EXCEPT ![msg[t].by] = Noted(acted[msg[t].by])]
                 /\ ratesDirty' = TRUE
              \/ /\ Moves(t, "idle", NoMsg, <<>>, snap[t])
                 /\ UNCHANGED <<rates, ratesDirty, acted>>
<1> DEFINE k == msg[t].by
           fresh == Fresh(rates[k])
<1>0. /\ UNCHANGED <<clock, certs, net, crashes, scene, bans, revoked, mark, seen, history, disk, todo, snap>>
      /\ pc[t] = "quota"
  BY DEF Quota, envVars
<1>1. /\ msg[t] \in net \cup {NoMsg} /\ snap[t] \in FileStates /\ Fits(t, pc[t], msg[t], todo[t])
      /\ [msg EXCEPT ![t] = msg[t]] = msg /\ [todo EXCEPT ![t] = todo[t]] = todo
      /\ [snap EXCEPT ![t] = snap[t]] = snap
  BY Keeps
<1>2. todo[t] = <<>> /\ msg[t].type \in {"ban", "unban"}
  BY <1>0, <1>1 DEF Fits
<1>3. msg[t] # NoMsg /\ msg[t] \in net /\ k \in Keys
  <2>1. msg[t] # NoMsg
    BY <1>2 DEF NoMsg
  <2> QED
    BY <1>1, <2>1 DEF ModTypes, EnvTyped, Proper
<1>4. clock \in Time /\ rates \in [Keys -> Times] /\ acted \in [Keys -> Seq(Time)]
  BY DEF ModTypes, EnvTyped, MemTyped
<1>5. fresh \in Times /\ Fresh(acted[k]) \in Seq(Time)
  BY <1>3, <1>4, FreshTyped, FreshCounts
<1>6. CASE Len(fresh) < RateLimit /\ Moves(t, "install", msg[t], <<>>, snap[t])
           /\ rates' = [rates EXCEPT ![k] = Append(fresh, clock)]
           /\ acted' = [acted EXCEPT ![k] = Noted(acted[k])] /\ ratesDirty' = TRUE
  <2>1. Append(fresh, clock) \in Times
    <3>1. fresh \in Seq(Time) /\ RateLimit \in Nat
      BY <1>5, ModerationAssumption DEF Times
    <3> HIDE DEF fresh
    <3>2. Append(fresh, clock) \in Seq(Time) /\ Len(Append(fresh, clock)) = Len(fresh) + 1 /\ Len(fresh) \in Nat
      BY <1>4, <3>1
    <3> QED
      BY <1>6, <3>1, <3>2 DEF Times
  <2>2. Noted(acted[k]) \in Seq(Time)
    BY <1>4, <1>5 DEF Noted
  <2>3. rates' \in [Keys -> Times] /\ acted' \in [Keys -> Seq(Time)]
    BY <1>4, <1>6, <2>1, <2>2
  <2>4. EnvTyped' /\ MemTyped'
    BY <1>0, <1>6, <2>3 DEF ModTypes, EnvTyped, MemTyped, Proper
  <2>5. Fits(t, "install", msg[t], <<>>) /\ "install" \in Places
    BY <1>0, <1>1, <1>2, <1>3 DEF Fits, Places
  <2>6. ThreadsTyped' /\ \A u \in Threads : Placed(u)'
    BY <1>0, <1>1, <1>6, <2>5, MoveKeeps
  <2>7. ModTypes'
    BY <1>0, <2>4, <2>6 DEF ModTypes
  <2> QED
    BY <1>3, <1>6, <2>7
<1>7. CASE Moves(t, "idle", NoMsg, <<>>, snap[t]) /\ UNCHANGED <<rates, ratesDirty, acted>>
  <2>1. EnvTyped' /\ MemTyped'
    BY <1>0, <1>7, SameEnv, SameMem DEF ModTypes
  <2>2. Fits(t, "idle", NoMsg, <<>>) /\ "idle" \in Places /\ NoMsg \in net \cup {NoMsg}
    BY IdleFits DEF Places
  <2>3. ThreadsTyped' /\ \A u \in Threads : Placed(u)'
    BY <1>0, <1>1, <1>7, <2>2, MoveKeeps
  <2>4. ModTypes'
    BY <1>0, <2>1, <2>3 DEF ModTypes
  <2> QED
    BY <1>3, <1>7, <2>4
<1>8. \/ Len(fresh) < RateLimit /\ Moves(t, "install", msg[t], <<>>, snap[t])
           /\ rates' = [rates EXCEPT ![k] = Append(fresh, clock)]
           /\ acted' = [acted EXCEPT ![k] = Noted(acted[k])] /\ ratesDirty' = TRUE
      \/ Moves(t, "idle", NoMsg, <<>>, snap[t]) /\ UNCHANGED <<rates, ratesDirty, acted>>
  BY <1>0, <1>1, <1>2 DEF Quota, Moves, Goto, Drop
<1> QED
  BY <1>6, <1>7, <1>8

\* A message that is installed, and by whom.
LEMMA Installing ==
    ASSUME ModTypes, NEW t \in Threads, pc[t] = "install"
    PROVE  /\ msg[t] \in net /\ Proper(msg[t]) /\ todo[t] = <<>>
           /\ t \notin {Cleaner, RateSaver} /\ (t = Handler \/ t \in scene.active)
<1>1. msg[t] \in net \cup {NoMsg} /\ Fits(t, pc[t], msg[t], todo[t])
  BY Keeps
<1>2. msg[t] # NoMsg /\ todo[t] = <<>> /\ t \notin {Cleaner, RateSaver} /\ (t = Handler \/ t \in scene.active)
  BY <1>1 DEF Fits
<1> QED
  BY <1>1, <1>2 DEF ModTypes, EnvTyped

LEMMA TypesInstallBan ==
    ASSUME ModTypes, NEW t \in Threads, InstallBan(t)
    PROVE  ModTypes' /\ Moves(t, "save", msg[t], <<"bans", "log">>, snap[t])
<1>0. /\ UNCHANGED <<clock, certs, net, acted, crashes, scene, revoked, mark, seen, rates, ratesDirty, history, disk, msg, snap>>
      /\ pc[t] = "install" /\ msg[t].type = "ban"
      /\ bans' = [bans EXCEPT ![msg[t].subject] =
                      [by |-> msg[t].by, at |-> msg[t].at, until |-> msg[t].until]]
  BY DEF InstallBan, envVars, logVars
<1>1. /\ msg[t] \in net /\ Proper(msg[t]) /\ todo[t] = <<>>
      /\ t \notin {Cleaner, RateSaver} /\ (t = Handler \/ t \in scene.active)
  BY <1>0, Installing
<1>2. /\ snap[t] \in FileStates /\ [msg EXCEPT ![t] = msg[t]] = msg /\ [snap EXCEPT ![t] = snap[t]] = snap
  BY Keeps
<1>3. Moves(t, "save", msg[t], <<"bans", "log">>, snap[t])
  BY <1>0, <1>2 DEF InstallBan, Owe, Goto, Moves
<1>4. Fits(t, "save", msg[t], <<"bans", "log">>) /\ "save" \in Places
  BY <1>0, <1>1 DEF Fits, Plans, Places
<1>5. ThreadsTyped' /\ \A u \in Threads : Placed(u)'
  BY <1>0, <1>1, <1>2, <1>3, <1>4, MoveKeeps
<1>6. bans' \in [Peers -> BanRecords]
  <2>1. [by |-> msg[t].by, at |-> msg[t].at, until |-> msg[t].until] \in BanRecords
    BY <1>1, ModerationAssumption DEF Proper, BanRecords, Time
  <2> QED
    BY <1>0, <2>1 DEF ModTypes, MemTyped
<1>7. EnvTyped' /\ MemTyped' /\ disk' \in FileStates
  BY <1>0, <1>6, SameEnv DEF ModTypes, MemTyped
<1>8. ModTypes'
  BY <1>5, <1>7 DEF ModTypes
<1> QED
  BY <1>3, <1>8

LEMMA TypesInstallUnban ==
    ASSUME ModTypes, NEW t \in Threads, InstallUnban(t)
    PROVE  /\ ModTypes'
           /\ \E owed \in {<<"mark">>, <<"mark", "bans", "log">>} :
                 /\ Moves(t, "save", msg[t], owed, snap[t])
                 /\ owed = <<"mark">> <=> bans[msg[t].subject] = NoBan
<1>0. /\ UNCHANGED <<clock, certs, net, acted, crashes, scene, revoked, seen, rates, ratesDirty, history, disk, msg, snap>>
      /\ pc[t] = "install" /\ msg[t].type = "unban"
      /\ bans' = [bans EXCEPT ![msg[t].subject] = NoBan]
      /\ mark' = [mark EXCEPT ![msg[t].subject] = IF msg[t].at > mark[msg[t].subject] THEN msg[t].at ELSE mark[msg[t].subject]]
  BY DEF InstallUnban, envVars, logVars
<1>1. /\ msg[t] \in net /\ Proper(msg[t]) /\ todo[t] = <<>>
      /\ t \notin {Cleaner, RateSaver} /\ (t = Handler \/ t \in scene.active)
  BY <1>0, Installing
<1>2. /\ snap[t] \in FileStates /\ [msg EXCEPT ![t] = msg[t]] = msg /\ [snap EXCEPT ![t] = snap[t]] = snap
  BY Keeps
<1>3. PICK owed \in {<<"mark">>, <<"mark", "bans", "log">>} :
          Moves(t, "save", msg[t], owed, snap[t]) /\ (owed = <<"mark">> <=> bans[msg[t].subject] = NoBan)
  <2>1. CASE bans[msg[t].subject] = NoBan
    <3>1. Moves(t, "save", msg[t], <<"mark">>, snap[t])
      BY <1>0, <1>2, <2>1 DEF InstallUnban, Owe, Goto, Moves
    <3> QED
      BY <2>1, <3>1
  <2>2. CASE bans[msg[t].subject] # NoBan
    <3>1. Moves(t, "save", msg[t], <<"mark", "bans", "log">>, snap[t])
      BY <1>0, <1>2, <2>2 DEF InstallUnban, Owe, Goto, Moves
    <3>2. <<"mark", "bans", "log">> # <<"mark">>
      OBVIOUS
    <3> QED
      BY <2>2, <3>1, <3>2
  <2> QED
    BY <2>1, <2>2
<1>4. Fits(t, "save", msg[t], owed) /\ "save" \in Places
  BY <1>0, <1>1 DEF Fits, Plans, Places
<1>5. ThreadsTyped' /\ \A u \in Threads : Placed(u)'
  BY <1>0, <1>1, <1>2, <1>3, <1>4, MoveKeeps
<1>6. bans' \in [Peers -> BanRecords]
  <2>1. NoBan \in BanRecords
    BY ModerationAssumption DEF NoBan, BanRecords, NoTime, Keys
  <2> QED
    BY <1>0, <2>1 DEF ModTypes, MemTyped
<1>7. mark' \in [Peers -> 0..MaxTime]
  <2>1. msg[t].subject \in Peers /\ msg[t].at \in 0..MaxTime
    BY <1>0, <1>1, ModerationAssumption DEF Proper, Time
  <2> QED
    BY <1>0, <2>1 DEF ModTypes, MemTyped
<1>8. EnvTyped' /\ MemTyped' /\ disk' \in FileStates
  BY <1>0, <1>6, <1>7, SameEnv DEF ModTypes, MemTyped
<1>9. ModTypes'
  BY <1>5, <1>8 DEF ModTypes
<1> QED
  BY <1>3, <1>9

LEMMA TypesInstallRevoke ==
    ASSUME ModTypes, NEW t \in Threads, InstallRevoke(t)
    PROVE  ModTypes' /\ Moves(t, "save", msg[t], <<"revoked">>, snap[t])
<1>0. /\ UNCHANGED <<clock, certs, net, acted, crashes, scene, bans, mark, seen, rates, ratesDirty, history, disk, msg, snap>>
      /\ pc[t] = "install" /\ msg[t].type = "revoke"
      /\ revoked' = [revoked EXCEPT ![msg[t].subject] = msg[t].at]
  BY DEF InstallRevoke, envVars, logVars
<1>1. /\ msg[t] \in net /\ Proper(msg[t]) /\ todo[t] = <<>>
      /\ t \notin {Cleaner, RateSaver} /\ (t = Handler \/ t \in scene.active)
  BY <1>0, Installing
<1>2. /\ snap[t] \in FileStates /\ [msg EXCEPT ![t] = msg[t]] = msg /\ [snap EXCEPT ![t] = snap[t]] = snap
  BY Keeps
<1>3. Moves(t, "save", msg[t], <<"revoked">>, snap[t])
  BY <1>0, <1>2 DEF InstallRevoke, Owe, Goto, Moves
<1>4. Fits(t, "save", msg[t], <<"revoked">>) /\ "save" \in Places
  BY <1>0, <1>1 DEF Fits, Plans, Places
<1>5. ThreadsTyped' /\ \A u \in Threads : Placed(u)'
  BY <1>0, <1>1, <1>2, <1>3, <1>4, MoveKeeps
<1>6. revoked' \in [Mods -> 0..MaxTime]
  <2>1. msg[t].at \in 0..MaxTime
    BY <1>0, <1>1, ModerationAssumption DEF Proper, Time
  <2> QED
    BY <1>0, <2>1 DEF ModTypes, MemTyped
<1>7. EnvTyped' /\ MemTyped' /\ disk' \in FileStates
  BY <1>0, <1>6, SameEnv DEF ModTypes, MemTyped
<1>8. ModTypes'
  BY <1>5, <1>7 DEF ModTypes
<1> QED
  BY <1>3, <1>8

-----------------------------------------------------------------------------
(* Saving. *)

Saved == {"bans", "mark", "revoked", "rates", "history"}

\* One file replaced by another's contents.
LEMMA FileReplaced ==
    ASSUME NEW d \in FileStates, NEW e \in FileStates, NEW h \in Saved
    PROVE  LET r == [d EXCEPT ![h] = e[h]]
           IN  /\ r \in FileStates
               /\ r.bans = (IF h = "bans" THEN e.bans ELSE d.bans)
               /\ r.mark = (IF h = "mark" THEN e.mark ELSE d.mark)
               /\ r.revoked = (IF h = "revoked" THEN e.revoked ELSE d.revoked)
               /\ r.rates = (IF h = "rates" THEN e.rates ELSE d.rates)
               /\ r.history = (IF h = "history" THEN e.history ELSE d.history)
<1>1. CASE h = "bans"
  BY <1>1 DEF FileStates
<1>2. CASE h = "mark"
  BY <1>2 DEF FileStates
<1>3. CASE h = "revoked"
  BY <1>3 DEF FileStates
<1>4. CASE h = "rates"
  BY <1>4 DEF FileStates
<1>5. CASE h = "history"
  BY <1>5 DEF FileStates
<1> QED
  BY <1>1, <1>2, <1>3, <1>4, <1>5 DEF Saved

\* What is saved first, and what is left after it.
LEMMA PlanSteps ==
    ASSUME NEW t, NEW owed \in Plans(t), owed # <<>>
    PROVE  /\ owed # <<"log">> => Head(owed) \in Saved
           /\ Head(owed) = "log" => owed = <<"log">>
           /\ Tail(owed) \in Plans(t)
           /\ Len(owed) = 1 <=> Tail(owed) = <<>>
           /\ Tail(owed) \in {<<>>, <<"bans", "log">>, <<"log">>}
           /\ Tail(owed) # <<>> => t \notin {Cleaner, RateSaver} /\ owed \in {<<"mark", "bans", "log">>, <<"bans", "log">>}
<1>0. \A x : /\ Head(<<x>>) = x /\ Tail(<<x>>) = <<>> /\ Len(<<x>>) = 1
             /\ \A y : <<x>> = <<y>> => x = y
  OBVIOUS
<1>1. CASE \E x \in {"bans", "rates", "history", "mark", "revoked"} : owed = <<x>>
  <2>1. PICK x \in {"bans", "rates", "history", "mark", "revoked"} : owed = <<x>>
    BY <1>1
  <2>2. Head(owed) = x /\ Tail(owed) = <<>> /\ Len(owed) = 1
    BY <1>0, <2>1
  <2>3. x \in Saved /\ x # "log" /\ <<>> \in Plans(t)
    BY DEF Saved, Plans
  <2> QED
    BY <2>2, <2>3
<1>2. CASE t \notin {Cleaner, RateSaver} /\ owed \in {<<"mark", "bans", "log">>, <<"bans", "log">>, <<"log">>}
  <2>1. {<<>>, <<"bans", "log">>, <<"log">>} \subseteq Plans(t)
    BY <1>2 DEF Plans
  <2>2. CASE owed = <<"mark", "bans", "log">>
    <3>1. Head(owed) = "mark" /\ Tail(owed) = <<"bans", "log">> /\ Len(owed) = 3 /\ Tail(owed) # <<>>
      BY <2>2
    <3> QED
      BY <1>2, <2>1, <2>2, <3>1 DEF Saved
  <2>3. CASE owed = <<"bans", "log">>
    <3>1. Head(owed) = "bans" /\ Tail(owed) = <<"log">> /\ Len(owed) = 2 /\ Tail(owed) # <<>>
      BY <2>3
    <3> QED
      BY <1>2, <2>1, <2>3, <3>1 DEF Saved
  <2>4. CASE owed = <<"log">>
    <3>1. Tail(owed) = <<>> /\ Len(owed) = 1
      BY <2>4
    <3> QED
      BY <2>1, <2>4, <3>1
  <2> QED
    BY <1>2, <2>2, <2>3, <2>4
<1> QED
  BY <1>1, <1>2 DEF Plans

LEMMA TypesSnapshot ==
    ASSUME ModTypes, NEW t \in Threads, Snapshot(t)
    PROVE  /\ ModTypes'
           /\ pc[t] = "save" /\ todo[t] # <<>> /\ todo[t] # <<"log">> /\ Head(todo[t]) \in Saved
           /\ Moves(t, "write", msg[t], todo[t], [NoSnap EXCEPT ![Head(todo[t])] = Memory[Head(todo[t])]])
<1> DEFINE h == Head(todo[t])
           copy == [NoSnap EXCEPT ![h] = Memory[h]]
<1>0. /\ UNCHANGED <<clock, certs, net, acted, crashes, scene, bans, revoked, mark, seen, rates, ratesDirty, history, disk, msg, todo>>
      /\ pc[t] = "save" /\ todo[t] # <<>> /\ h # "log"
      /\ snap' = [snap EXCEPT ![t] = copy] /\ pc' = [pc EXCEPT ![t] = "write"]
  BY DEF Snapshot, Saving, Goto, envVars, memVars, logVars
<1>1. /\ [msg EXCEPT ![t] = msg[t]] = msg /\ [todo EXCEPT ![t] = todo[t]] = todo
      /\ msg[t] \in net \cup {NoMsg} /\ Fits(t, pc[t], msg[t], todo[t])
  BY Keeps
<1>2. todo[t] # <<"log">>
  BY <1>0
<1>3. h \in Saved
  BY <1>0, <1>1, <1>2, PlanSteps DEF Fits
<1>4. copy \in FileStates
  BY <1>3, FileReplaced, MemoryTyped, EmptyDiskTyped
<1> HIDE DEF copy
<1>5. Moves(t, "write", msg[t], todo[t], copy)
  BY <1>0, <1>1 DEF Moves
<1>6. Fits(t, "write", msg[t], todo[t]) /\ "write" \in Places
  BY <1>0, <1>1, <1>2 DEF Fits, Places
<1>7. ThreadsTyped' /\ \A u \in Threads : Placed(u)'
  BY <1>0, <1>1, <1>4, <1>5, <1>6, MoveKeeps
<1>8. EnvTyped' /\ disk' \in FileStates /\ MemTyped'
  BY <1>0, SameEnv, SameMem DEF ModTypes
<1>9. ModTypes'
  BY <1>7, <1>8 DEF ModTypes
<1> QED
  BY <1>0, <1>2, <1>3, <1>5, <1>9 DEF copy

LEMMA TypesWrite ==
    ASSUME ModTypes, NEW t \in Threads, Write(t)
    PROVE  /\ ModTypes'
           /\ pc[t] = "write" /\ todo[t] # <<>> /\ Head(todo[t]) \in Saved
           /\ disk' = [disk EXCEPT ![Head(todo[t])] = snap[t][Head(todo[t])]]
           /\ \E place \in {"idle", "save"}, m \in {msg[t], NoMsg} :
                 Moves(t, place, m, Tail(todo[t]), NoSnap)
<1> DEFINE h == Head(todo[t])
           rest == Tail(todo[t])
<1>0. /\ UNCHANGED <<clock, certs, net, acted, crashes, scene, bans, revoked, mark, seen, rates, ratesDirty, history>>
      /\ pc[t] = "write" /\ disk' = [disk EXCEPT ![h] = snap[t][h]]
      /\ snap' = [snap EXCEPT ![t] = NoSnap] /\ todo' = [todo EXCEPT ![t] = rest]
      /\ IF Len(todo[t]) = 1 THEN Drop(t) ELSE Goto(t, "save") /\ UNCHANGED msg
  BY DEF Write, envVars, memVars, logVars
<1>1. /\ [msg EXCEPT ![t] = msg[t]] = msg
      /\ msg[t] \in net \cup {NoMsg} /\ Fits(t, pc[t], msg[t], todo[t]) /\ snap[t] \in FileStates
  BY Keeps
<1>2. /\ todo[t] \in Plans(t) /\ todo[t] # <<>> /\ todo[t] # <<"log">>
  BY <1>0, <1>1 DEF Fits
<1>3. /\ h \in Saved /\ rest \in Plans(t) /\ (Len(todo[t]) = 1 <=> rest = <<>>)
      /\ rest \in {<<>>, <<"bans", "log">>, <<"log">>}
      /\ rest # <<>> => t \notin {Cleaner, RateSaver} /\ todo[t] \in {<<"mark", "bans", "log">>, <<"bans", "log">>}
  BY <1>2, PlanSteps
<1>4. disk' \in FileStates
  BY <1>0, <1>1, <1>3, FileReplaced DEF ModTypes
<1> HIDE DEF rest
<1>5. PICK place \in {"idle", "save"}, m \in {msg[t], NoMsg} :
          Moves(t, place, m, rest, NoSnap) /\ Fits(t, place, m, rest)
  <2>1. CASE rest = <<>>
    <3>1. Moves(t, "idle", NoMsg, rest, NoSnap)
      BY <1>0, <1>3, <2>1 DEF Moves, Drop, Goto
    <3>2. Fits(t, "idle", NoMsg, rest)
      BY <2>1, IdleFits
    <3> QED
      BY <3>1, <3>2
  <2>2. CASE rest # <<>>
    <3>1. Moves(t, "save", msg[t], rest, NoSnap)
      BY <1>0, <1>1, <1>3, <2>2 DEF Moves, Goto
    <3>2. msg[t].type \in {"ban", "unban"} /\ t \notin {Cleaner, RateSaver}
      BY <1>0, <1>1, <1>3, <2>2 DEF Fits
    <3>3. t \in scene.active \cup {Handler}
      BY <1>0, <1>1 DEF Fits
    <3>4. Fits(t, "save", msg[t], rest)
      BY <1>3, <2>2, <3>2, <3>3 DEF Fits
    <3> QED
      BY <3>1, <3>4
  <2> QED
    BY <2>1, <2>2
<1>6. place \in Places /\ m \in net \cup {NoMsg} /\ NoSnap \in FileStates
  BY <1>1, EmptyDiskTyped DEF Places
<1>7. ThreadsTyped' /\ \A u \in Threads : Placed(u)'
  BY <1>0, <1>5, <1>6, MoveKeeps
<1>8. EnvTyped' /\ MemTyped'
  BY <1>0, SameEnv, SameMem DEF ModTypes
<1>9. ModTypes'
  BY <1>4, <1>7, <1>8 DEF ModTypes
<1> QED
  BY <1>0, <1>2, <1>3, <1>5, <1>9 DEF rest

LEMMA TypesRecord ==
    ASSUME ModTypes, NEW t \in Threads, Record(t)
    PROVE  /\ ModTypes' /\ pc[t] = "save" /\ todo[t] = <<"log">>
           /\ Moves(t, "save", msg[t], <<"history">>, snap[t])
<1> DEFINE entry == [action |-> msg[t].type, peer |-> msg[t].subject, by |-> msg[t].by]
           n == IF Len(history) < HistoryCap THEN Len(history) + 1 ELSE HistoryCap
<1>0. /\ UNCHANGED <<clock, certs, net, acted, crashes, scene, bans, revoked, mark, seen, rates, ratesDirty, disk, pc, msg, snap>>
      /\ pc[t] = "save" /\ todo[t] # <<>> /\ Head(todo[t]) = "log"
      /\ todo' = [todo EXCEPT ![t] = <<"history">>]
      /\ history' = SubSeq(<<entry>> \o history, 1, n)
  BY DEF Record, Saving, envVars, logVars
<1>1. /\ [msg EXCEPT ![t] = msg[t]] = msg /\ [snap EXCEPT ![t] = snap[t]] = snap
      /\ msg[t] \in net \cup {NoMsg} /\ Fits(t, pc[t], msg[t], todo[t]) /\ snap[t] \in FileStates
  BY Keeps
<1>2. todo[t] = <<"log">> /\ <<"log">> \in Plans(t)
  <2>1. todo[t] \in Plans(t)
    BY <1>1 DEF Fits
  <2> QED
    BY <1>0, <2>1, PlanSteps
<1>3. msg[t].type \in {"ban", "unban"} /\ t \in scene.active \cup {Handler}
  BY <1>0, <1>1, <1>2 DEF Fits
<1>4. msg[t] # NoMsg
  BY <1>3 DEF NoMsg
<1>5. t \notin {Cleaner, RateSaver}
  BY <1>1, <1>4 DEF Fits
<1>6. Proper(msg[t])
  BY <1>1, <1>4 DEF ModTypes, EnvTyped
<1>7. Moves(t, "save", msg[t], <<"history">>, snap[t])
  <2>1. pc = [pc EXCEPT ![t] = "save"]
    BY <1>0 DEF ModTypes, ThreadsTyped
  <2> QED
    BY <1>0, <1>1, <2>1 DEF Moves
<1>8. Fits(t, "save", msg[t], <<"history">>) /\ "save" \in Places
  BY <1>3, <1>4, <1>5 DEF Fits, Plans, Places
<1>9. ThreadsTyped' /\ \A u \in Threads : Placed(u)'
  BY <1>0, <1>1, <1>7, <1>8, MoveKeeps
<1>10. history' \in Histories
  <2>1. entry \in Entries
    BY <1>3, <1>6 DEF Entries, Proper
  <2>2. history \in Seq(Entries) /\ Len(history) <= HistoryCap /\ Len(history) \in Nat /\ HistoryCap \in Nat \ {0}
    BY ModerationAssumption DEF ModTypes, MemTyped, Histories
  <2> HIDE DEF entry
  <2> DEFINE all == <<entry>> \o history
  <2>3. all \in Seq(Entries) /\ Len(all) = 1 + Len(history)
    <3>1. <<entry>> \in Seq(Entries) /\ Len(<<entry>>) = 1
      BY <2>1
    <3> QED
      BY <2>2, <3>1, ConcatProperties
  <2>4. n \in Nat /\ 1 <= n /\ n <= HistoryCap /\ n <= Len(all)
    BY <2>2, <2>3
  <2> HIDE DEF all, n
  <2>5. \A i \in 1..n : all[i] \in Entries
    BY <2>3, <2>4, ElementOfSeq
  <2>6. SubSeq(all, 1, n) \in Seq(Entries) /\ Len(SubSeq(all, 1, n)) = IF 1 <= n THEN n - 1 + 1 ELSE 0
    <3>1. 1 \in Int /\ n \in Int
      BY <2>4
    <3> QED
      BY <2>5, <3>1, SubSeqProperties
  <2>7. Len(SubSeq(all, 1, n)) <= HistoryCap
    BY <2>2, <2>4, <2>6
  <2> QED
    BY <1>0, <2>6, <2>7 DEF Histories, all
<1>11. EnvTyped' /\ MemTyped' /\ disk' \in FileStates
  BY <1>0, <1>10, SameEnv DEF ModTypes, MemTyped
<1>12. ModTypes'
  BY <1>9, <1>11 DEF ModTypes
<1> QED
  BY <1>0, <1>2, <1>7, <1>12

LEMMA TypesCleanup ==
    ASSUME ModTypes, Cleanup
    PROVE  ModTypes' /\ Moves(Cleaner, "save", NoMsg, <<"bans">>, snap[Cleaner])
<1> DEFINE t == Cleaner
           over == {p \in Peers : bans[p].until # NoTime /\ clock > bans[p].until}
<1>0. /\ UNCHANGED <<clock, certs, net, acted, crashes, scene, revoked, mark, seen, rates, ratesDirty, history, disk, msg, snap>>
      /\ pc[t] = "idle" /\ t \in scene.active /\ t \in Threads
      /\ bans' = [p \in Peers |-> IF p \in over THEN NoBan ELSE bans[p]]
  BY DEF Cleanup, Free, envVars, logVars, Threads
<1>1. /\ [msg EXCEPT ![t] = msg[t]] = msg /\ [snap EXCEPT ![t] = snap[t]] = snap
      /\ Fits(t, pc[t], msg[t], todo[t]) /\ snap[t] \in FileStates
  BY <1>0, Keeps
<1>2. msg[t] = NoMsg
  BY <1>1 DEF Fits
<1>3. Moves(t, "save", NoMsg, <<"bans">>, snap[t])
  BY <1>0, <1>1, <1>2 DEF Cleanup, Owe, Goto, Moves
<1>4. Fits(t, "save", NoMsg, <<"bans">>) /\ "save" \in Places
  BY <1>0, ModerationAssumption DEF Fits, Plans, Places
<1>5. ThreadsTyped' /\ \A u \in Threads : Placed(u)'
  BY <1>0, <1>1, <1>3, <1>4, MoveKeeps
<1>6. bans' \in [Peers -> BanRecords]
  <2>1. NoBan \in BanRecords
    BY ModerationAssumption DEF NoBan, BanRecords, NoTime, Keys
  <2> QED
    BY <1>0, <2>1 DEF ModTypes, MemTyped
<1>7. EnvTyped' /\ MemTyped' /\ disk' \in FileStates
  BY <1>0, <1>6, SameEnv DEF ModTypes, MemTyped
<1>8. ModTypes'
  BY <1>5, <1>7 DEF ModTypes
<1> QED
  BY <1>3, <1>8

LEMMA TypesSaveRates ==
    ASSUME ModTypes, SaveRates
    PROVE  /\ ModTypes' /\ Moves(RateSaver, "save", NoMsg, <<"rates">>, snap[RateSaver])
           /\ pc[RateSaver] = "idle"
<1> DEFINE t == RateSaver
<1>0. /\ UNCHANGED <<clock, certs, net, acted, crashes, scene, bans, revoked, mark, seen, rates, history, disk, msg, snap>>
      /\ pc[t] = "idle" /\ t \in scene.active /\ t \in Threads /\ ratesDirty' = FALSE
  BY DEF SaveRates, Free, envVars, logVars, Threads
<1>1. /\ [msg EXCEPT ![t] = msg[t]] = msg /\ [snap EXCEPT ![t] = snap[t]] = snap
      /\ Fits(t, pc[t], msg[t], todo[t]) /\ snap[t] \in FileStates
  BY <1>0, Keeps
<1>2. msg[t] = NoMsg
  BY <1>1 DEF Fits
<1>3. Moves(t, "save", NoMsg, <<"rates">>, snap[t])
  BY <1>0, <1>1, <1>2 DEF SaveRates, Owe, Goto, Moves
<1>4. Fits(t, "save", NoMsg, <<"rates">>) /\ "save" \in Places
  BY <1>0, ModerationAssumption DEF Fits, Plans, Places
<1>5. ThreadsTyped' /\ \A u \in Threads : Placed(u)'
  BY <1>0, <1>1, <1>3, <1>4, MoveKeeps
<1>6. EnvTyped' /\ MemTyped' /\ disk' \in FileStates
  BY <1>0, SameEnv DEF ModTypes, MemTyped
<1>7. ModTypes'
  BY <1>5, <1>6 DEF ModTypes
<1> QED
  BY <1>0, <1>3, <1>7

\* Starting from files of their types.
LEMMA TypesLoad ==
    ASSUME ModTypes, NEW d \in FileStates, Load(d), disk' = d, UNCHANGED <<clock, certs, net, acted, scene>>,
           crashes' \in Nat
    PROVE  /\ ModTypes'
           /\ \A t \in Threads : pc'[t] = "idle" /\ msg'[t] = NoMsg /\ todo'[t] = <<>> /\ snap'[t] = NoSnap
<1>1. EnvTyped'
  BY DEF ModTypes, EnvTyped, Proper
<1>2. MemTyped'
  <2>1. /\ d.bans \in [Peers -> BanRecords] /\ d.mark \in [Peers -> 0..MaxTime]
        /\ d.revoked \in [Mods -> 0..MaxTime] /\ d.rates \in [Keys -> Times] /\ d.history \in Histories
    BY DEF FileStates
  <2>2. ActiveBans(d.bans) \in [Peers -> BanRecords]
    BY <2>1, ActiveTyped
  <2>3. [k \in Keys |-> Fresh(d.rates[k])] \in [Keys -> Times]
    BY <2>1, FreshRatesTyped DEF ModTypes, EnvTyped
  <2>4. /\ seen' \in [{"ban", "unban", "revoke"} -> Seq(net')]
        /\ \A y \in {"ban", "unban", "revoke"} : Len(seen'[y]) <= SeenCap
    BY ModerationAssumption DEF Load, EmptySeen
  <2> QED
    BY <2>1, <2>2, <2>3, <2>4 DEF Load, MemTyped
<1>3. \A t \in Threads : pc'[t] = "idle" /\ msg'[t] = NoMsg /\ todo'[t] = <<>> /\ snap'[t] = NoSnap
  BY DEF Load
<1>4. ThreadsTyped'
  <2>1. todo' \in [Threads -> {<<>>}]
    BY DEF Load
  <2>2. \E P : todo' \in [Threads -> P]
    BY <2>1
  <2>3. pc' \in [Threads -> Places] /\ msg' \in [Threads -> net' \cup {NoMsg}] /\ snap' \in [Threads -> FileStates]
    BY EmptyDiskTyped DEF Load, Places
  <2> QED
    BY <2>2, <2>3 DEF ThreadsTyped
<1>5. \A t \in Threads : Placed(t)'
  <2>1. \A t \in Threads : Fits(t, "idle", NoMsg, <<>>)'
    BY DEF Fits, Plans, NoMsg, NoCert
  <2> QED
    BY <1>3, <2>1 DEF Placed
<1> QED
  BY <1>1, <1>2, <1>3, <1>4, <1>5 DEF ModTypes

LEMMA StopTyped == ModTypes => DiskAtStop \in FileStates /\ DiskAtStop \in {disk, [disk EXCEPT !.rates = Memory.rates]}
<1> SUFFICES ASSUME ModTypes PROVE DiskAtStop \in FileStates /\ DiskAtStop \in {disk, [disk EXCEPT !.rates = Memory.rates]}
  OBVIOUS
<1>1. disk \in FileStates /\ Memory \in FileStates /\ "rates" \in Saved
  BY MemoryTyped DEF ModTypes, Saved
<1>2. [disk EXCEPT !.rates = Memory.rates] \in FileStates
  BY <1>1 DEF FileStates
<1> QED
  BY <1>1, <1>2 DEF DiskAtStop

LEMMA TypesRestart ==
    ASSUME ModTypes, Restart
    PROVE  /\ ModTypes'
           /\ \A t \in Threads : pc'[t] = "idle" /\ msg'[t] = NoMsg /\ todo'[t] = <<>> /\ snap'[t] = NoSnap
<1>1. /\ DiskAtStop \in FileStates /\ Load(DiskAtStop) /\ disk' = DiskAtStop
      /\ UNCHANGED <<clock, certs, net, acted, scene>> /\ crashes' \in Nat
  BY StopTyped DEF Restart, envVars, logVars, ModTypes, EnvTyped
<1> HIDE DEF DiskAtStop
<1> QED
  BY <1>1, TypesLoad

LEMMA TypesCrash ==
    ASSUME ModTypes, Crash
    PROVE  /\ ModTypes'
           /\ \A t \in Threads : pc'[t] = "idle" /\ msg'[t] = NoMsg /\ todo'[t] = <<>> /\ snap'[t] = NoSnap
<1>1. disk \in FileStates /\ Load(disk) /\ disk' = disk /\ UNCHANGED <<clock, certs, net, acted, scene>> /\ crashes' \in Nat
  BY DEF Crash, envVars, ModTypes, EnvTyped
<1> QED
  BY <1>1, TypesLoad

LEMMA TypesNext == ModTypes /\ [Next]_vars => ModTypes'
<1> SUFFICES ASSUME ModTypes, [Next]_vars PROVE ModTypes'
  OBVIOUS
<1>1. CASE Tick
  BY <1>1, TypesTick
<1>2. CASE Issue
  BY <1>2, TypesIssue
<1>3. ASSUME NEW t \in Threads, Handle(t) PROVE ModTypes'
  <2>1. ASSUME NEW m \in net, TakeBan(t, m) \/ TakeUnban(t, m) \/ TakeRevoke(t, m) PROVE ModTypes'
    <3>1. CASE TakeBan(t, m)
      BY <3>1, TypesTake DEF TakeBan
    <3>2. CASE TakeUnban(t, m)
      BY <3>2, TypesTake DEF TakeUnban
    <3>3. CASE TakeRevoke(t, m)
      BY <3>3, TypesTake DEF TakeRevoke
    <3> QED
      BY <2>1, <3>1, <3>2, <3>3
  <2> QED
    BY <1>3, <2>1, TypesVerify, TypesQuota, TypesInstallBan, TypesInstallUnban, TypesInstallRevoke,
       TypesSnapshot, TypesWrite, TypesRecord DEF Handle
<1>4. CASE Cleanup
  BY <1>4, TypesCleanup
<1>5. CASE SaveRates
  BY <1>5, TypesSaveRates
<1>6. CASE Restart
  BY <1>6, TypesRestart
<1>7. CASE Crash
  BY <1>7, TypesCrash
<1>8. CASE UNCHANGED vars
  <2>1. UNCHANGED <<clock, certs, net, acted, crashes, scene, bans, revoked, mark, seen, rates, ratesDirty, history, disk, pc, msg, todo, snap>>
    BY <1>8 DEF vars, envVars, memVars, thrVars, logVars
  <2>2. EnvTyped' /\ MemTyped' /\ disk' \in FileStates
    BY <2>1, SameEnv, SameMem DEF ModTypes
  <2>3. ThreadsTyped' /\ \A t \in Threads : Placed(t)'
    BY <2>1 DEF ModTypes, ThreadsTyped, Placed, Fits
  <2> QED
    BY <2>2, <2>3 DEF ModTypes
<1> QED
  BY <1>1, <1>2, <1>3, <1>4, <1>5, <1>6, <1>7, <1>8 DEF Next

-----------------------------------------------------------------------------
(* Lifted bans and revoked certificates. *)

\* Where each goroutine is after one of them has moved.
LEMMA MoveFacts ==
    ASSUME ModTypes, NEW t \in Threads, NEW place, NEW m, NEW owed, NEW copy, Moves(t, place, m, owed, copy)
    PROVE  \A u \in Threads : /\ pc'[u] = IF u = t THEN place ELSE pc[u]
                              /\ msg'[u] = IF u = t THEN m ELSE msg[u]
                              /\ todo'[u] = IF u = t THEN owed ELSE todo[u]
                              /\ snap'[u] = IF u = t THEN copy ELSE snap[u]
<1>1. PICK P : todo \in [Threads -> P]
  BY DEF ModTypes, ThreadsTyped
<1> QED
  BY <1>1 DEF ModTypes, ThreadsTyped, Moves

\* Where no user works, the messages are the handler's.
LEMMA OnlyHandler ==
    ASSUME ModTypes, Unused, NEW t \in Threads, t \notin {Cleaner, RateSaver}, t = Handler \/ t \in scene.active
    PROVE  t = Handler
BY DEF Unused, Threads

\* What a goroutine that handles a message does beside the handler.
LEMMA BesideHandler ==
    ASSUME ModTypes, Unused, NEW t \in Threads, t # Handler
    PROVE  /\ pc[t] \notin {"verify", "quota", "install"}
           /\ \A m \in net, place \in {"verify", "install"} : ~Take(t, m, place)
           /\ todo[t] \in {<<>>, <<"bans">>, <<"rates">>}
           /\ todo[t] = <<"bans">> => t = Cleaner /\ t \in scene.active
<1>1. Fits(t, pc[t], msg[t], todo[t])
  BY Keeps
<1>2. t \in {Cleaner, RateSaver} \/ t \notin scene.active \cup {Handler}
  BY DEF Unused, Threads
<1>3. pc[t] \notin {"verify", "quota", "install"}
  BY <1>1, <1>2 DEF Fits, NoMsg
<1>4. \A m \in net, place \in {"verify", "install"} : ~Take(t, m, place)
  BY <1>2, ModerationAssumption DEF Take, Unused
<1>5. /\ todo[t] \in {<<>>, <<"bans">>, <<"rates">>}
      /\ todo[t] = <<"bans">> => t = Cleaner /\ t \in scene.active
  <2>0. <<"bans">> # <<>> /\ <<"bans">> # <<"rates">>
    OBVIOUS
  <2>1. CASE t = Cleaner /\ t \in scene.active
    <3>1. todo[t] \in {<<>>, <<"bans">>}
      BY <1>1, <2>1, ModerationAssumption DEF Fits, Plans
    <3> QED
      BY <2>1, <3>1
  <2>2. CASE t = RateSaver
    <3>1. todo[t] \in {<<>>, <<"rates">>}
      BY <1>1, <2>2, ModerationAssumption DEF Fits, Plans
    <3> QED
      BY <2>0, <3>1
  <2>3. CASE t \notin scene.active \cup {Handler}
    <3>1. todo[t] = <<>>
      BY <1>1, <2>3 DEF Fits
    <3> QED
      BY <2>0, <3>1
  <2> QED
    BY <1>2, <2>1, <2>2, <2>3
<1> QED
  BY <1>3, <1>4, <1>5

\* The handler's messages are checked against revocations only it applies.
LEMMA VerifiedNext == ModTypes /\ Verified /\ [Next]_vars => Verified'
<1> SUFFICES ASSUME ModTypes, Verified, [Next]_vars, Unused',
                    pc'[Handler] \in {"quota", "install"}, msg'[Handler].cert # NoCert
             PROVE  msg'[Handler].cert.at > revoked'[msg'[Handler].cert.key]
  BY DEF Verified
<1>0. Handler \in Threads
  BY DEF Threads
<1> DEFINE Kept == /\ pc'[Handler] = pc[Handler] /\ msg'[Handler] = msg[Handler] /\ revoked' = revoked /\ scene' = scene
<1>1. CASE Kept
  BY <1>1 DEF Verified, Unused
<1>2. CASE Tick
  BY <1>1, <1>2 DEF Tick, memVars, thrVars, logVars
<1>3. CASE Issue
  <2>1. Issued
    BY <1>3, IssueForm
  <2> QED
    BY <1>1, <2>1 DEF Issued
<1>4. ASSUME NEW t \in Threads, Handle(t) PROVE msg'[Handler].cert.at > revoked'[msg'[Handler].cert.key]
  <2>0. scene' = scene /\ Unused
    <3>1. scene' = scene
      BY <1>4 DEF Handle, TakeBan, TakeUnban, TakeRevoke, Take, Verify, Quota, InstallBan, InstallUnban,
         InstallRevoke, Snapshot, Write, Record, logVars
    <3> QED
      BY <3>1 DEF Unused
  <2>1. ASSUME NEW m \in net, TakeBan(t, m) \/ TakeUnban(t, m) \/ TakeRevoke(t, m)
        PROVE  msg'[Handler].cert.at > revoked'[msg'[Handler].cert.key]
    <3>1. PICK place \in {"verify", "install"} : Take(t, m, place) /\ (place = "install" => m.type = "revoke")
      BY <2>1 DEF TakeBan, TakeUnban, TakeRevoke
    <3>2. t = Handler
      BY <2>0, <3>1, BesideHandler
    <3>3. pc'[Handler] = place /\ msg'[Handler] = m
      BY <1>0, <3>1, <3>2 DEF Take, Goto, ModTypes, ThreadsTyped
    <3>4. m.cert = NoCert
      BY <3>1, <3>3 DEF ModTypes, EnvTyped, Proper
    <3> QED
      BY <3>3, <3>4
  <2>2. CASE Verify(t)
    <3>1. t = Handler
      BY <2>0, <2>2, BesideHandler DEF Verify
    <3>2. PICK place \in {"quota", "idle"}, m \in {msg[t], NoMsg} :
               /\ Moves(t, place, m, <<>>, snap[t])
               /\ place = "quota" => m = msg[t] /\ Authorised(msg[t])
      BY <2>2, TypesVerify
    <3>3. pc'[Handler] = place /\ msg'[Handler] = m
      BY <1>0, <3>1, <3>2, MoveFacts
    <3>4. m = msg[t] /\ Authorised(msg[t]) /\ m \in net
      <4>1. msg[t] \in net \cup {NoMsg} /\ NoMsg.type = "none" /\ Fits(t, pc[t], msg[t], todo[t])
        BY Keeps DEF NoMsg
      <4> QED
        BY <2>2, <3>2, <3>3, <4>1 DEF Verify, Fits
    <3>5. Proper(m) /\ m.by # Founder
      BY <3>3, <3>4 DEF ModTypes, EnvTyped, Proper
    <3>6. VerifyCert(m.cert)
      BY <3>4, <3>5 DEF Authorised
    <3>7. revoked' = revoked
      BY <2>2 DEF Verify, memVars
    <3> QED
      BY <3>3, <3>6, <3>7 DEF VerifyCert
  <2>3. CASE Quota(t)
    <3>1. t = Handler /\ pc[t] = "quota" /\ revoked' = revoked
      BY <2>0, <2>3, BesideHandler DEF Quota
    <3>2. Moves(t, "install", msg[t], <<>>, snap[t]) \/ Moves(t, "idle", NoMsg, <<>>, snap[t])
      BY <2>3, TypesQuota
    <3>3. pc'[Handler] = "install" => msg'[Handler] = msg[Handler]
      BY <1>0, <3>1, <3>2, MoveFacts
    <3>4. pc'[Handler] # "quota"
      BY <1>0, <3>1, <3>2, MoveFacts
    <3> QED
      BY <2>0, <3>1, <3>3, <3>4 DEF Verified
  <2>4. CASE InstallBan(t) \/ InstallUnban(t) \/ InstallRevoke(t)
    <3>1. pc'[t] = "save"
      BY <2>4 DEF InstallBan, InstallUnban, InstallRevoke, Owe, Goto, ModTypes, ThreadsTyped
    <3>2. t = Handler
      BY <2>0, <2>4, BesideHandler DEF InstallBan, InstallUnban, InstallRevoke
    <3> QED
      BY <3>1, <3>2
  <2>5. CASE Snapshot(t) \/ Write(t) \/ Record(t)
    <3>1. revoked' = revoked
      BY <2>5 DEF Snapshot, Write, Record, memVars
    <3>2. CASE t = Handler
      <4>1. pc'[t] \in {"save", "write", "idle"}
        BY <2>5 DEF Snapshot, Write, Record, Saving, Goto, Drop, ModTypes, ThreadsTyped
      <4> QED
        BY <3>2, <4>1
    <3>3. CASE t # Handler
      <4>1. pc'[Handler] = pc[Handler] /\ msg'[Handler] = msg[Handler]
        BY <1>0, <2>5, <3>3 DEF Snapshot, Write, Record, Saving, Goto, Drop, ModTypes, ThreadsTyped
      <4> QED
        BY <1>1, <2>0, <3>1, <4>1
    <3> QED
      BY <3>2, <3>3
  <2> QED
    BY <1>4, <2>1, <2>2, <2>3, <2>4, <2>5 DEF Handle
<1>5. CASE Cleanup \/ SaveRates
  <2>1. pc'[Handler] = pc[Handler] /\ msg' = msg /\ revoked' = revoked /\ scene' = scene
    BY <1>0, <1>5, ModerationAssumption DEF Cleanup, SaveRates, Owe, Goto, logVars, ModTypes, ThreadsTyped
  <2> QED
    BY <1>1, <2>1
<1>6. CASE Restart \/ Crash
  <2>1. pc'[Handler] = "idle"
    BY <1>0, <1>6, TypesRestart, TypesCrash
  <2> QED
    BY <2>1
<1>7. CASE UNCHANGED vars
  BY <1>1, <1>7 DEF vars, memVars, thrVars, logVars
<1> QED
  BY <1>2, <1>3, <1>4, <1>5, <1>6, <1>7 DEF Next

\* The bans in force now.
LEMMA ForceIs == \A bs : ActiveBans(bs) = InForce(bs, clock)
BY DEF ActiveBans, Active, InForce

\* Only the handler changes the bans and the watermarks, where it is alone.
LEMMA StaleNext == ModTypes /\ FilesFollow /\ NoneStale /\ [Next]_vars => NoneStale'
<1> SUFFICES ASSUME ModTypes, FilesFollow, NoneStale, [Next]_vars, crashes' = 0, Alone'
             PROVE  /\ \A p \in Peers : bans'[p] # NoBan => bans'[p].at > mark'[p]
                    /\ pc'[Handler] \in {"verify", "quota", "install"} /\ msg'[Handler].type = "ban"
                           => msg'[Handler].at > mark'[msg'[Handler].subject]
  BY DEF NoneStale
<1> DEFINE Lifted == \A p \in Peers : bans'[p] # NoBan => bans'[p].at > mark'[p]
           Coming == pc'[Handler] \in {"verify", "quota", "install"} /\ msg'[Handler].type = "ban"
                         => msg'[Handler].at > mark'[msg'[Handler].subject]
<1>0. Handler \in Threads /\ Handler # Cleaner /\ Handler # RateSaver
  BY ModerationAssumption DEF Threads
<1>1. CASE /\ pc'[Handler] = pc[Handler] /\ msg'[Handler] = msg[Handler]
           /\ bans' = bans /\ mark' = mark /\ scene' = scene /\ crashes' = crashes
  BY <1>1 DEF NoneStale, Alone, Unused
<1>2. CASE Tick
  BY <1>1, <1>2 DEF Tick, memVars, thrVars, logVars
<1>3. CASE Issue
  <2>1. Issued
    BY <1>3, IssueForm
  <2> QED
    BY <1>1, <2>1 DEF Issued
<1>4. ASSUME NEW t \in Threads, Handle(t) PROVE Lifted /\ Coming
  <2>0. scene' = scene /\ Alone /\ Unused /\ crashes = 0
    <3>1. scene' = scene /\ crashes' = crashes
      BY <1>4 DEF Handle, TakeBan, TakeUnban, TakeRevoke, Take, Verify, Quota, InstallBan, InstallUnban,
         InstallRevoke, Snapshot, Write, Record, logVars
    <3> QED
      BY <3>1 DEF Alone, Unused
  <2>1. /\ \A p \in Peers : bans[p] # NoBan => bans[p].at > mark[p]
        /\ pc[Handler] \in {"verify", "quota", "install"} /\ msg[Handler].type = "ban"
               => msg[Handler].at > mark[msg[Handler].subject]
    BY <2>0 DEF NoneStale
  <2>2. ASSUME NEW m \in net, TakeBan(t, m) \/ TakeUnban(t, m) \/ TakeRevoke(t, m) PROVE Lifted /\ Coming
    <3>1. PICK place \in {"verify", "install"} : Take(t, m, place)
      BY <2>2 DEF TakeBan, TakeUnban, TakeRevoke
    <3>2. t = Handler
      BY <2>0, <3>1, BesideHandler
    <3>3. msg'[Handler] = m /\ bans' = bans /\ mark' = mark
      BY <1>0, <3>1, <3>2 DEF Take, ModTypes, ThreadsTyped
    <3>4. m.type = "ban" => m.at > mark[m.subject]
      BY <2>2 DEF TakeBan, TakeUnban, TakeRevoke
    <3> QED
      BY <2>1, <3>3, <3>4
  <2>3. CASE Verify(t)
    <3>1. t = Handler /\ bans' = bans /\ mark' = mark /\ pc[t] = "verify"
      BY <2>0, <2>3, BesideHandler DEF Verify, memVars
    <3>2. pc'[Handler] = "idle" \/ msg'[Handler] = msg[Handler]
      BY <1>0, <2>3, <3>1 DEF Verify, Drop, Goto, ModTypes, ThreadsTyped
    <3> QED
      BY <2>1, <3>1, <3>2
  <2>4. CASE Quota(t)
    <3>1. t = Handler /\ bans' = bans /\ mark' = mark /\ pc[t] = "quota"
      BY <2>0, <2>4, BesideHandler DEF Quota
    <3>2. pc'[Handler] = "idle" \/ msg'[Handler] = msg[Handler]
      BY <1>0, <2>4, <3>1 DEF Quota, Drop, Goto, ModTypes, ThreadsTyped
    <3> QED
      BY <2>1, <3>1, <3>2
  <2>5. ASSUME pc[t] = "install", pc' = [pc EXCEPT ![t] = "save"] PROVE t = Handler /\ Coming
    <3>1. t = Handler
      BY <2>0, <2>5, BesideHandler
    <3>2. pc'[Handler] = "save"
      BY <1>0, <2>5, <3>1 DEF ModTypes, ThreadsTyped
    <3> QED
      BY <3>1, <3>2
  <2>6. CASE InstallBan(t)
    <3>1. t = Handler /\ Coming /\ mark' = mark /\ msg[t].type = "ban" /\ pc[t] = "install"
      BY <2>5, <2>6 DEF InstallBan, Owe, Goto
    <3>2. msg[t].at > mark[msg[t].subject]
      BY <2>1, <3>1
    <3>3. ASSUME NEW p \in Peers, bans'[p] # NoBan PROVE bans'[p].at > mark'[p]
      <4>1. CASE p = msg[t].subject
        <5>1. bans'[p].at = msg[t].at
          BY <2>6, <4>1 DEF InstallBan, ModTypes, MemTyped
        <5> QED
          BY <3>1, <3>2, <4>1, <5>1
      <4>2. CASE p # msg[t].subject
        <5>1. bans'[p] = bans[p]
          BY <2>6, <4>2 DEF InstallBan, ModTypes, MemTyped
        <5> QED
          BY <2>1, <3>1, <3>3, <5>1
      <4> QED
        BY <4>1, <4>2
    <3> QED
      BY <3>1, <3>3
  <2>7. CASE InstallUnban(t)
    <3>1. t = Handler /\ Coming
      BY <2>5, <2>7 DEF InstallUnban, Owe, Goto
    <3>2. ASSUME NEW p \in Peers, bans'[p] # NoBan PROVE bans'[p].at > mark'[p]
      <4>1. p # msg[t].subject
        BY <2>7, <3>2 DEF InstallUnban, ModTypes, MemTyped
      <4>2. bans'[p] = bans[p] /\ mark'[p] = mark[p]
        BY <2>7, <4>1 DEF InstallUnban, ModTypes, MemTyped
      <4> QED
        BY <2>1, <3>2, <4>2
    <3> QED
      BY <3>1, <3>2
  <2>8. CASE InstallRevoke(t)
    <3>1. Coming /\ bans' = bans /\ mark' = mark
      BY <2>5, <2>8 DEF InstallRevoke, Owe, Goto
    <3> QED
      BY <2>1, <3>1
  <2>9. CASE Snapshot(t) \/ Write(t) \/ Record(t)
    <3>1. bans' = bans /\ mark' = mark
      BY <2>9 DEF Snapshot, Write, Record, memVars
    <3>2. CASE t = Handler
      <4>1. pc'[Handler] \in {"save", "write", "idle"}
        BY <2>9, <3>2 DEF Snapshot, Write, Record, Saving, Goto, Drop, ModTypes, ThreadsTyped
      <4> QED
        BY <2>1, <3>1, <4>1
    <3>3. CASE t # Handler
      <4>1. pc'[Handler] = pc[Handler] /\ msg'[Handler] = msg[Handler]
        BY <1>0, <2>9, <3>3 DEF Snapshot, Write, Record, Saving, Goto, Drop, ModTypes, ThreadsTyped
      <4> QED
        BY <2>1, <3>1, <4>1
    <3> QED
      BY <3>2, <3>3
  <2> QED
    BY <1>4, <2>2, <2>3, <2>4, <2>6, <2>7, <2>8, <2>9 DEF Handle
<1>5. CASE Cleanup
  BY <1>5 DEF Cleanup, logVars, Alone
<1>6. CASE SaveRates
  <2>1. /\ pc'[Handler] = pc[Handler] /\ msg'[Handler] = msg[Handler]
        /\ bans' = bans /\ mark' = mark /\ scene' = scene /\ crashes' = crashes
    BY <1>0, <1>6 DEF SaveRates, Owe, Goto, logVars, ModTypes, ThreadsTyped
  <2> QED
    BY <1>1, <2>1
<1>7. CASE Restart
  <2>1. Alone /\ crashes = 0 /\ pc'[Handler] = "idle"
    BY <1>0, <1>7, TypesRestart DEF Restart, logVars, Alone, Unused
  <2>2. todo[Handler] = <<>>
    BY <1>0, <1>7, Keeps DEF Restart, Free, Fits
  <2>3. Bans(disk) /\ disk.mark = mark
    <3>1. <<>> \notin {<<"mark", "bans", "log">>, <<"bans", "log">>, <<"mark">>}
      OBVIOUS
    <3> QED
      BY <2>1, <2>2, <3>1 DEF FilesFollow, Follow
  <2>4. DiskAtStop.bans = disk.bans /\ DiskAtStop.mark = disk.mark
    BY DEF DiskAtStop, ModTypes, FileStates
  <2>5. bans' = ActiveBans(bans) /\ mark' = mark
    <3>1. ActiveBans(disk.bans) = ActiveBans(bans)
      BY <2>3, ForceIs DEF Bans
    <3> QED
      BY <1>7, <2>3, <2>4, <3>1 DEF Restart, Load
  <2>6. \A p \in Peers : bans'[p] # NoBan => bans'[p] = bans[p]
    BY <2>5 DEF ActiveBans
  <2> QED
    BY <2>1, <2>5, <2>6 DEF NoneStale
<1>8. CASE Crash
  BY <1>8 DEF Crash, ModTypes, EnvTyped
<1>9. CASE UNCHANGED vars
  BY <1>1, <1>9 DEF vars, memVars, thrVars, logVars
<1> QED
  BY <1>2, <1>3, <1>4, <1>5, <1>6, <1>7, <1>8, <1>9 DEF Next

-----------------------------------------------------------------------------
(* The files. *)

\* Bans in force are all in force, and lists that agree on what is in force
\* agree later.
LEMMA ForceTwice ==
    ASSUME NEW bs \in [Peers -> BanRecords], NEW c
    PROVE  InForce(InForce(bs, c), c) = InForce(bs, c)
BY DEF InForce

LEMMA ForceLater ==
    ASSUME NEW x \in [Peers -> BanRecords], NEW y \in [Peers -> BanRecords], NEW c \in Int,
           InForce(x, c) = InForce(y, c)
    PROVE  InForce(x, c + 1) = InForce(y, c + 1)
<1> SUFFICES ASSUME NEW p \in Peers PROVE InForce(x, c + 1)[p] = InForce(y, c + 1)[p]
  BY DEF InForce
<1>1. InForce(x, c)[p] = InForce(y, c)[p]
  OBVIOUS
<1>2. x[p].until \in Int /\ y[p].until \in Int
  BY DEF BanRecords
<1>3. c + 1 < x[p].until => c < x[p].until
  BY <1>2
<1>4. c + 1 < y[p].until => c < y[p].until
  BY <1>2
<1>5. InForce(x, c + 1)[p] = IF InForce(x, c)[p] # NoBan /\ (x[p].until = NoTime \/ c + 1 < x[p].until) THEN x[p] ELSE NoBan
  BY <1>3 DEF InForce
<1>6. InForce(y, c + 1)[p] = IF InForce(y, c)[p] # NoBan /\ (y[p].until = NoTime \/ c + 1 < y[p].until) THEN y[p] ELSE NoBan
  BY <1>4 DEF InForce
<1>7. InForce(x, c)[p] # NoBan => InForce(x, c)[p] = x[p] /\ InForce(y, c)[p] = y[p]
  BY <1>1 DEF InForce
<1> QED
  BY <1>1, <1>5, <1>6, <1>7

\* Nothing that FilesFollow is about changes.
LEMMA FollowSame ==
    ASSUME FilesFollow, UNCHANGED <<scene, clock, bans, mark, revoked, history>>,
           todo'[Handler] = todo[Handler], snap'[Handler] = snap[Handler],
           pc'[Handler] = "write" <=> pc[Handler] = "write",
           disk'.bans = disk.bans, disk'.mark = disk.mark, disk'.revoked = disk.revoked,
           disk'.history = disk.history
    PROVE  FilesFollow'
BY DEF FilesFollow, Follow, Bans, Alone, Unused

\* Nor does anything else that the files hold.
LEMMA FollowTick == ModTypes /\ FilesFollow /\ Tick => FilesFollow'
<1> SUFFICES ASSUME ModTypes, FilesFollow, Tick, Alone PROVE Follow(todo[Handler], pc[Handler] = "write", snap[Handler], disk)'
  BY DEF FilesFollow, Alone, Unused, Tick, logVars
<1>0. /\ UNCHANGED <<bans, mark, revoked, history, disk, pc, todo, snap>> /\ clock' = clock + 1 /\ clock \in Int
      /\ Handler \in Threads
  BY DEF Tick, memVars, thrVars, ModTypes, EnvTyped, Time, Threads
<1>1. Follow(todo[Handler], pc[Handler] = "write", snap[Handler], disk)
  BY DEF FilesFollow
<1>2. /\ bans \in [Peers -> BanRecords] /\ disk.bans \in [Peers -> BanRecords]
      /\ snap[Handler].bans \in [Peers -> BanRecords]
  BY <1>0 DEF ModTypes, MemTyped, ThreadsTyped, FileStates
<1>3. Bans(disk) => Bans(disk)'
  BY <1>0, <1>2, ForceLater DEF Bans
<1>4. Bans(snap[Handler]) => Bans(snap[Handler])'
  BY <1>0, <1>2, ForceLater DEF Bans
<1> QED
  BY <1>0, <1>1, <1>3, <1>4 DEF Follow

\* The handler's own steps.  What it owes is always one of these.
LEMMA OwedTuples ==
    /\ <<>> \notin {<<"mark", "bans", "log">>, <<"bans", "log">>, <<"log">>, <<"history">>, <<"mark">>, <<"revoked">>}
    /\ <<"mark", "bans", "log">> \notin {<<"bans", "log">>, <<"log">>, <<"history">>, <<"mark">>, <<"revoked">>}
    /\ <<"bans", "log">> \notin {<<"log">>, <<"history">>, <<"mark">>, <<"revoked">>}
    /\ <<"log">> \notin {<<"history">>, <<"mark">>, <<"revoked">>}
    /\ <<"history">> \notin {<<"mark">>, <<"revoked">>}
    /\ <<"mark">> # <<"revoked">>
OBVIOUS

LEMMA FollowInstall ==
    ASSUME ModTypes, FilesFollow, Unused, NEW t \in Threads, InstallBan(t) \/ InstallUnban(t) \/ InstallRevoke(t)
    PROVE  FilesFollow'
<1> SUFFICES ASSUME Alone PROVE Follow(todo[Handler], pc[Handler] = "write", snap[Handler], disk)'
  BY DEF FilesFollow, Alone, Unused, InstallBan, InstallUnban, InstallRevoke, logVars
<1>0. Handler \in Threads /\ pc[t] = "install"
  BY DEF Threads, InstallBan, InstallUnban, InstallRevoke
<1>1. t = Handler /\ todo[t] = <<>>
  BY <1>0, BesideHandler, Installing
<1>2. Follow(<<>>, pc[Handler] = "write", snap[Handler], disk)
  BY <1>1 DEF FilesFollow
<1>3. Bans(disk) /\ disk.mark = mark /\ disk.revoked = revoked /\ disk.history = history
  BY <1>2, OwedTuples DEF Follow
<1>4. UNCHANGED <<disk, clock, history>>
  BY DEF InstallBan, InstallUnban, InstallRevoke, envVars
<1>5. CASE InstallBan(t)
  <2>1. pc'[Handler] = "save" /\ todo'[Handler] = <<"bans", "log">>
    BY <1>0, <1>1, <1>5, TypesInstallBan, MoveFacts
  <2>2. UNCHANGED <<mark, revoked>>
    BY <1>5 DEF InstallBan
  <2> QED
    BY <1>3, <1>4, <2>1, <2>2, OwedTuples DEF Follow
<1>6. CASE InstallUnban(t)
  <2>1. PICK owed \in {<<"mark">>, <<"mark", "bans", "log">>} :
               /\ Moves(t, "save", msg[t], owed, snap[t])
               /\ owed = <<"mark">> <=> bans[msg[t].subject] = NoBan
    BY <1>6, TypesInstallUnban
  <2>2. pc'[Handler] = "save" /\ todo'[Handler] = owed
    BY <1>0, <1>1, <2>1, MoveFacts
  <2>3. UNCHANGED revoked
    BY <1>6 DEF InstallUnban
  <2>4. CASE owed = <<"mark">>
    <3>1. bans[msg[t].subject] = NoBan
      BY <2>1, <2>4
    <3>2. bans' = bans
      BY <1>6, <3>1 DEF InstallUnban, ModTypes, MemTyped
    <3>3. Bans(disk)'
      BY <1>3, <1>4, <3>2 DEF Bans
    <3> QED
      BY <1>3, <1>4, <2>2, <2>3, <2>4, <3>3, OwedTuples DEF Follow
  <2>5. CASE owed = <<"mark", "bans", "log">>
    BY <1>3, <1>4, <2>2, <2>3, <2>5, OwedTuples DEF Follow
  <2> QED
    BY <2>4, <2>5
<1>7. CASE InstallRevoke(t)
  <2>1. pc'[Handler] = "save" /\ todo'[Handler] = <<"revoked">>
    BY <1>0, <1>1, <1>7, TypesInstallRevoke, MoveFacts
  <2>2. UNCHANGED <<bans, mark>>
    BY <1>7 DEF InstallRevoke
  <2>3. Bans(disk)'
    BY <1>3, <1>4, <2>2 DEF Bans
  <2> QED
    BY <1>3, <1>4, <2>1, <2>2, <2>3, OwedTuples DEF Follow
<1> QED
  BY <1>5, <1>6, <1>7

\* What can be left to save, one by one.
LEMMA HandlerPlans ==
    ASSUME ModTypes
    PROVE  todo[Handler] \in {<<>>, <<"mark", "bans", "log">>, <<"bans", "log">>, <<"log">>, <<"history">>, <<"mark">>, <<"revoked">>}
<1>1. Fits(Handler, pc[Handler], msg[Handler], todo[Handler])
  BY Keeps DEF Threads
<1> QED
  BY <1>1, ModerationAssumption DEF Fits, Plans

LEMMA HeadsOfPlans ==
    /\ Head(<<"mark", "bans", "log">>) = "mark" /\ Tail(<<"mark", "bans", "log">>) = <<"bans", "log">>
    /\ Head(<<"bans", "log">>) = "bans" /\ Tail(<<"bans", "log">>) = <<"log">>
    /\ \A x : Head(<<x>>) = x /\ Tail(<<x>>) = <<>>
OBVIOUS

LEMMA FollowSnapshot ==
    ASSUME ModTypes, FilesFollow, Unused, NEW t \in Threads, Snapshot(t)
    PROVE  FilesFollow'
<1> SUFFICES ASSUME Alone PROVE Follow(todo[Handler], pc[Handler] = "write", snap[Handler], disk)'
  BY DEF FilesFollow, Alone, Unused, Snapshot, logVars
<1> DEFINE h == Head(todo[t])
           copy == [NoSnap EXCEPT ![h] = Memory[h]]
<1>0. /\ Handler \in Threads
      /\ UNCHANGED <<scene, clock, bans, mark, revoked, history, disk>>
      /\ h \in Saved /\ Moves(t, "write", msg[t], todo[t], copy)
  BY TypesSnapshot DEF Threads, Snapshot, memVars, envVars, logVars
<1>1. CASE t # Handler
  <2>1. pc'[Handler] = pc[Handler] /\ todo'[Handler] = todo[Handler] /\ snap'[Handler] = snap[Handler]
    BY <1>0, <1>1, MoveFacts
  <2>2. FilesFollow'
    BY <1>0, <2>1, FollowSame
  <2> QED
    BY <1>0, <2>2 DEF FilesFollow, Alone, Unused
<1>2. CASE t = Handler
  <2>1. todo'[Handler] = todo[Handler] /\ snap'[Handler] = copy
    BY <1>0, <1>2, MoveFacts
  <2>2. /\ copy.bans = (IF h = "bans" THEN Memory.bans ELSE NoSnap.bans)
        /\ copy.mark = (IF h = "mark" THEN Memory.mark ELSE NoSnap.mark)
        /\ copy.revoked = (IF h = "revoked" THEN Memory.revoked ELSE NoSnap.revoked)
        /\ copy.history = (IF h = "history" THEN Memory.history ELSE NoSnap.history)
    BY <1>0, FileReplaced, MemoryTyped, EmptyDiskTyped
  <2> HIDE DEF copy
  <2>3. h = "bans" => Bans(copy)
    <3>1. bans \in [Peers -> BanRecords]
      BY DEF ModTypes, MemTyped
    <3>2. Memory.bans = InForce(bans, clock)
      BY ForceIs DEF Memory
    <3> QED
      BY <2>2, <3>1, <3>2, ForceTwice DEF Bans
  <2>4. /\ h = "mark" => copy.mark = mark
        /\ h = "revoked" => copy.revoked = revoked
        /\ h = "history" => copy.history = history
    BY <2>2 DEF Memory
  <2>5. Follow(todo[Handler], pc[Handler] = "write", snap[Handler], disk)
    BY DEF FilesFollow
  <2>6. /\ todo[Handler] = <<"bans", "log">> => h = "bans"
        /\ todo[Handler] \in {<<"mark", "bans", "log">>, <<"mark">>} => h = "mark"
        /\ todo[Handler] = <<"revoked">> => h = "revoked"
        /\ todo[Handler] = <<"history">> => h = "history"
    BY <1>2, HeadsOfPlans
  <2>7. Bans(disk)' = Bans(disk) /\ (h = "bans" => InForce(copy.bans, clock') = InForce(bans', clock'))
    BY <1>0, <2>3 DEF Bans
  <2> QED
    BY <1>0, <2>1, <2>4, <2>5, <2>6, <2>7 DEF Follow, Bans
<1> QED
  BY <1>1, <1>2

LEMMA FollowWrite ==
    ASSUME ModTypes, FilesFollow, Unused, NEW t \in Threads, Write(t)
    PROVE  FilesFollow'
<1> SUFFICES ASSUME Alone PROVE Follow(todo[Handler], pc[Handler] = "write", snap[Handler], disk)'
  BY DEF FilesFollow, Alone, Unused, Write, logVars
<1> DEFINE h == Head(todo[t])
<1>0. /\ Handler \in Threads
      /\ UNCHANGED <<scene, clock, bans, mark, revoked, history>>
      /\ h \in Saved /\ disk' = [disk EXCEPT ![h] = snap[t][h]] /\ pc[t] = "write" /\ todo[t] # <<>>
      /\ snap[t] \in FileStates
  BY TypesWrite, Keeps DEF Threads, Write, memVars, envVars, logVars
<1>1. PICK place \in {"idle", "save"}, m \in {msg[t], NoMsg} : Moves(t, place, m, Tail(todo[t]), NoSnap)
  BY TypesWrite
<1>2. /\ disk'.bans = (IF h = "bans" THEN snap[t].bans ELSE disk.bans)
      /\ disk'.mark = (IF h = "mark" THEN snap[t].mark ELSE disk.mark)
      /\ disk'.revoked = (IF h = "revoked" THEN snap[t].revoked ELSE disk.revoked)
      /\ disk'.history = (IF h = "history" THEN snap[t].history ELSE disk.history)
  BY <1>0, FileReplaced DEF ModTypes
<1>3. CASE t # Handler
  <2>1. pc'[Handler] = pc[Handler] /\ todo'[Handler] = todo[Handler] /\ snap'[Handler] = snap[Handler]
    BY <1>0, <1>1, <1>3, MoveFacts
  <2>2. h = "rates"
    <3>1. todo[t] = <<"rates">>
      BY <1>0, <1>3, BesideHandler DEF Alone
    <3> QED
      BY <3>1, HeadsOfPlans
  <2>3. disk'.bans = disk.bans /\ disk'.mark = disk.mark /\ disk'.revoked = disk.revoked /\ disk'.history = disk.history
    BY <1>2, <2>2
  <2>4. FilesFollow'
    BY <1>0, <2>1, <2>3, FollowSame
  <2> QED
    BY <1>0, <2>4 DEF FilesFollow, Alone, Unused
<1>4. CASE t = Handler
  <2>1. pc'[Handler] # "write" /\ todo'[Handler] = Tail(todo[Handler])
    BY <1>0, <1>1, <1>4, MoveFacts
  <2>2. Follow(todo[Handler], TRUE, snap[Handler], disk)
    BY <1>0, <1>4 DEF FilesFollow
  <2>3. /\ h = "bans" => (Bans(snap[Handler]) => Bans(disk)')
        /\ h # "bans" => (Bans(disk) => Bans(disk)')
    BY <1>0, <1>2, <1>4 DEF Bans
  <2>4. CASE todo[Handler] = <<"mark", "bans", "log">>
    <3>1. h = "mark" /\ todo'[Handler] = <<"bans", "log">>
      BY <1>4, <2>1, <2>4, HeadsOfPlans
    <3>2. disk'.mark = mark /\ disk'.revoked = revoked /\ disk'.history = history
      BY <1>2, <1>4, <2>2, <2>4, <3>1, OwedTuples DEF Follow
    <3> QED
      BY <1>0, <2>1, <3>1, <3>2, OwedTuples DEF Follow
  <2>5. CASE todo[Handler] = <<"bans", "log">>
    <3>1. h = "bans" /\ todo'[Handler] = <<"log">>
      BY <1>4, <2>1, <2>5, HeadsOfPlans
    <3>2. disk'.mark = mark /\ disk'.revoked = revoked /\ disk'.history = history
      BY <1>2, <1>4, <2>2, <2>5, <3>1, OwedTuples DEF Follow
    <3>3. Bans(disk)'
      BY <2>2, <2>3, <2>5, <3>1 DEF Follow
    <3> QED
      BY <1>0, <2>1, <3>1, <3>2, <3>3, OwedTuples DEF Follow
  <2>6. CASE todo[Handler] \in {<<"history">>, <<"mark">>, <<"revoked">>}
    <3>1. PICK x \in {"history", "mark", "revoked"} : todo[Handler] = <<x>>
      BY <2>6
    <3>2. h = x /\ todo'[Handler] = <<>>
      BY <1>4, <2>1, <3>1, HeadsOfPlans
    <3>3. disk'.mark = mark /\ disk'.revoked = revoked /\ disk'.history = history
      BY <1>2, <1>4, <2>2, <2>6, <3>1, <3>2, OwedTuples DEF Follow
    <3>4. Bans(disk)'
      BY <2>2, <2>3, <2>6, <3>2, OwedTuples DEF Follow
    <3> QED
      BY <1>0, <2>1, <3>2, <3>3, <3>4, OwedTuples DEF Follow
  <2>7. todo[Handler] # <<>> /\ todo[Handler] # <<"log">>
    <3>1. Fits(Handler, pc[Handler], msg[Handler], todo[Handler])
      BY <1>0, Keeps
    <3> QED
      BY <1>0, <1>4, <3>1 DEF Fits
  <2> QED
    BY <2>4, <2>5, <2>6, <2>7, HandlerPlans
<1> QED
  BY <1>3, <1>4

LEMMA FollowRecord ==
    ASSUME ModTypes, FilesFollow, Unused, NEW t \in Threads, Record(t)
    PROVE  FilesFollow'
<1> SUFFICES ASSUME Alone PROVE Follow(todo[Handler], pc[Handler] = "write", snap[Handler], disk)'
  BY DEF FilesFollow, Alone, Unused, Record, logVars
<1>0. /\ Handler \in Threads
      /\ UNCHANGED <<clock, bans, mark, revoked, disk>>
      /\ pc[t] = "save" /\ todo[t] = <<"log">> /\ Moves(t, "save", msg[t], <<"history">>, snap[t])
  BY TypesRecord DEF Threads, Record, envVars
<1>1. t = Handler
  <2>1. <<"log">> \notin {<<>>, <<"bans">>, <<"rates">>}
    OBVIOUS
  <2> QED
    BY <1>0, <2>1, BesideHandler
<1>2. pc'[Handler] # "write" /\ todo'[Handler] = <<"history">>
  BY <1>0, <1>1, MoveFacts
<1>3. Follow(<<"log">>, pc[Handler] = "write", snap[Handler], disk)
  BY <1>0, <1>1 DEF FilesFollow
<1>4. Bans(disk)' /\ disk.mark = mark /\ disk.revoked = revoked
  <2>1. Bans(disk) /\ disk.mark = mark /\ disk.revoked = revoked
    BY <1>3, OwedTuples DEF Follow
  <2> QED
    BY <1>0, <2>1 DEF Bans
<1> QED
  BY <1>0, <1>2, <1>4, OwedTuples DEF Follow

\* What is loaded is what the files hold.
LEMMA FollowLoad ==
    ASSUME ModTypes, Restart \/ Crash
    PROVE  FilesFollow'
<1> SUFFICES Follow(todo[Handler], pc[Handler] = "write", snap[Handler], disk)'
  BY DEF FilesFollow
<1>1. pc'[Handler] = "idle" /\ todo'[Handler] = <<>>
  BY TypesRestart, TypesCrash DEF Threads
<1>2. disk' \in FileStates /\ Load(disk') /\ clock' = clock
  BY TypesRestart, TypesCrash DEF Restart, Crash, envVars, ModTypes
<1>3. bans' = InForce(disk'.bans, clock')
  BY <1>2, ForceIs DEF Load
<1>4. InForce(bans', clock') = InForce(disk'.bans, clock')
  <2>1. disk'.bans \in [Peers -> BanRecords]
    BY <1>2 DEF FileStates
  <2> QED
    BY <1>3, <2>1, ForceTwice
<1>5. mark' = disk'.mark /\ revoked' = disk'.revoked /\ history' = disk'.history
  BY <1>2 DEF Load
<1> QED
  BY <1>1, <1>4, <1>5 DEF Follow, Bans

LEMMA FilesNext == ModTypes /\ FilesFollow /\ [Next]_vars => FilesFollow'
<1> SUFFICES ASSUME ModTypes, FilesFollow, [Next]_vars PROVE FilesFollow'
  OBVIOUS
<1>0. Handler \in Threads /\ Handler # Cleaner /\ Handler # RateSaver
  BY ModerationAssumption DEF Threads
<1>1. CASE Tick
  BY <1>1, FollowTick
<1>2. CASE Issue
  <2>1. Issued
    BY <1>2, IssueForm
  <2> QED
    BY <2>1, FollowSame DEF Issued
<1>3. ASSUME NEW t \in Threads, Handle(t) PROVE FilesFollow'
  <2>0. SUFFICES ASSUME Unused PROVE FilesFollow'
    <3>1. scene' = scene
      BY <1>3 DEF Handle, TakeBan, TakeUnban, TakeRevoke, Take, Verify, Quota, InstallBan, InstallUnban,
         InstallRevoke, Snapshot, Write, Record, logVars
    <3> QED
      BY <3>1 DEF FilesFollow, Alone, Unused
  <2>1. ASSUME NEW m \in net, TakeBan(t, m) \/ TakeUnban(t, m) \/ TakeRevoke(t, m) PROVE FilesFollow'
    <3>1. PICK place \in {"verify", "install"} : Take(t, m, place)
      BY <2>1 DEF TakeBan, TakeUnban, TakeRevoke
    <3>2. /\ UNCHANGED <<scene, clock, bans, mark, revoked, history, disk, todo, snap>>
          /\ pc[t] = "idle" /\ pc' = [pc EXCEPT ![t] = place]
      BY <3>1 DEF Take, Free, Goto, envVars, logVars
    <3>3. pc'[Handler] = "write" <=> pc[Handler] = "write"
      BY <1>0, <3>2 DEF ModTypes, ThreadsTyped
    <3> QED
      BY <3>2, <3>3, FollowSame
  <2>2. CASE Verify(t) \/ Quota(t)
    <3>1. /\ UNCHANGED <<scene, clock, bans, mark, revoked, history, disk, todo, snap>>
          /\ pc[t] \in {"verify", "quota"}
      BY <2>2 DEF Verify, Quota, envVars, logVars, memVars
    <3>2. \E place \in {"idle", "quota", "install"} : pc' = [pc EXCEPT ![t] = place]
      BY <2>2 DEF Verify, Quota, Goto, Drop
    <3>3. pc'[Handler] = "write" <=> pc[Handler] = "write"
      BY <1>0, <3>1, <3>2 DEF ModTypes, ThreadsTyped
    <3> QED
      BY <3>1, <3>3, FollowSame
  <2>3. CASE InstallBan(t) \/ InstallUnban(t) \/ InstallRevoke(t)
    BY <2>0, <2>3, FollowInstall
  <2>4. CASE Snapshot(t)
    BY <2>0, <2>4, FollowSnapshot
  <2>5. CASE Write(t)
    BY <2>0, <2>5, FollowWrite
  <2>6. CASE Record(t)
    BY <2>0, <2>6, FollowRecord
  <2> QED
    BY <1>3, <2>1, <2>2, <2>3, <2>4, <2>5, <2>6 DEF Handle
<1>4. CASE Cleanup
  BY <1>4 DEF Cleanup, FilesFollow, Alone, Unused, logVars
<1>5. CASE SaveRates
  <2>1. UNCHANGED <<scene, clock, bans, mark, revoked, history, disk, snap>>
    BY <1>5 DEF SaveRates, envVars, logVars
  <2>2. pc'[Handler] = pc[Handler] /\ todo'[Handler] = todo[Handler]
    BY <1>0, <1>5, TypesSaveRates, MoveFacts DEF Threads
  <2> QED
    BY <2>1, <2>2, FollowSame
<1>6. CASE Restart \/ Crash
  BY <1>6, FollowLoad
<1>7. CASE UNCHANGED vars
  BY <1>7, FollowSame DEF vars, envVars, memVars, thrVars, logVars
<1> QED
  BY <1>1, <1>2, <1>3, <1>4, <1>5, <1>6, <1>7 DEF Next

-----------------------------------------------------------------------------
(* The quota. *)

\* What has left the window makes no difference.
LEMMA FreshCovers ==
    ASSUME clock \in Time, NEW r \in [Keys -> Times], Covers(r)
    PROVE  Covers([k \in Keys |-> Fresh(r[k])])
<1> SUFFICES ASSUME NEW k \in Keys, NEW c \in (-RateWindow)..MaxTime, c >= clock - RateWindow
             PROVE  Later(acted[k], c) <= Later(Fresh(r[k]), c)
  BY DEF Covers, Covering
<1>1. c \in Int
  BY ModerationAssumption
<1>2. r[k] \in Seq(Time)
  BY DEF Times
<1>3. Later(Fresh(r[k]), c) = Later(r[k], c)
  BY <1>1, <1>2, FreshCounts
<1> QED
  BY <1>3 DEF Covers, Covering

\* Time passes: fewer actions count.
LEMMA LaterCovers ==
    ASSUME NEW done, NEW r, NEW now \in Int, Covering(done, r, now)
    PROVE  Covering(done, r, now + 1)
<1> SUFFICES ASSUME NEW k \in Keys, NEW c \in (-RateWindow)..MaxTime, c >= (now + 1) - RateWindow
             PROVE  Later(done[k], c) <= Later(r[k], c)
  BY DEF Covering
<1>1. c >= now - RateWindow
  BY ModerationAssumption
<1> QED
  BY <1>1 DEF Covering

\* An action within the quota is added to both lists.
LEMMA QuotaCovers ==
    ASSUME ModTypes, Covers(rates), NEW j \in Keys,
           rates' = [rates EXCEPT ![j] = Append(Fresh(rates[j]), clock)],
           acted' = [acted EXCEPT ![j] = Noted(acted[j])], clock' = clock
    PROVE  Covers(rates)'
<1> SUFFICES ASSUME NEW k \in Keys, NEW c \in (-RateWindow)..MaxTime, c >= clock - RateWindow
             PROVE  Later(acted'[k], c) <= Later(rates'[k], c)
  BY DEF Covers, Covering
<1>0. /\ c \in Int /\ clock \in Time /\ clock \in Int
      /\ \A i \in Keys : acted[i] \in Seq(Time) /\ rates[i] \in Seq(Time)
  BY ModerationAssumption DEF ModTypes, EnvTyped, MemTyped, Times, Time
<1>1. Later(acted[k], c) <= Later(rates[k], c)
  BY DEF Covers, Covering
<1>2. CASE k # j
  BY <1>1, <1>2 DEF ModTypes, EnvTyped, MemTyped
<1>3. CASE k = j
  <2> DEFINE a == acted[k]
             r == rates[k]
             n == IF clock > c THEN 1 ELSE 0
  <2>1. acted'[k] = Noted(a) /\ rates'[k] = Append(Fresh(r), clock)
    BY <1>3 DEF ModTypes, EnvTyped, MemTyped
  <2>2. /\ Fresh(a) \in Seq(Time) /\ Fresh(r) \in Seq(Time)
        /\ Later(Fresh(a), c) = Later(a, c) /\ Later(Fresh(r), c) = Later(r, c)
    BY <1>0, FreshCounts
  <2>3. /\ Later(Append(Fresh(a), clock), c) = Later(Fresh(a), c) + n
        /\ Later(Append(Fresh(r), clock), c) = Later(Fresh(r), c) + n
    BY <1>0, <2>2, LaterCounts
  <2>4. Later(a, c) \in Nat /\ Later(r, c) \in Nat /\ Later(a, c) <= Later(r, c) /\ n \in {0, 1}
    BY <1>0, <1>1, LaterCounts
  <2> HIDE DEF a, r, n
  <2>5. Later(Noted(a), c) \in {Later(a, c), Later(a, c) + n}
    <3>1. Noted(a) \in {Fresh(a), Append(Fresh(a), clock)}
      BY DEF Noted
    <3> QED
      BY <2>2, <2>3, <3>1
  <2>6. Later(rates'[k], c) = Later(r, c) + n
    BY <2>1, <2>2, <2>3
  <2>7. Later(acted'[k], c) \in {Later(a, c), Later(a, c) + n}
    BY <2>1, <2>5
  <2> QED
    BY <2>4, <2>6, <2>7
<1> QED
  BY <1>2, <1>3

\* Nothing that QuotaKept is about changes.
LEMMA QuotaSame ==
    ASSUME QuotaKept, UNCHANGED <<clock, acted, crashes, rates, ratesDirty>>,
           todo'[RateSaver] = todo[RateSaver], snap'[RateSaver] = snap[RateSaver],
           pc'[RateSaver] = "write" <=> pc[RateSaver] = "write",
           disk'.rates = disk.rates
    PROVE  QuotaKept'
BY DEF QuotaKept, Covers

LEMMA QuotaNext == ModTypes /\ QuotaKept /\ [Next]_vars => QuotaKept'
<1> SUFFICES ASSUME ModTypes, QuotaKept, [Next]_vars, crashes' = 0 PROVE QuotaKept'
  BY DEF QuotaKept
<1>0. /\ RateSaver \in Threads /\ RateSaver # Handler /\ RateSaver # Cleaner
      /\ clock \in Time /\ clock \in Int /\ rates \in [Keys -> Times]
  BY ModerationAssumption DEF Threads, ModTypes, EnvTyped, MemTyped, Time
<1>1. CASE Tick
  <2>1. /\ UNCHANGED <<acted, crashes, rates, ratesDirty, todo, snap, pc, disk>> /\ clock' = clock + 1
    BY <1>1 DEF Tick, memVars, thrVars, logVars
  <2>2. \A r : Covers(r) => Covering(acted, r, clock + 1)
    BY <1>0, LaterCovers DEF Covers
  <2> QED
    BY <2>1, <2>2 DEF QuotaKept, Covers
<1>2. CASE Issue
  <2>1. Issued
    BY <1>2, IssueForm
  <2> QED
    BY <2>1, QuotaSame DEF Issued
<1>3. ASSUME NEW t \in Threads, Handle(t) PROVE QuotaKept'
  <2>1. ASSUME NEW m \in net, TakeBan(t, m) \/ TakeUnban(t, m) \/ TakeRevoke(t, m) PROVE QuotaKept'
    <3>1. PICK place \in {"verify", "install"} : Take(t, m, place)
      BY <2>1 DEF TakeBan, TakeUnban, TakeRevoke
    <3>2. /\ UNCHANGED <<clock, acted, crashes, rates, ratesDirty, disk, todo, snap>>
          /\ pc[t] = "idle" /\ pc' = [pc EXCEPT ![t] = place]
      BY <3>1 DEF Take, Free, Goto, envVars, logVars
    <3>3. pc'[RateSaver] = "write" <=> pc[RateSaver] = "write"
      BY <1>0, <3>2 DEF ModTypes, ThreadsTyped
    <3> QED
      BY <3>2, <3>3, QuotaSame
  <2>2. CASE Verify(t)
    <3>1. /\ UNCHANGED <<clock, acted, crashes, rates, ratesDirty, disk, todo, snap>> /\ pc[t] = "verify"
      BY <2>2 DEF Verify, envVars, logVars, memVars
    <3>2. \E place \in {"idle", "quota"} : pc' = [pc EXCEPT ![t] = place]
      BY <2>2 DEF Verify, Goto, Drop
    <3>3. pc'[RateSaver] = "write" <=> pc[RateSaver] = "write"
      BY <1>0, <3>1, <3>2 DEF ModTypes, ThreadsTyped
    <3> QED
      BY <3>1, <3>3, QuotaSame
  <2>3. CASE Quota(t)
    <3>1. /\ UNCHANGED <<clock, crashes, disk, todo, snap>> /\ pc[t] = "quota" /\ msg[t].by \in Keys
      BY <2>3, TypesQuota DEF Quota, envVars
    <3>2. CASE UNCHANGED <<rates, ratesDirty, acted>>
      <4>1. \E place \in {"idle", "install"} : pc' = [pc EXCEPT ![t] = place]
        BY <2>3 DEF Quota, Goto, Drop
      <4>2. pc'[RateSaver] = "write" <=> pc[RateSaver] = "write"
        BY <1>0, <3>1, <4>1 DEF ModTypes, ThreadsTyped
      <4> QED
        BY <3>1, <3>2, <4>2, QuotaSame
    <3>3. CASE /\ rates' = [rates EXCEPT ![msg[t].by] = Append(Fresh(rates[msg[t].by]), clock)]
               /\ acted' = [acted EXCEPT ![msg[t].by] = Noted(acted[msg[t].by])]
               /\ ratesDirty' = TRUE
      <4>1. Covers(rates)
        BY <3>1 DEF QuotaKept
      <4>2. Covers(rates)'
        BY <3>1, <3>3, <4>1, QuotaCovers
      <4> QED
        BY <3>3, <4>2 DEF QuotaKept
    <3> QED
      BY <2>3, <3>2, <3>3, TypesQuota
  <2>4. ASSUME pc[t] = "install", pc' = [pc EXCEPT ![t] = "save"], NEW owed, todo' = [todo EXCEPT ![t] = owed],
               UNCHANGED <<clock, acted, crashes, rates, ratesDirty, disk, snap>>
        PROVE  QuotaKept'
    <3>1. t # RateSaver
      BY <2>4, Installing
    <3>2. pc'[RateSaver] = pc[RateSaver]
      BY <1>0, <2>4, <3>1 DEF ModTypes, ThreadsTyped
    <3>3. PICK P : todo \in [Threads -> P]
      BY DEF ModTypes, ThreadsTyped
    <3>4. todo'[RateSaver] = todo[RateSaver]
      BY <1>0, <2>4, <3>1, <3>3
    <3> QED
      BY <2>4, <3>2, <3>4, QuotaSame
  <2>5. CASE InstallBan(t)
    BY <2>4, <2>5 DEF InstallBan, Owe, Goto, envVars, logVars
  <2>6. CASE InstallUnban(t)
    BY <2>4, <2>6 DEF InstallUnban, Owe, Goto, envVars, logVars
  <2>7. CASE InstallRevoke(t)
    BY <2>4, <2>7 DEF InstallRevoke, Owe, Goto, envVars, logVars
  <2>8. CASE Snapshot(t)
    <3>1. /\ UNCHANGED <<clock, acted, crashes, rates, ratesDirty, disk>> /\ Head(todo[t]) \in Saved
          /\ Moves(t, "write", msg[t], todo[t], [NoSnap EXCEPT ![Head(todo[t])] = Memory[Head(todo[t])]])
      BY <2>8, TypesSnapshot DEF Snapshot, envVars, memVars, logVars
    <3> DEFINE copy == [NoSnap EXCEPT ![Head(todo[t])] = Memory[Head(todo[t])]]
    <3>2. copy.rates = IF Head(todo[t]) = "rates" THEN Memory.rates ELSE NoSnap.rates
      BY <3>1, FileReplaced, MemoryTyped, EmptyDiskTyped
    <3> HIDE DEF copy
    <3>3. \A u \in Threads : /\ pc'[u] = IF u = t THEN "write" ELSE pc[u]
                             /\ todo'[u] = todo[u]
                             /\ snap'[u] = IF u = t THEN copy ELSE snap[u]
      BY <3>1, MoveFacts DEF copy
    <3>4. CASE t = RateSaver
      <4>1. todo[t] = <<"rates">>
        <5>1. Fits(t, pc[t], msg[t], todo[t])
          BY Keeps
        <5> QED
          BY <2>8, <3>4, <5>1, ModerationAssumption DEF Fits, Plans, Snapshot, Saving
      <4>2. copy.rates = [k \in Keys |-> Fresh(rates[k])]
        BY <3>2, <4>1, HeadsOfPlans DEF Memory
      <4>3. Covers(rates)
        BY <3>1 DEF QuotaKept
      <4>4. Covers(copy.rates)
        BY <1>0, <4>2, <4>3, FreshCovers
      <4>5. todo'[RateSaver] # <<>> /\ snap'[RateSaver] = copy
        BY <1>0, <2>8, <3>3, <3>4 DEF Snapshot, Saving
      <4> QED
        BY <3>1, <4>3, <4>4, <4>5 DEF QuotaKept, Covers
    <3>5. CASE t # RateSaver
      BY <1>0, <3>1, <3>3, <3>5, QuotaSame
    <3> QED
      BY <3>4, <3>5
  <2>9. CASE Write(t)
    <3> DEFINE h == Head(todo[t])
    <3>1. /\ UNCHANGED <<clock, acted, crashes, rates, ratesDirty>>
          /\ h \in Saved /\ disk' = [disk EXCEPT ![h] = snap[t][h]] /\ pc[t] = "write" /\ todo[t] # <<>>
          /\ snap[t] \in FileStates
      BY <2>9, TypesWrite, Keeps DEF Write, memVars, envVars, logVars
    <3>2. PICK place \in {"idle", "save"}, m \in {msg[t], NoMsg} : Moves(t, place, m, Tail(todo[t]), NoSnap)
      BY <2>9, TypesWrite
    <3>3. disk'.rates = IF h = "rates" THEN snap[t].rates ELSE disk.rates
      BY <3>1, FileReplaced DEF ModTypes
    <3>4. \A u \in Threads : /\ pc'[u] = IF u = t THEN place ELSE pc[u]
                             /\ todo'[u] = IF u = t THEN Tail(todo[t]) ELSE todo[u]
                             /\ snap'[u] = IF u = t THEN NoSnap ELSE snap[u]
      BY <3>2, MoveFacts
    <3>5. todo[t] \in Plans(t)
      BY Keeps DEF Fits
    <3>6. CASE t = RateSaver
      <4>1. h = "rates" /\ pc'[RateSaver] # "write"
        <5>1. todo[t] = <<"rates">>
          BY <3>1, <3>5, <3>6, ModerationAssumption DEF Plans
        <5> QED
          BY <1>0, <3>4, <3>6, <5>1, HeadsOfPlans
      <4>2. disk'.rates = snap[RateSaver].rates
        BY <3>3, <3>6, <4>1
      <4>3. ~ratesDirty => Covers(snap[RateSaver].rates)
        BY <3>1, <3>6 DEF QuotaKept
      <4>4. Covers(rates)
        BY <3>1 DEF QuotaKept
      <4> QED
        BY <3>1, <4>1, <4>2, <4>3, <4>4 DEF QuotaKept, Covers
    <3>7. CASE t # RateSaver
      <4>1. h # "rates"
        <5>1. todo[t] \in {<<"mark", "bans", "log">>, <<"bans", "log">>, <<"log">>, <<"history">>, <<"mark">>, <<"revoked">>, <<"bans">>}
          BY <3>1, <3>5, <3>7 DEF Plans
        <5> QED
          BY <5>1, HeadsOfPlans
      <4>2. disk'.rates = disk.rates
        BY <3>3, <4>1
      <4> QED
        BY <1>0, <3>1, <3>4, <3>7, <4>2, QuotaSame
    <3> QED
      BY <3>6, <3>7
  <2>10. CASE Record(t)
    <3>1. /\ UNCHANGED <<clock, acted, crashes, rates, ratesDirty, disk, pc, snap>> /\ todo[t] = <<"log">>
          /\ Moves(t, "save", msg[t], <<"history">>, snap[t])
      BY <2>10, TypesRecord DEF Record, envVars, logVars
    <3>2. t # RateSaver
      <4>1. Fits(t, pc[t], msg[t], todo[t]) /\ <<"log">> # <<>> /\ <<"log">> # <<"rates">>
        BY Keeps
      <4> QED
        BY <3>1, <4>1, ModerationAssumption DEF Fits, Plans
    <3>3. todo'[RateSaver] = todo[RateSaver]
      BY <1>0, <3>1, <3>2, MoveFacts
    <3> QED
      BY <3>1, <3>3, QuotaSame
  <2> QED
    BY <1>3, <2>1, <2>2, <2>3, <2>5, <2>6, <2>7, <2>8, <2>9, <2>10 DEF Handle
<1>4. CASE Cleanup
  <2>1. UNCHANGED <<clock, acted, crashes, rates, ratesDirty, disk, snap>> /\ Cleaner \in Threads
    BY <1>4 DEF Cleanup, envVars, logVars, Threads
  <2>2. pc'[RateSaver] = pc[RateSaver] /\ todo'[RateSaver] = todo[RateSaver]
    BY <1>0, <1>4, <2>1, TypesCleanup, MoveFacts
  <2> QED
    BY <2>1, <2>2, QuotaSame
<1>5. CASE SaveRates
  <2>1. UNCHANGED <<clock, acted, crashes, rates, disk>>
    BY <1>5 DEF SaveRates, envVars, logVars
  <2>2. pc'[RateSaver] = "save" /\ todo'[RateSaver] = <<"rates">>
    BY <1>0, <1>5, TypesSaveRates, MoveFacts
  <2>3. <<"rates">> # <<>>
    OBVIOUS
  <2> QED
    BY <2>1, <2>2, <2>3 DEF QuotaKept, Covers
<1>6. CASE Restart
  <2>1. pc'[RateSaver] = "idle" /\ disk' = DiskAtStop /\ UNCHANGED <<clock, acted, crashes>>
        /\ rates' = [k \in Keys |-> Fresh(DiskAtStop.rates[k])]
    BY <1>0, <1>6, TypesRestart DEF Restart, Load, envVars, logVars
  <2>2. Covers(rates) /\ (~ratesDirty /\ todo[RateSaver] = <<>> => Covers(disk.rates))
    BY <2>1 DEF QuotaKept
  <2>3. todo[RateSaver] = <<>>
    BY <1>0, <1>6, Keeps DEF Restart, Free, Fits
  <2>4. DiskAtStop.rates \in [Keys -> Times] /\ Covers(DiskAtStop.rates)
    <3>1. CASE ratesDirty
      <4>1. DiskAtStop.rates = [k \in Keys |-> Fresh(rates[k])]
        BY <3>1 DEF DiskAtStop, Memory, ModTypes, FileStates
      <4> QED
        BY <1>0, <2>2, <4>1, FreshCovers, FreshRatesTyped
    <3>2. CASE ~ratesDirty
      BY <2>2, <2>3, <3>2 DEF DiskAtStop, ModTypes, FileStates
    <3> QED
      BY <3>1, <3>2
  <2> HIDE DEF DiskAtStop
  <2>5. Covers([k \in Keys |-> Fresh(DiskAtStop.rates[k])])
    BY <1>0, <2>4, FreshCovers
  <2> QED
    BY <2>1, <2>4, <2>5 DEF QuotaKept, Covers
<1>7. CASE Crash
  BY <1>7 DEF Crash, ModTypes, EnvTyped
<1>8. CASE UNCHANGED vars
  BY <1>8, QuotaSame DEF vars, envVars, memVars, thrVars, logVars
<1> QED
  BY <1>1, <1>2, <1>3, <1>4, <1>5, <1>6, <1>7, <1>8 DEF Next

-----------------------------------------------------------------------------
(* The invariant and what it is for. *)

LEMMA InvInit == Init => ModInv
<1> SUFFICES ASSUME Init PROVE ModInv
  OBVIOUS
<1>1. ModTypes
  BY TypesInit
<1>2. pc[Handler] = "idle" /\ todo[Handler] = <<>> /\ pc[RateSaver] = "idle"
  BY DEF Init, Threads
<1>3. FilesFollow
  BY <1>2 DEF Init, EmptyDisk, FilesFollow, Follow, Bans
<1>4. NoneStale
  BY <1>2 DEF Init, EmptyBans, NoneStale
<1>5. Verified
  BY <1>2 DEF Verified
<1>6. QuotaKept
  <2>1. acted = rates /\ disk.rates = rates /\ \A k \in Keys : rates[k] = <<>>
    BY DEF Init, EmptyRates, EmptyDisk
  <2>2. \A c \in (-RateWindow)..MaxTime : Later(<<>>, c) \in Nat
    <3>1. <<>> \in Seq(Time) /\ \A c \in (-RateWindow)..MaxTime : c \in Int
      BY ModerationAssumption
    <3> QED
      BY <3>1, LaterCounts
  <2>3. Covers(rates)
    BY <2>1, <2>2 DEF Covers, Covering
  <2> QED
    BY <1>2, <2>1, <2>3 DEF QuotaKept
<1> QED
  BY <1>1, <1>3, <1>4, <1>5, <1>6 DEF ModInv

\* The inductive invariant: values of their types, goroutines at places that fit
\* what they hold, files that differ from the maps only by what the handler still
\* owes, and what each promise needs of messages on their way.
THEOREM ModerationInvariance == Spec => []ModInv
<1>1. Init => ModInv
  BY InvInit
<1>2. ModInv /\ [Next]_vars => ModInv'
  BY TypesNext, FilesNext, StaleNext, VerifiedNext, QuotaNext DEF ModInv
<1> QED
  BY <1>1, <1>2, PTL DEF Spec

\* NoStaleBan (applyBan, applyUnban, loadBans): where the handler alone changes
\* and saves the lists, a lifted ban stays lifted through every clean restart.
THEOREM AlwaysLifted == Spec => []NoStaleBan
<1>1. ModInv => NoStaleBan
  BY DEF ModInv, NoneStale, NoStaleBan
<1> QED
  BY <1>1, ModerationInvariance, PTL

\* QuotaHolds (allowBan, ratesSaveLoop): clean restarts lose no action that still
\* counts, so no key goes over its quota in any window.
THEOREM AlwaysQuota == Spec => []QuotaHolds
<1>1. ModInv => QuotaHolds
  <2> SUFFICES ASSUME ModInv, crashes = 0, NEW k \in Keys PROVE Len(Fresh(acted[k])) <= RateLimit
    BY DEF QuotaHolds
  <2> DEFINE c == clock - RateWindow
  <2>1. /\ clock \in Time /\ acted[k] \in Seq(Time) /\ rates[k] \in Seq(Time)
        /\ Len(rates[k]) <= RateLimit /\ RateLimit \in Nat /\ Len(rates[k]) \in Nat
    BY ModerationAssumption DEF ModInv, ModTypes, EnvTyped, MemTyped, Times
  <2>2. c \in (-RateWindow)..MaxTime /\ c \in Int /\ c >= clock - RateWindow
    BY <2>1, ModerationAssumption DEF Time
  <2>3. Len(Fresh(acted[k])) = Later(acted[k], c)
    BY <2>1, FreshCounts
  <2>4. Covers(rates)
    BY DEF ModInv, QuotaKept
  <2> HIDE DEF c
  <2>5. Later(acted[k], c) <= Later(rates[k], c)
    BY <2>2, <2>4 DEF Covers, Covering, c
  <2>6. Later(rates[k], c) <= Len(rates[k]) /\ Later(rates[k], c) \in Nat /\ Later(acted[k], c) \in Nat
    BY <2>1, <2>2, LaterCounts
  <2> QED
    BY <2>1, <2>3, <2>5, <2>6
<1> QED
  BY <1>1, ModerationInvariance, PTL

\* The values of the state are of their types.
LEMMA TypesHold == ModTypes => TypeOK
<1> SUFFICES ASSUME ModTypes PROVE TypeOK
  OBVIOUS
<1>1. \A c \in certs : c.key \in Mods /\ c.at \in Time /\ c.until \in Nat
  BY DEF ModTypes, EnvTyped, Certificates
<1>2. \A m \in net : /\ m.type \in {"ban", "unban", "revoke"}
                     /\ m.subject \in Peers \cup Mods /\ m.by \in Keys /\ m.at \in Time
  BY DEF ModTypes, EnvTyped, Proper
<1>3. /\ bans \in [Peers -> BanRecords] /\ disk.bans \in [Peers -> BanRecords]
      /\ revoked \in [Mods -> 0..MaxTime] /\ disk.revoked \in [Mods -> 0..MaxTime]
      /\ mark \in [Peers -> 0..MaxTime] /\ disk.mark \in [Peers -> 0..MaxTime]
  BY DEF ModTypes, MemTyped, FileStates
<1>4. \A k \in Keys : Len(rates[k]) <= RateLimit /\ Len(disk.rates[k]) <= RateLimit
  BY DEF ModTypes, MemTyped, FileStates, Times
<1>5. /\ \A y \in DOMAIN seen : Len(seen[y]) <= SeenCap
      /\ ratesDirty \in BOOLEAN /\ Len(history) <= HistoryCap
  BY DEF ModTypes, MemTyped, Histories
<1>6. \A t \in Threads : \A i \in DOMAIN todo[t] : todo[t][i] \in Files
  <2> SUFFICES ASSUME NEW t \in Threads PROVE \A i \in DOMAIN todo[t] : todo[t][i] \in Files
    OBVIOUS
  <2>1. todo[t] \in Plans(t)
    BY DEF ModTypes, Placed, Fits
  <2>2. \A x \in Files : \A i \in DOMAIN <<x>> : <<x>>[i] \in Files
    OBVIOUS
  <2>3. CASE \E x \in {"bans", "rates", "log", "history", "mark", "revoked"} : todo[t] = <<x>>
    BY <2>2, <2>3 DEF Files
  <2>4. CASE todo[t] \in {<<>>, <<"mark", "bans", "log">>, <<"bans", "log">>}
    BY <2>4 DEF Files
  <2> QED
    BY <2>1, <2>3, <2>4 DEF Plans
<1>7. clock \in Time /\ pc \in [Threads -> Places]
  BY DEF ModTypes, EnvTyped, ThreadsTyped
<1> QED
  BY <1>1, <1>2, <1>3, <1>4, <1>5, <1>6, <1>7 DEF TypeOK

\* Durable (saveBans, saveUnbanned, saveRevocations, recordHistory): when every
\* goroutine rests, the files hold what the maps hold.
THEOREM AlwaysDurable == Spec => []Durable
<1>1. ModInv => Durable
  <2> SUFFICES ASSUME ModInv PROVE Durable
    OBVIOUS
  <2>1. TypeOK
    BY TypesHold DEF ModInv
  <2>2. ASSUME Quiescent, Alone
        PROVE  /\ ActiveBans(disk.bans) = ActiveBans(bans)
               /\ disk.mark = mark /\ disk.revoked = revoked /\ disk.history = history
    <3>1. Handler \in Threads /\ pc[Handler] = "idle"
      BY <2>2 DEF Quiescent, Free, Threads
    <3>2. todo[Handler] = <<>>
      BY <3>1, Keeps DEF ModInv, Fits
    <3>3. Follow(<<>>, pc[Handler] = "write", snap[Handler], disk)
      BY <2>2, <3>2 DEF ModInv, FilesFollow
    <3> QED
      BY <3>3, OwedTuples, ForceIs DEF Follow, Bans
  <2> QED
    BY <2>1, <2>2 DEF Durable
<1> QED
  BY <1>1, ModerationInvariance, PTL

\* RevokedCannotAct (verifyCert, applyRevoke): between a certificate's check and
\* its use the handler applies no revocation.
THEOREM AlwaysRevoked == Spec => RevokedCannotAct
<1>1. ModInv => [\A t \in Threads :
          Unused /\ pc[t] = "install" /\ pc'[t] = "save" /\ msg[t].cert # NoCert
              => msg[t].cert.at > revoked[msg[t].cert.key]]_vars
  <2> SUFFICES ASSUME ModInv, NEW t \in Threads, Unused, pc[t] = "install", msg[t].cert # NoCert
               PROVE  msg[t].cert.at > revoked[msg[t].cert.key]
    OBVIOUS
  <2>1. t = Handler
    BY BesideHandler DEF ModInv
  <2> QED
    BY <2>1 DEF ModInv, Verified
<1> QED
  BY <1>1, ModerationInvariance, PTL DEF Spec, RevokedCannotAct

-----------------------------------------------------------------------------
(* One handler for each message. *)

\* The rings never run over when no more is signed than a ring holds; each holds
\* a signature once, and those of the messages at hand.
Roomy == \A s \in Scenes : s.signed <= SeenCap

Budget ==
    /\ IsFiniteSet(net) /\ IsFiniteSet(certs)
    /\ Cardinality(net) + Cardinality(certs) <= scene.signed

Rings ==
    /\ \A y \in Kinds : \A i, j \in DOMAIN seen[y] : seen[y][i] = seen[y][j] => i = j
    /\ \A t \in Threads : msg[t] # NoMsg => Seen(msg[t])

OnceInv == Budget /\ Rings /\ HandledOnce

LEMMA OnceInit == Init => OnceInv
<1> SUFFICES ASSUME Init PROVE OnceInv
  OBVIOUS
<1>1. Budget
  <2>1. net = {} /\ certs = {} /\ scene.signed \in Nat
    BY ModerationAssumption DEF Init
  <2> QED
    BY <2>1, FS_EmptySet DEF Budget
<1>2. Rings /\ HandledOnce
  BY DEF Init, EmptySeen, Rings, HandledOnce, Kinds
<1> QED
  BY <1>1, <1>2 DEF OnceInv

\* Signing keeps to the bound.
LEMMA BudgetIssue == ModTypes /\ Budget /\ Issue => Budget'
<1> SUFFICES ASSUME ModTypes, Budget, Issue PROVE Budget'
  OBVIOUS
<1>0. /\ Cardinality(net) \in Nat /\ Cardinality(certs) \in Nat /\ IsFiniteSet(net) /\ IsFiniteSet(certs)
      /\ scene.signed \in Nat
  BY FS_CardinalityType, ModerationAssumption DEF Budget, ModTypes, EnvTyped
<1>1. ASSUME NEW x, CanSign, scene' = scene,
             \/ certs' = certs \cup {x} /\ net' = net
             \/ net' = net \cup {x} /\ certs' = certs
      PROVE  Budget'
  <2>1. /\ IsFiniteSet(certs \cup {x}) /\ Cardinality(certs \cup {x}) \in {Cardinality(certs), Cardinality(certs) + 1}
        /\ IsFiniteSet(net \cup {x}) /\ Cardinality(net \cup {x}) \in {Cardinality(net), Cardinality(net) + 1}
    BY <1>0, FS_AddElement
  <2>2. Cardinality(net) + Cardinality(certs) < scene.signed
    BY <1>1 DEF CanSign
  <2>3. CASE certs' = certs \cup {x} /\ net' = net
    <3>1. Cardinality(net) + Cardinality(certs \cup {x}) <= scene.signed
      BY <1>0, <2>1, <2>2
    <3> QED
      BY <1>0, <1>1, <2>1, <2>3, <3>1 DEF Budget
  <2>4. CASE net' = net \cup {x} /\ certs' = certs
    <3>1. Cardinality(net \cup {x}) + Cardinality(certs) <= scene.signed
      BY <1>0, <2>1, <2>2
    <3> QED
      BY <1>0, <1>1, <2>1, <2>4, <3>1 DEF Budget
  <2> QED
    BY <1>1, <2>3, <2>4
<1>2. \A k, d : Grant(k, d) => Budget'
  BY <1>1 DEF Grant, logVars
<1>3. \A m : Publish(m) => Budget'
  BY <1>1 DEF Publish, logVars
<1> QED
  BY <1>2, <1>3 DEF Issue, IssueBan, IssueUnban, IssueRevoke

\* So the ring that has not seen a signed message has room for it.
LEMMA RoomForIt ==
    ASSUME Roomy, ModTypes, Budget, Rings, NEW m \in net, ~Seen(m)
    PROVE  Len(seen[m.type]) # SeenCap
<1> DEFINE s == seen[m.type]
           D == 1..Len(s)
           T == net \ {m}
<1>1. m.type \in Kinds /\ s \in Seq(net) /\ Len(s) \in Nat /\ DOMAIN s = D
  BY DEF ModTypes, EnvTyped, Proper, MemTyped, Kinds
<1>2. \A i \in D : s[i] \in T
  <2>1. \A i \in D : s[i] \in net
    BY <1>1, ElementOfSeq
  <2> QED
    BY <1>1, <2>1 DEF Seen
<1>3. \A i, j \in D : s[i] = s[j] => i = j
  BY <1>1 DEF Rings
<1>4. IsFiniteSet(net) /\ IsFiniteSet(T) /\ Cardinality(T) = Cardinality(net) - 1 /\ Cardinality(net) \in Nat
  BY FS_RemoveElement, FS_CardinalityType DEF Budget
<1>5. IsFiniteSet(D) /\ Cardinality(D) = Len(s)
  BY <1>1, FS_Interval
<1> DEFINE f == [i \in D |-> s[i]]
<1>6. f \in [D -> T] /\ \A i, j \in D : f[i] = f[j] => i = j
  BY <1>2, <1>3
<1> HIDE DEF f, s, D, T
<1>7. ~(Cardinality(T) < Cardinality(D))
  BY <1>4, <1>5, <1>6, FS_PigeonHole
<1>8. Cardinality(net) <= SeenCap
  <2>1. /\ Cardinality(net) + Cardinality(certs) <= scene.signed /\ scene.signed <= SeenCap
        /\ Cardinality(certs) \in Nat /\ scene.signed \in Nat /\ SeenCap \in Nat
    BY FS_CardinalityType, ModerationAssumption DEF Budget, Roomy, ModTypes, EnvTyped
  <2> QED
    BY <1>4, <2>1
<1>9. Len(s) < SeenCap
  BY <1>1, <1>4, <1>5, <1>7, <1>8, ModerationAssumption
<1>10. SeenCap \in Nat
  BY ModerationAssumption
<1> QED
  BY <1>1, <1>9, <1>10 DEF s

\* Messages only leave.
LEMMA OnceSame ==
    ASSUME OnceInv, UNCHANGED <<net, certs, scene, seen>>, \A u \in Threads : msg'[u] \in {msg[u], NoMsg}
    PROVE  OnceInv'
<1>1. Budget'
  BY DEF OnceInv, Budget
<1>2. Rings'
  <2>1. \A m : Seen(m) => Seen(m)'
    BY DEF Seen
  <2> QED
    BY DEF OnceInv, Rings, Seen
<1>3. HandledOnce'
  BY DEF OnceInv, HandledOnce
<1> QED
  BY <1>1, <1>2, <1>3 DEF OnceInv

LEMMA OnceTake ==
    ASSUME Roomy, ModTypes, OnceInv, NEW t \in Threads, NEW m \in net, NEW place, Take(t, m, place)
    PROVE  OnceInv'
<1> DEFINE y == m.type
<1>0. /\ UNCHANGED <<certs, net, scene>> /\ ~Seen(m) /\ Remember(m) /\ msg' = [msg EXCEPT ![t] = m]
      /\ y \in Kinds /\ m # NoMsg
  BY NotSigned DEF Take, envVars, logVars, ModTypes, EnvTyped, Proper, Kinds
<1>1. seen' = [seen EXCEPT ![y] = Append(seen[y], m)]
  <2>1. Len(seen[y]) # SeenCap
    BY <1>0, RoomForIt DEF OnceInv
  <2> QED
    BY <1>0, <2>1 DEF Remember
<1>2. /\ \A x \in Kinds : seen'[x] = IF x = y THEN Append(seen[y], m) ELSE seen[x]
      /\ \A x \in Kinds : seen[x] \in Seq(net) /\ Len(seen[x]) \in Nat
  BY <1>1 DEF ModTypes, MemTyped, Kinds
<1> DEFINE s == seen[y]
           n == Len(s) + 1
<1>3. /\ DOMAIN Append(s, m) = 1..n /\ Append(s, m)[n] = m /\ DOMAIN s = 1..Len(s)
      /\ \A i \in 1..Len(s) : Append(s, m)[i] = s[i]
  BY <1>0, <1>2
<1>4. \A i \in 1..Len(s) : s[i] # m
  BY <1>0, <1>3 DEF Seen
<1>5. \A u \in Threads : msg'[u] = IF u = t THEN m ELSE msg[u]
  BY <1>0 DEF ModTypes, ThreadsTyped
<1>6. \A u \in Threads : msg[u] # NoMsg => msg[u].type \in Kinds /\ Seen(msg[u]) /\ msg[u] # m
  BY <1>0 DEF OnceInv, Rings, ModTypes, ThreadsTyped, EnvTyped, Proper, Kinds
<1> HIDE DEF y
<1>7. Budget'
  BY <1>0 DEF OnceInv, Budget
<1>8. \A x \in Kinds : \A i, j \in DOMAIN seen'[x] : seen'[x][i] = seen'[x][j] => i = j
  <2> SUFFICES ASSUME NEW x \in Kinds, NEW i \in DOMAIN seen'[x], NEW j \in DOMAIN seen'[x], seen'[x][i] = seen'[x][j]
               PROVE  i = j
    OBVIOUS
  <2>1. CASE x # y
    <3>1. seen'[x] = seen[x]
      BY <1>2, <2>1
    <3> QED
      BY <3>1 DEF OnceInv, Rings
  <2>2. CASE x = y
    <3>1. seen'[x] = Append(s, m) /\ i \in 1..n /\ j \in 1..n /\ Len(s) \in Nat
      BY <1>2, <1>3, <2>2
    <3>2. \A a, b \in 1..Len(s) : s[a] = s[b] => a = b
      BY <1>0, <1>3 DEF OnceInv, Rings
    <3> HIDE DEF s
    <3>3. \A a \in 1..n : a = n \/ a \in 1..Len(s)
      BY <3>1
    <3> HIDE DEF n
    <3> QED
      BY <1>3, <1>4, <3>1, <3>2, <3>3
  <2> QED
    BY <2>1, <2>2
<1>9. ASSUME NEW u \in Threads, msg'[u] # NoMsg
      PROVE  \E i \in DOMAIN seen'[msg'[u].type] : seen'[msg'[u].type][i] = msg'[u]
  <2>1. CASE u = t
    <3>1. msg'[u] = m /\ m.type = y
      BY <1>5, <2>1 DEF y
    <3>2. n \in DOMAIN Append(s, m)
      BY <1>0, <1>2, <1>3
    <3>3. seen'[y] = Append(s, m)
      BY <1>0, <1>2
    <3> QED
      BY <1>3, <3>1, <3>2, <3>3
  <2>2. CASE u # t
    <3>1. msg'[u] = msg[u] /\ msg[u].type \in Kinds /\ Seen(msg[u])
      BY <1>5, <1>6, <1>9, <2>2
    <3>2. PICK i \in DOMAIN seen[msg[u].type] : seen[msg[u].type][i] = msg[u]
      BY <3>1 DEF Seen
    <3>3. CASE msg[u].type = y
      <4>1. i \in 1..Len(s) /\ s[i] = msg[u]
        BY <1>3, <3>2, <3>3
      <4>2. i \in 1..n
        BY <1>0, <1>2, <4>1
      <4>3. seen'[y] = Append(s, m) /\ Append(s, m)[i] = msg'[u] /\ msg'[u].type = y
        BY <1>0, <1>2, <1>3, <3>1, <3>3, <4>1
      <4> HIDE DEF n, s
      <4> QED
        BY <1>3, <4>2, <4>3
    <3>4. CASE msg[u].type # y
      BY <1>2, <3>1, <3>2, <3>4
    <3> QED
      BY <3>3, <3>4
  <2> QED
    BY <2>1, <2>2
<1>10. Rings'
  BY <1>8, <1>9 DEF Rings, Seen
<1>11. HandledOnce'
  BY <1>5, <1>6 DEF OnceInv, HandledOnce
<1> QED
  BY <1>7, <1>10, <1>11 DEF OnceInv

LEMMA OnceNext == Roomy /\ ModTypes /\ OnceInv /\ [Next]_vars => OnceInv'
<1> SUFFICES ASSUME Roomy, ModTypes, OnceInv, [Next]_vars PROVE OnceInv'
  OBVIOUS
<1>1. CASE Tick
  BY <1>1, OnceSame DEF Tick, memVars, thrVars, logVars
<1>2. CASE Issue
  <2>1. UNCHANGED <<seen, msg>>
    BY <1>2, IssueForm DEF Issued
  <2>2. Budget'
    BY <1>2, BudgetIssue DEF OnceInv
  <2> QED
    BY <2>1, <2>2 DEF OnceInv, Rings, Seen, HandledOnce
<1>3. ASSUME NEW t \in Threads, Handle(t) PROVE OnceInv'
  <2>1. ASSUME NEW m \in net, TakeBan(t, m) \/ TakeUnban(t, m) \/ TakeRevoke(t, m) PROVE OnceInv'
    BY <2>1, OnceTake DEF TakeBan, TakeUnban, TakeRevoke
  <2>2. CASE Verify(t) \/ Quota(t) \/ Write(t)
    <3>1. UNCHANGED <<net, certs, scene, seen>> /\ (msg' = msg \/ msg' = [msg EXCEPT ![t] = NoMsg])
      BY <2>2 DEF Verify, Quota, Write, Drop, envVars, memVars, logVars
    <3>2. \A u \in Threads : msg'[u] \in {msg[u], NoMsg}
      BY <3>1 DEF ModTypes, ThreadsTyped
    <3> QED
      BY <3>1, <3>2, OnceSame
  <2>3. CASE InstallBan(t) \/ InstallUnban(t) \/ InstallRevoke(t) \/ Snapshot(t) \/ Record(t)
    <3>1. UNCHANGED <<net, certs, scene, seen, msg>>
      BY <2>3 DEF InstallBan, InstallUnban, InstallRevoke, Snapshot, Record, envVars, memVars, logVars
    <3> QED
      BY <3>1, OnceSame
  <2> QED
    BY <1>3, <2>1, <2>2, <2>3 DEF Handle
<1>4. CASE Cleanup \/ SaveRates
  <2>1. UNCHANGED <<net, certs, scene, seen, msg>>
    BY <1>4 DEF Cleanup, SaveRates, envVars, logVars
  <2> QED
    BY <2>1, OnceSame
<1>5. CASE Restart \/ Crash
  <2>1. UNCHANGED <<net, certs, scene>> /\ \A t \in Threads : msg'[t] = NoMsg
    BY <1>5, TypesRestart, TypesCrash DEF Restart, Crash, envVars, logVars
  <2>2. seen' = EmptySeen
    BY <1>5 DEF Restart, Crash, Load
  <2>3. Budget'
    BY <2>1 DEF OnceInv, Budget
  <2> QED
    BY <2>1, <2>2, <2>3 DEF OnceInv, Rings, HandledOnce, EmptySeen, Kinds
<1>6. CASE UNCHANGED vars
  BY <1>6, OnceSame DEF vars, envVars, memVars, thrVars, logVars
<1> QED
  BY <1>1, <1>2, <1>3, <1>4, <1>5, <1>6 DEF Next

\* HandledOnce (alreadySeen): where a ring holds all that is signed, two
\* goroutines never handle one message at the same time.
THEOREM AlwaysOnce == ASSUME Roomy PROVE Spec => []HandledOnce
<1>1. Init => OnceInv
  BY OnceInit
<1>2. ModInv /\ OnceInv /\ [Next]_vars => OnceInv'
  BY OnceNext DEF ModInv
<1>3. OnceInv => HandledOnce
  BY DEF OnceInv
<1> QED
  BY <1>1, <1>2, <1>3, ModerationInvariance, PTL DEF Spec
=============================================================================
