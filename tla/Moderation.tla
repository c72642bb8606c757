----------------------------- MODULE Moderation -----------------------------
(***************************************************************************)
(* One node of the moderation system (internal/moderation).  Signed bans,  *)
(* unbans and revocations circulate on a gossip topic that may deliver     *)
(* them late, in any order and any number of times: their publishers read  *)
(* them back from bans/*.json and publish them again at every start.  The  *)
(* node checks each one in several critical sections, installs it, and     *)
(* saves the files it changed, each as a snapshot under the lock followed  *)
(* by a write outside it.  Start runs three goroutines: the topic's        *)
(* handler, the hourly cleaner and the saver of the rates.  User interface *)
(* and plugin calls run beside them.                                       *)
(***************************************************************************)
EXTENDS Integers, FiniteSets, Sequences, Filters

CONSTANTS
    Peers,        \* nodes that can be banned
    Mods,         \* keys that may hold a moderator certificate
    Founder,      \* the founder's key
    Handler, Cleaner, RateSaver,   \* the goroutines of Start
    Users,        \* goroutines that issue messages for the local user
    RateLimit, RateWindow,         \* banRateLimit, banRateWindow
    MinBan, MaxBan, MaxCert,       \* minBanDuration, maxBanDays, maxCertDays
    SeenCap,      \* seenCacheSize
    HistoryCap,   \* maxHistoryEntries
    MaxTime,      \* bound on the clock
    Scenes        \* bounds on the environment: who acts beside the handler, how many
                  \* messages and certificates are signed, for how long (0 is for
                  \* ever), and how often the node crashes

ASSUME ModerationAssumption ==
    /\ Founder \notin Mods
    /\ Handler # Cleaner /\ Handler # RateSaver /\ Cleaner # RateSaver
    /\ {Handler, Cleaner, RateSaver} \cap Users = {}
    /\ {RateLimit, RateWindow, SeenCap, HistoryCap, MaxTime} \subseteq Nat \ {0}
    /\ {MinBan, MaxBan, MaxCert} \subseteq Nat
    /\ \A s \in Scenes : /\ s.active \subseteq {Cleaner, RateSaver} \cup Users
                         /\ s.bans \subseteq Nat /\ s.certs \subseteq Nat
                         /\ s.signed \in Nat /\ s.crashes \in Nat

Threads == {Handler, Cleaner, RateSaver} \cup Users
Keys == Mods \cup {Founder}
Time == 1..MaxTime
NoTime == 0                       \* no watermark, no revocation; also "permanent"

VARIABLES
    clock,
    certs,        \* certificates the founder has signed
    net,          \* messages signed so far: each can still be delivered
    bans, revoked, mark,          \* m.bans, m.revoked, m.unbannedSince
    seen,         \* seenBans, seenUnbans and seenRevokes: rings of signatures
    rates, ratesDirty,
    history,      \* newest first
    disk,         \* the files, as they would be loaded
    pc, msg,      \* each thread: its place in a handler and the message it handles
    todo, snap,   \* files it has still to save; the snapshot it is about to write
    acted,        \* per key, when each of its bans and unbans was installed (history)
    crashes,
    scene         \* the bounds of this behaviour

memVars == <<bans, revoked, mark, seen, rates, ratesDirty, history>>
thrVars == <<pc, msg, todo, snap>>
envVars == <<clock, certs, net>>
logVars == <<acted, crashes, scene>>
vars == <<envVars, memVars, disk, thrVars, logVars>>

-----------------------------------------------------------------------------
(* Messages and records. *)

NoCert == [key |-> Founder, at |-> NoTime, until |-> NoTime]
NoBan  == [by |-> Founder, at |-> NoTime, until |-> NoTime]
NoMsg  == [type |-> "none", subject |-> Founder, by |-> Founder, cert |-> NoCert,
           at |-> NoTime, until |-> NoTime]

\* When something signed now for d ends; 0 stands for "never".
Until(d) == IF d = 0 THEN NoTime ELSE clock + d

\* SignModeratorBan and its siblings: at is the signing time; a founder's
\* message carries no certificate.
Message(type, subject, by, cert, until) ==
    [type |-> type, subject |-> subject, by |-> by, cert |-> cert,
     at |-> clock, until |-> until]

\* IsBanned and saveBans: a ban that has not run out.
Active(b) == b # NoBan /\ (b.until = NoTime \/ clock < b.until)

ActiveBans(bs) == [p \in Peers |-> IF Active(bs[p]) THEN bs[p] ELSE NoBan]

\* Rate entries still inside the window.
Fresh(times) == AtPositions(times, {i \in DOMAIN times : times[i] > clock - RateWindow})

-----------------------------------------------------------------------------
(* Checks. *)

\* Mutant of VerifyCert: a permanent certificate escapes revocation.
VerifyCertUnlessPermanent(c) ==
    /\ c.key # Founder
    /\ c.until # NoTime => /\ clock <= c.until /\ c.until <= clock + MaxCert
                           /\ c.at > revoked[c.key]

\* verifyCert: not expired, not too long, and issued after any revocation.
VerifyCert(c) ==
    /\ c.key # Founder
    /\ c.until # NoTime => clock <= c.until /\ c.until <= clock + MaxCert
    /\ c.at > revoked[c.key]

\* Authority of a ban or an unban: the founder's own signature, or a moderator's
\* with a certificate.
Authorised(m) == m.by = Founder \/ VerifyCert(m.cert)

\* seenSet.seen: a ring that forgets its oldest signature when full.
Remember(m) ==
    LET ring == seen[m.type]
    IN  seen' = [seen EXCEPT ![m.type] =
                    Append(IF Len(ring) = SeenCap THEN Tail(ring) ELSE ring, m)]

Seen(m) == \E i \in DOMAIN seen[m.type] : seen[m.type][i] = m

\* applyBan's field checks.
WellFormed(m) ==
    m.until # NoTime => m.until - m.at \in MinBan..MaxBan

-----------------------------------------------------------------------------
(* Initial state: an empty data directory. *)

EmptyBans == [p \in Peers |-> NoBan]
EmptyMark == [p \in Peers |-> NoTime]
EmptyRevoked == [k \in Mods |-> NoTime]
EmptyRates == [k \in Keys |-> <<>>]
EmptySeen == [t \in {"ban", "unban", "revoke"} |-> <<>>]
EmptyDisk == [bans |-> EmptyBans, mark |-> EmptyMark, revoked |-> EmptyRevoked,
              rates |-> EmptyRates, history |-> <<>>]
NoSnap == EmptyDisk

Init ==
    /\ clock = 1 /\ crashes = 0 /\ certs = {} /\ net = {}
    /\ bans = EmptyBans /\ revoked = EmptyRevoked /\ mark = EmptyMark
    /\ seen = EmptySeen
    /\ rates = EmptyRates /\ ratesDirty = FALSE
    /\ history = <<>>
    /\ disk = EmptyDisk
    /\ pc = [t \in Threads |-> "idle"]
    /\ msg = [t \in Threads |-> NoMsg]
    /\ todo = [t \in Threads |-> <<>>]
    /\ snap = [t \in Threads |-> NoSnap]
    /\ acted = [k \in Keys |-> <<>>]
    /\ scene \in Scenes

-----------------------------------------------------------------------------
(* The environment: time and the issuers of messages. *)

Tick ==
    /\ clock < MaxTime
    /\ clock' = clock + 1
    /\ UNCHANGED <<certs, net, memVars, disk, thrVars, logVars>>

CanSign == Cardinality(net) + Cardinality(certs) < scene.signed

\* SignModeratorCert by the founder: grants a certificate out of band.
Grant(k, d) ==
    /\ CanSign
    /\ certs' = certs \cup {[key |-> k, at |-> clock, until |-> Until(d)]}
    /\ UNCHANGED <<clock, net, memVars, disk, thrVars, logVars>>

Publish(m) ==
    /\ CanSign
    /\ net' = net \cup {m}
    /\ UNCHANGED <<clock, certs, memVars, disk, thrVars, logVars>>

IssueBan(p, d) ==
    \/ Publish(Message("ban", p, Founder, NoCert, Until(d)))
    \/ \E c \in certs : Publish(Message("ban", p, c.key, c, Until(d)))

IssueUnban(p) ==
    \/ Publish(Message("unban", p, Founder, NoCert, NoTime))
    \/ \E c \in certs : Publish(Message("unban", p, c.key, c, NoTime))

IssueRevoke(k) == Publish(Message("revoke", k, Founder, NoCert, NoTime))

-----------------------------------------------------------------------------
(* Handling one message.  A thread drops it at the first check that fails. *)

Free(t) == pc[t] = "idle"

Goto(t, place) == pc' = [pc EXCEPT ![t] = place]

Drop(t) ==
    /\ Goto(t, "idle")
    /\ msg' = [msg EXCEPT ![t] = NoMsg]

\* Mutant of Take: the signature is noted but not looked up.
TakeAgain(t, m, place) ==
    /\ Free(t)
    /\ t = Handler \/ (t \in Users \cap scene.active /\ m.at = clock)
    /\ Remember(m)
    /\ Goto(t, place)
    /\ msg' = [msg EXCEPT ![t] = m]
    /\ UNCHANGED <<envVars, bans, revoked, mark, rates, ratesDirty, history, disk, todo, snap, logVars>>

\* Begin to handle m unless its signature is known; it counts as known from now
\* on, whatever becomes of it.  IssueBanFor and its siblings handle what they
\* have just signed; only the topic brings older messages.
Take(t, m, place) ==
    /\ Free(t)
    /\ t = Handler \/ (t \in Users \cap scene.active /\ m.at = clock)
    /\ ~Seen(m)
    /\ Remember(m)
    /\ Goto(t, place)
    /\ msg' = [msg EXCEPT ![t] = m]
    /\ UNCHANGED <<envVars, bans, revoked, mark, rates, ratesDirty, history, disk, todo, snap, logVars>>

\* Mutant of TakeBan: no watermark.
TakeAnyBan(t, m) ==
    /\ m.type = "ban" /\ WellFormed(m)
    /\ Take(t, m, "verify")

\* applyBan up to alreadySeen: the watermark is read under a read lock of its own.
TakeBan(t, m) ==
    /\ m.type = "ban" /\ WellFormed(m)
    /\ m.at > mark[m.subject]
    /\ Take(t, m, "verify")

TakeUnban(t, m) == m.type = "unban" /\ Take(t, m, "verify")

TakeRevoke(t, m) == m.type = "revoke" /\ Take(t, m, "install")

Verify(t) ==
    /\ pc[t] = "verify"
    /\ IF Authorised(msg[t])
       THEN Goto(t, "quota") /\ UNCHANGED msg
       ELSE Drop(t)
    /\ UNCHANGED <<envVars, memVars, disk, todo, snap, logVars>>

\* The record of a key's recent actions, with one more; it need not grow past
\* the first that is too many.
Noted(times) ==
    IF Len(Fresh(times)) > RateLimit THEN Fresh(times) ELSE Append(Fresh(times), clock)

\* allowBan: bans and unbans of one key share an hourly quota.
Quota(t) ==
    LET k == msg[t].by
        fresh == Fresh(rates[k])
    IN  /\ pc[t] = "quota"
        /\ \/ /\ Len(fresh) < RateLimit
              /\ rates' = [rates EXCEPT ![k] = Append(fresh, clock)]
              /\ ratesDirty' = TRUE
              /\ acted' = [acted EXCEPT ![k] = Noted(@)]
              /\ Goto(t, "install")
              /\ UNCHANGED msg
           \/ /\ Len(fresh) >= RateLimit
              /\ Drop(t)
              /\ UNCHANGED <<rates, ratesDirty, acted>>
        /\ UNCHANGED <<envVars, bans, revoked, mark, seen, history, disk, todo, snap, crashes, scene>>

\* What the handler still owes the disk after it changed the maps.
Owe(t, files) ==
    /\ Goto(t, "save")
    /\ todo' = [todo EXCEPT ![t] = files]

InstallBan(t) ==
    /\ pc[t] = "install" /\ msg[t].type = "ban"
    /\ bans' = [bans EXCEPT ![msg[t].subject] =
                    [by |-> msg[t].by, at |-> msg[t].at, until |-> msg[t].until]]
    /\ Owe(t, <<"bans", "log">>)
    /\ UNCHANGED <<envVars, revoked, mark, seen, rates, ratesDirty, history, disk, msg, snap, logVars>>

\* Mutant of InstallUnban: the list of bans is not saved.
InstallUnbanMarkOnly(t) ==
    LET p == msg[t].subject
    IN  /\ pc[t] = "install" /\ msg[t].type = "unban"
        /\ bans' = [bans EXCEPT ![p] = NoBan]
        /\ mark' = [mark EXCEPT ![p] = IF msg[t].at > @ THEN msg[t].at ELSE @]
        /\ Owe(t, IF bans[p] = NoBan THEN <<"mark">> ELSE <<"mark", "log">>)
        /\ UNCHANGED <<envVars, revoked, seen, rates, ratesDirty, history, disk, msg, snap, logVars>>

\* applyUnban: the ban goes and the watermark rises, under one lock; the
\* watermarks are saved first.
InstallUnban(t) ==
    LET p == msg[t].subject
    IN  /\ pc[t] = "install" /\ msg[t].type = "unban"
        /\ bans' = [bans EXCEPT ![p] = NoBan]
        /\ mark' = [mark EXCEPT ![p] = IF msg[t].at > @ THEN msg[t].at ELSE @]
        /\ Owe(t, IF bans[p] = NoBan THEN <<"mark">> ELSE <<"mark", "bans", "log">>)
        /\ UNCHANGED <<envVars, revoked, seen, rates, ratesDirty, history, disk, msg, snap, logVars>>

InstallRevoke(t) ==
    /\ pc[t] = "install" /\ msg[t].type = "revoke"
    /\ revoked' = [revoked EXCEPT ![msg[t].subject] = msg[t].at]
    /\ Owe(t, <<"revoked">>)
    /\ UNCHANGED <<envVars, bans, mark, seen, rates, ratesDirty, history, disk, msg, snap, logVars>>

-----------------------------------------------------------------------------
(* Saving. *)

Saving(t) == pc[t] = "save" /\ todo[t] # <<>>

\* saveX, first half: the state as the file will hold it, copied under the lock.
Memory == [bans |-> ActiveBans(bans), mark |-> mark, revoked |-> revoked,
           rates |-> [k \in Keys |-> Fresh(rates[k])], history |-> history]

Snapshot(t) ==
    /\ Saving(t) /\ Head(todo[t]) # "log"
    /\ snap' = [snap EXCEPT ![t] = [NoSnap EXCEPT ![Head(todo[t])] = Memory[Head(todo[t])]]]
    /\ Goto(t, "write")
    /\ UNCHANGED <<envVars, memVars, disk, msg, todo, logVars>>

\* saveX, second half: AtomikYaz replaces the file, outside the lock.
Write(t) ==
    /\ pc[t] = "write"
    /\ disk' = [disk EXCEPT ![Head(todo[t])] = snap[t][Head(todo[t])]]
    /\ snap' = [snap EXCEPT ![t] = NoSnap]
    /\ todo' = [todo EXCEPT ![t] = Tail(@)]
    /\ IF Len(todo[t]) = 1 THEN Drop(t) ELSE Goto(t, "save") /\ UNCHANGED msg
    /\ UNCHANGED <<envVars, memVars, logVars>>

\* recordHistory: prepend, trim, then save.
Record(t) ==
    LET entry == [action |-> msg[t].type, peer |-> msg[t].subject, by |-> msg[t].by]
    IN  /\ Saving(t) /\ Head(todo[t]) = "log"
        /\ history' = SubSeq(<<entry>> \o history, 1,
                            IF Len(history) < HistoryCap THEN Len(history) + 1 ELSE HistoryCap)
        /\ todo' = [todo EXCEPT ![t] = <<"history">>]
        /\ UNCHANGED <<envVars, bans, revoked, mark, seen, rates, ratesDirty, disk, pc, msg, snap, logVars>>

\* cleanupExpiredBans, every hour.
Cleanup ==
    LET t == Cleaner
        over == {p \in Peers : bans[p].until # NoTime /\ clock > bans[p].until}
    IN  /\ t \in scene.active /\ Free(t) /\ over # {}
        /\ bans' = [p \in Peers |-> IF p \in over THEN NoBan ELSE bans[p]]
        /\ Owe(t, <<"bans">>)
        /\ UNCHANGED <<envVars, revoked, mark, seen, rates, ratesDirty, history, disk, msg, snap, logVars>>

\* ratesSaveLoop, every ratesSaveInterval.
SaveRates ==
    /\ RateSaver \in scene.active /\ Free(RateSaver) /\ ratesDirty
    /\ ratesDirty' = FALSE
    /\ Owe(RateSaver, <<"rates">>)
    /\ UNCHANGED <<envVars, bans, revoked, mark, seen, rates, history, disk, msg, snap, logVars>>

-----------------------------------------------------------------------------
(* Stopping and starting again. *)

\* New: what is loaded from the files d.  Bans are loaded before revocations,
\* so the revoked-moderator filter of loadBans never finds one.
Load(d) ==
    /\ bans' = ActiveBans(d.bans)
    /\ revoked' = d.revoked
    /\ mark' = d.mark
    /\ rates' = [k \in Keys |-> Fresh(d.rates[k])]
    /\ ratesDirty' = FALSE
    /\ history' = d.history
    /\ seen' = EmptySeen
    /\ pc' = [t \in Threads |-> "idle"]
    /\ msg' = [t \in Threads |-> NoMsg]
    /\ todo' = [t \in Threads |-> <<>>]
    /\ snap' = [t \in Threads |-> NoSnap]

\* Mutant of DiskAtStop: the last save of the rates is left out.
DiskAsItIs == disk

\* A clean stop leaves the goroutines the time to finish; ratesSaveLoop saves a
\* last time.
DiskAtStop ==
    IF ratesDirty THEN [disk EXCEPT !.rates = Memory.rates] ELSE disk

Restart ==
    /\ \A t \in Threads : Free(t)
    /\ disk' = DiskAtStop
    /\ Load(DiskAtStop)
    /\ UNCHANGED <<envVars, logVars>>

Crash ==
    /\ crashes < scene.crashes
    /\ crashes' = crashes + 1
    /\ Load(disk)
    /\ UNCHANGED <<envVars, disk, acted, scene>>

-----------------------------------------------------------------------------
Handle(t) ==
    \/ \E m \in net : TakeBan(t, m) \/ TakeUnban(t, m) \/ TakeRevoke(t, m)
    \/ Verify(t)
    \/ Quota(t)
    \/ InstallBan(t)
    \/ InstallUnban(t)
    \/ InstallRevoke(t)
    \/ Snapshot(t)
    \/ Write(t)
    \/ Record(t)

Issue ==
    \/ \E k \in Mods, d \in scene.certs : Grant(k, d)
    \/ \E p \in Peers, d \in scene.bans : IssueBan(p, d)
    \/ \E p \in Peers : IssueUnban(p)
    \/ \E k \in Mods : IssueRevoke(k)

Next ==
    \/ Tick
    \/ Issue
    \/ \E t \in Threads : Handle(t)
    \/ Cleanup
    \/ SaveRates
    \/ Restart
    \/ Crash

Spec == Init /\ [][Next]_vars

-----------------------------------------------------------------------------
(* Properties. *)

BanRecords == [by : Keys, at : 0..MaxTime, until : Nat]
Files == {"bans", "mark", "revoked", "rates", "history", "log"}
Places == {"idle", "verify", "quota", "install", "save", "write"}

TypeOK ==
    /\ clock \in Time
    /\ \A c \in certs : c.key \in Mods /\ c.at \in Time /\ c.until \in Nat
    /\ \A m \in net : /\ m.type \in {"ban", "unban", "revoke"}
                      /\ m.subject \in Peers \cup Mods /\ m.by \in Keys /\ m.at \in Time
    /\ bans \in [Peers -> BanRecords] /\ disk.bans \in [Peers -> BanRecords]
    /\ revoked \in [Mods -> 0..MaxTime] /\ disk.revoked \in [Mods -> 0..MaxTime]
    /\ mark \in [Peers -> 0..MaxTime] /\ disk.mark \in [Peers -> 0..MaxTime]
    /\ \A k \in Keys : Len(rates[k]) <= RateLimit /\ Len(disk.rates[k]) <= RateLimit
    /\ \A y \in DOMAIN seen : Len(seen[y]) <= SeenCap
    /\ ratesDirty \in BOOLEAN
    /\ Len(history) <= HistoryCap
    /\ pc \in [Threads -> Places]
    /\ \A t \in Threads : \A i \in DOMAIN todo[t] : todo[t][i] \in Files

Unused == scene.active \cap Users = {}

\* One goroutine alone changes and saves the lists.
Alone == Unused /\ Cleaner \notin scene.active

\* A ban in force was signed after the last unban of its peer that the node has
\* applied: a lifted ban never comes back, whatever is delivered again and
\* however often the node is stopped cleanly and started again.  (An unban the
\* local user issues can come between the handler's check and its use; the
\* cleaner can write the list it copied before the unban.)
NoStaleBan ==
    crashes = 0 /\ Alone => \A p \in Peers : bans[p] # NoBan => bans[p].at > mark[p]

\* The same, crashes included.
LiftSurvivesCrash ==
    \A p \in Peers : bans[p] # NoBan => bans[p].at > mark[p]

\* However often the node is stopped cleanly and started again, one key's bans
\* and unbans stay within the quota of every window.
QuotaHolds == crashes = 0 => \A k \in Keys : Len(Fresh(acted[k])) <= RateLimit

Quiescent == \A t \in Threads : Free(t)

\* When no handler is at work the files hold what the maps hold, so a stop at
\* that moment loses no ban, no unban and no revocation, as long as one
\* goroutine alone saves each file: two can write their copies in the wrong
\* order.  (All values are of their types besides.)
Durable ==
    /\ TypeOK
    /\ Quiescent /\ Alone =>
        /\ ActiveBans(disk.bans) = ActiveBans(bans)
        /\ disk.mark = mark
        /\ disk.revoked = revoked
        /\ disk.history = history

\* A revoked moderator's certificate installs nothing: a revocation takes effect
\* with the next message the handler reads.  (Beside it the local user's own may
\* have been verified before.)
RevokedCannotAct ==
    [][\A t \in Threads :
        Unused /\ pc[t] = "install" /\ pc'[t] = "save" /\ msg[t].cert # NoCert
            => msg[t].cert.at > revoked[msg[t].cert.key]]_vars

\* Two goroutines never handle one signed message at the same time.
HandledOnce ==
    \A s, t \in Threads : s # t /\ msg[s] # NoMsg => msg[s] # msg[t]
=============================================================================
