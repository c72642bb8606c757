--------------------------- MODULE NodeLifeProofs ---------------------------
(***************************************************************************)
(* Proofs about the life of the program on one machine, for any processes, *)
(* posts, identities and any number of faults: no identity is lost, the    *)
(* program stays whole, a process that serves has the directory to itself, *)
(* no record is destroyed, and what could be recovered is in use.          *)
(***************************************************************************)
EXTENDS NodeLife, FilterProofs, SequenceTheorems

\* Variables' types.
Corrupt == [main : SUBSET Facts, cur : SUBSET Facts, unread : SUBSET Facts]

Types ==
    /\ TypeOK
    /\ aside \in Seq(Corrupt) /\ backups \in Seq(Backup)
    /\ recovering \in BOOLEAN /\ restart \in BOOLEAN
    /\ {exe, old} \subseteq {None, 1, 2} /\ new \in {None, 2, Bad}
    /\ plug \in [exe : 0..2, old : 0..2, man : 1..2]

Idle == {"off", "waiting", "spawning"}

Mending == {"asided", "logged", "migrating", "upgrading", "salvaging"}

\* One process at a time: only the one that has the lock is past it, and what
\* is under way is under way in a process.
Exclusive ==
    /\ \A p \in Procs : stage[p] \notin Idle => holder = p
    /\ up # "idle" => \E p \in Procs : Alive(p)
    /\ recovering => \E p \in Procs : stage[p] \in Mending
    /\ \A p \in Procs : stage[p] \in {"asided", "logged", "salvaging"} => recovering

Opened == {"migrating", "upgrading", "salvaging", "loading", "running", "closed", "silent"}

Migrated == {"salvaging", "loading", "running", "closed", "silent"}

\* What a process has done by the stage it is at.
Done ==
    /\ \A p \in Procs : stage[p] \in Opened => db.there
    /\ \A p \in Procs : stage[p] \in Migrated => db.schema >= ver[p]
    /\ \A p \in Procs : NodeUp(p) => book \subseteq mem[p]

Identity ==
    /\ \A p \in Procs : stage[p] \in {"verify", "replacing"} => file = None /\ draft \in Ids
    /\ IdentityKept

Placing == {"placed", "plugmoved", "plugged"}

Program ==
    /\ up = "moved" => new = 2 /\ old # None
    /\ exe = None => up = "moved" \/ "exe" \in cut
    /\ plug.exe \in 1..2 => plug.man <= plug.exe
    /\ up = "plugmoved" /\ plug.old \in 1..2 => plug.man <= plug.old
    /\ up = "plugged" => plug.exe = 2
    /\ "plugin" \notin cut =>
           /\ exe = 2 /\ up \notin Placing => plug.exe = 2 /\ plug.man = 2
           /\ up = "moved" /\ old = 2 => plug.exe = 2 /\ plug.man = 2
           /\ plug.exe = 2 /\ up # "plugged" => plug.man = 2

AsideCur == UNION {aside[i].cur : i \in DOMAIN aside}

\* Where the records are.
Records ==
    /\ recovering => aside # <<>>
    /\ ~db.there => db.cur = {}
    /\ "log" \notin cut =>
           /\ Living(made) \subseteq db.cur \cup AsideCur
           /\ recovering => Living(made) \subseteq AsideCur
           /\ ~db.there /\ aside # <<>> =>
                  Latest.main = Latest.cur \/ \E p \in Procs : stage[p] = "asided"

\* No row beside its tombstone.
Clean(facts) == \A y \in Posts : y \in facts => Gone(y) \notin facts

Covers(facts, earlier) ==
    \A f \in earlier : f \in facts \/ (f \in Posts /\ Gone(f) \in facts)

InUse ==
    /\ \A y \in Posts : Gone(y) \in made => y \in made
    /\ db.main \cup db.cur \subseteq made
    /\ Clean(db.cur)
    /\ \A i \in DOMAIN backups : backups[i].rows \subseteq made /\ Clean(backups[i].rows)
    /\ \A i \in DOMAIN aside : aside[i].main \cup aside[i].cur \subseteq made
    /\ "copy" \notin cut =>
           /\ \A i, j \in Good : i < j => Covers(backups[i].rows, backups[j].rows)
           /\ db.there => \A i \in Good : Covers(db.cur, backups[i].rows)
           /\ ~db.there /\ ~recovering => Good = {} /\ aside = <<>>
           /\ ~recovering /\ aside # <<>> => Covers(db.cur, Readable(Latest))

NodeInv == Types /\ Exclusive /\ Done /\ Identity /\ Program /\ Records /\ InUse
-----------------------------------------------------------------------------
(* The database's operators                                                 *)

\* Every element of t is one of s, and in the same order.
Drawn(t, s) ==
    /\ \A i \in DOMAIN t : \E a \in DOMAIN s : t[i] = s[a]
    /\ \A i, j \in DOMAIN t : i < j => \E a, b \in DOMAIN s : a < b /\ t[i] = s[a] /\ t[j] = s[b]

\* buda takes backups away and neither adds nor reorders any.
LEMMA PrunedDrawn ==
    ASSUME NEW bs \in Seq(Backup), NEW kind, NEW k
    PROVE  Pruned(bs, kind, k) \in Seq(Backup) /\ Drawn(Pruned(bs, kind, k), bs)
<1> DEFINE I == {i \in DOMAIN bs : bs[i].kind = kind => Cardinality(NotOlder(bs, i)) <= k}
           t == AtPositions(bs, I)
<1>1. I \in SUBSET (DOMAIN bs) /\ t = Pruned(bs, kind, k)
  BY DEF Pruned
<1> HIDE DEF I
<1>2. t \in Seq(Backup) /\ Selects(t, bs, I)
  BY <1>1, FilterKeeps, Zenon
<1> HIDE DEF t
<1>3. PICK f \in [DOMAIN t -> I] :
          /\ \A n \in DOMAIN t : t[n] = bs[f[n]]
          /\ \A n, m \in DOMAIN t : n < m <=> f[n] < f[m]
  BY <1>2, Zenon DEF Selects
<1>4. Drawn(t, bs)
  BY <1>1, <1>3 DEF Drawn
<1> QED
  BY <1>1, <1>2, <1>4

LEMMA DrawnTwice ==
    ASSUME NEW s, NEW t, NEW u, Drawn(u, t), Drawn(t, s)
    PROVE  Drawn(u, s)
<1>1. \A i \in DOMAIN u : \E a \in DOMAIN s : u[i] = s[a]
  BY DEF Drawn
<1>2. ASSUME NEW i \in DOMAIN u, NEW j \in DOMAIN u, i < j
      PROVE  \E a, b \in DOMAIN s : a < b /\ u[i] = s[a] /\ u[j] = s[b]
  <2>1. PICK a \in DOMAIN t, b \in DOMAIN t : a < b /\ u[i] = t[a] /\ u[j] = t[b]
    BY <1>2 DEF Drawn
  <2> QED
    BY <2>1 DEF Drawn
<1> QED
  BY <1>1, <1>2 DEF Drawn

LEMMA WithBackupIs ==
    ASSUME db \in File, backups \in Seq(Backup), NEW kind \in {"daily", "upgrade"}
    PROVE  /\ WithBackup(kind) \in Seq(Backup)
           /\ DOMAIN WithBackup(kind) = 1..(Len(backups) + 1)
           /\ WithBackup(kind)[1] = [kind |-> kind, rows |-> db.cur, schema |-> db.schema, sound |-> TRUE]
           /\ \A i \in DOMAIN backups : WithBackup(kind)[i + 1] = backups[i]
<1> DEFINE b == [kind |-> kind, rows |-> db.cur, schema |-> db.schema, sound |-> TRUE]
<1>1. b \in Backup
  BY DEF Backup, File
<1>2. WithBackup(kind) = <<b>> \o backups
  BY DEF WithBackup
<1> HIDE DEF b
<1>3. <<b>> \in Seq(Backup) /\ Len(<<b>>) = 1 /\ <<b>>[1] = b
  BY <1>1
<1> QED
  BY <1>2, <1>3 DEF b

\* A backup is taken at the front, or none, and others are pruned.
LEMMA BackupsDrawn ==
    ASSUME db \in File, backups \in Seq(Backup), DailyBackup \/ UpgradeBackup
    PROVE  /\ backups' \in Seq(Backup)
           /\ \/ Drawn(backups', backups)
              \/ \E kind \in {"daily", "upgrade"} : Drawn(backups', WithBackup(kind))
<1>0. \A kind \in {"daily", "upgrade"} : WithBackup(kind) \in Seq(Backup)
  BY WithBackupIs, Zenon
<1>1. CASE UpgradeBackup
  <2>1. PICK u : backups' = Pruned(WithBackup("upgrade"), "upgrade", u)
    BY <1>1 DEF UpgradeBackup
  <2> QED
    BY <1>0, <2>1, PrunedDrawn, Zenon
<1>2. ASSUME NEW u, backups' = Pruned(backups, "upgrade", u)
      PROVE  backups' \in Seq(Backup) /\ Drawn(backups', backups)
  BY <1>2, PrunedDrawn, Zenon
<1>3. ASSUME NEW u, NEW k, backups' = Pruned(Pruned(WithBackup("daily"), "daily", k), "upgrade", u)
      PROVE  backups' \in Seq(Backup) /\ Drawn(backups', WithBackup("daily"))
  <2> DEFINE t == Pruned(WithBackup("daily"), "daily", k)
  <2>1. t \in Seq(Backup) /\ Drawn(t, WithBackup("daily"))
    BY <1>0, PrunedDrawn, Zenon
  <2>2. backups' = Pruned(t, "upgrade", u)
    BY <1>3
  <2> HIDE DEF t
  <2>3. backups' \in Seq(Backup) /\ Drawn(backups', t)
    BY <2>1, <2>2, PrunedDrawn, Zenon
  <2> QED
    BY <2>1, <2>3, DrawnTwice, Zenon
<1>4. CASE DailyBackup
  BY <1>4, <1>2, <1>3, Zenon DEF DailyBackup
<1> QED
  BY <1>1, <1>4

\* The newest good backup is the first of the good ones.
LEMMA NewestGoodIs ==
    ASSUME backups \in Seq(Backup), Good # {}
    PROVE  \E n \in Good : NewestGood = backups[n] /\ \A j \in Good : n <= j
<1>1. Good \subseteq DOMAIN backups /\ DOMAIN backups = 1..Len(backups) /\ Len(backups) \in Nat
  BY DEF Good
<1>2. IsFiniteSet(1..Len(backups))
  BY <1>1, FS_Interval
<1>3. IsFiniteSet(Good) /\ Good \subseteq Nat
  BY <1>1, <1>2, FS_Subset
<1>4. \E n \in Good : \A j \in Good : n <= j
  BY <1>3, FirstAndLast, Zenon
<1> DEFINE n == CHOOSE i \in Good : \A j \in Good : i <= j
<1>5. n \in Good /\ \A j \in Good : n <= j
  BY <1>4
<1>6. NewestGood = backups[n]
  BY DEF NewestGood
<1> HIDE DEF n
<1> QED
  BY <1>5, <1>6
-----------------------------------------------------------------------------
(* Types                                                                    *)

DbTyped ==
    /\ db \in File /\ aside \in Seq(Corrupt) /\ backups \in Seq(Backup)

LEMMA AsideTyped ==
    ASSUME DbTyped, aside # <<>>
    PROVE  /\ Len(aside) \in Nat /\ Len(aside) \in DOMAIN aside
           /\ Latest = aside[Len(aside)] /\ Latest \in Corrupt
BY DEF DbTyped, Latest

LEMMA WholeTyped ==
    ASSUME NEW rows \in SUBSET Facts, NEW schema \in Version
    PROVE  /\ Whole(rows, schema) \in File
           /\ Whole(rows, schema).there /\ Whole(rows, schema).main = rows
           /\ Whole(rows, schema).cur = rows /\ Whole(rows, schema).schema = schema
BY DEF Whole, Absent, File, Version

LEMMA AbsentTyped == Absent \in File /\ ~Absent.there /\ Absent.cur = {} /\ Absent.main = {}
BY DEF Absent, File, Version

LEMMA DropLogIs ==
    ASSUME DbTyped, DropLog
    PROVE  /\ aside' \in Seq(Corrupt) /\ Len(aside') = Len(aside)
           /\ aside = <<>> => aside' = <<>>
           /\ aside # <<>> => aside' = [aside EXCEPT ![Len(aside)] = [Latest EXCEPT !.cur = Latest.main]]
<1>1. CASE aside = <<>>
  BY <1>1 DEF DropLog, DbTyped
<1>2. CASE aside # <<>>
  <2>1. aside' = [aside EXCEPT ![Len(aside)] = [Latest EXCEPT !.cur = Latest.main]]
    BY <1>2 DEF DropLog, Latest
  <2>2. Len(aside) \in DOMAIN aside /\ Latest \in Corrupt
    BY <1>2, AsideTyped, Zenon
  <2>3. [Latest EXCEPT !.cur = Latest.main] \in Corrupt
    BY <2>2 DEF Corrupt
  <2> QED
    BY <1>2, <2>1, <2>2, <2>3 DEF DbTyped
<1> QED
  BY <1>1, <1>2

LEMMA MoveLogIs ==
    ASSUME DbTyped, MoveLog, aside # <<>>
    PROVE  /\ aside' \in Seq(Corrupt) /\ Len(aside') = Len(aside)
           /\ aside' = [aside EXCEPT ![Len(aside)] = [Latest EXCEPT !.main = Latest.cur]]
<1>1. aside' = [aside EXCEPT ![Len(aside)] = [Latest EXCEPT !.main = Latest.cur]]
  BY DEF MoveLog, Latest
<1>2. Len(aside) \in DOMAIN aside /\ Latest \in Corrupt
  BY AsideTyped, Zenon
<1>3. [Latest EXCEPT !.main = Latest.cur] \in Corrupt
  BY <1>2 DEF Corrupt
<1> QED
  BY <1>1, <1>2, <1>3 DEF DbTyped

LEMMA SetAsideIs ==
    ASSUME DbTyped, SetAside
    PROVE  /\ aside' \in Seq(Corrupt) /\ Len(aside') = Len(aside) + 1
           /\ db' = Absent
           /\ \A i \in 1..Len(aside) : aside'[i] = aside[i]
           /\ aside'[Len(aside) + 1] = [main |-> db.main, cur |-> db.cur, unread |-> db.unread]
<1> DEFINE c == [main |-> db.main, cur |-> db.cur, unread |-> db.unread]
<1>1. c \in Corrupt
  BY DEF DbTyped, File, Corrupt
<1>2. aside' = Append(aside, c) /\ db' = Absent
  BY DEF SetAside
<1> HIDE DEF c
<1>3. /\ aside' \in Seq(Corrupt) /\ Len(aside') = Len(aside) + 1
      /\ \A i \in 1..Len(aside) : aside'[i] = aside[i]
      /\ aside'[Len(aside) + 1] = c
  BY <1>1, <1>2 DEF DbTyped
<1> QED
  BY <1>2, <1>3 DEF c

LEMMA RestoreIs ==
    ASSUME DbTyped, Restore
    PROVE  /\ db' \in File /\ db'.there /\ db'.main = db'.cur
           /\ Good = {} => db'.cur = {}
           /\ Good # {} => \E n \in Good : db'.cur = backups[n].rows /\ \A j \in Good : n <= j
<1>1. CASE Good = {}
  <2>1. db' = Whole({}, 0)
    BY <1>1 DEF Restore
  <2>2. {} \in SUBSET Facts /\ 0 \in Version
    BY DEF Version
  <2> QED
    BY <1>1, <2>1, <2>2, WholeTyped
<1>2. CASE Good # {}
  <2>1. PICK n \in Good : NewestGood = backups[n] /\ \A j \in Good : n <= j
    BY <1>2, NewestGoodIs DEF DbTyped
  <2>2. backups[n] \in Backup
    BY <2>1 DEF Good, DbTyped
  <2>3. backups[n].rows \in SUBSET Facts /\ backups[n].schema \in Version
    BY <2>2 DEF Backup
  <2>4. db' = Whole(backups[n].rows, backups[n].schema)
    BY <1>2, <2>1 DEF Restore
  <2>5. db' \in File /\ db'.there /\ db'.main = backups[n].rows /\ db'.cur = backups[n].rows
    BY <2>3, <2>4, WholeTyped
  <2> QED
    BY <1>2, <2>1, <2>5
<1> QED
  BY <1>1, <1>2

LEMMA SalvagedTyped ==
    ASSUME DbTyped, aside # <<>>
    PROVE  Salvaged(Latest) \in SUBSET Facts
<1>1. Latest \in Corrupt /\ db \in File
  BY AsideTyped, Zenon DEF DbTyped
<1> QED
  BY <1>1 DEF Salvaged, Living, Readable, Corrupt, File

\* Each of the database's actions leaves values of its types.
LEMMA DbTypes ==
    ASSUME DbTyped,
           \/ OpenFile \/ SetAside
           \/ MoveLog /\ aside # <<>>
           \/ DropLog /\ UNCHANGED <<db, backups>>
           \/ Restore
           \/ Salvage /\ aside # <<>>
           \/ \E v \in Version : Migrate(v)
           \/ db' = Whole({}, 0) /\ UNCHANGED <<aside, backups>>
           \/ \E x \in Posts : Insert(x) \/ Delete(x)
           \/ Checkpoint \/ DamageFile \/ DamageBackup \/ DailyBackup \/ UpgradeBackup
    PROVE  DbTyped'
<1>0. /\ Whole({}, 0) \in File /\ Absent \in File
      /\ \A y \in Posts : y \in Facts /\ Gone(y) \in Facts
  BY WholeTyped, AbsentTyped DEF Facts, Version
<1>1. CASE OpenFile
  BY <1>0, <1>1, DropLogIs DEF OpenFile, DbTyped
<1>2. CASE SetAside
  BY <1>0, <1>2, SetAsideIs DEF SetAside, DbTyped
<1>3. CASE MoveLog /\ aside # <<>>
  BY <1>3, MoveLogIs DEF MoveLog, DbTyped
<1>4. CASE DropLog /\ UNCHANGED <<db, backups>>
  BY <1>4, DropLogIs DEF DbTyped
<1>5. CASE Restore
  BY <1>5, RestoreIs DEF Restore, DbTyped
<1>6. CASE Salvage /\ aside # <<>>
  BY <1>6, SalvagedTyped DEF Salvage, DbTyped, File
<1>7. CASE \E v \in Version : Migrate(v)
  BY <1>7 DEF Migrate, DbTyped, File
<1>8. CASE db' = Whole({}, 0) /\ UNCHANGED <<aside, backups>>
  BY <1>0, <1>8 DEF DbTyped
<1>9. ASSUME NEW x \in Posts, Insert(x) \/ Delete(x) PROVE DbTyped'
  BY <1>0, <1>9 DEF Insert, Delete, DbTyped, File
<1>10. CASE Checkpoint \/ DamageFile
  BY <1>10 DEF Checkpoint, DamageFile, DbTyped, File
<1>11. CASE DamageBackup
  <2>1. PICK i \in DOMAIN backups : backups' = [backups EXCEPT ![i].sound = FALSE]
    BY <1>11 DEF DamageBackup
  <2>2. backups[i] \in Backup
    BY <2>1 DEF DbTyped
  <2>3. [backups[i] EXCEPT !.sound = FALSE] \in Backup
    BY <2>2 DEF Backup
  <2>4. backups' = [backups EXCEPT ![i] = [backups[i] EXCEPT !.sound = FALSE]]
    BY <2>1
  <2>5. backups' \in Seq(Backup)
    BY <2>1, <2>3, <2>4 DEF DbTyped
  <2> QED
    BY <1>11, <2>5 DEF DamageBackup, DbTyped
<1>12. CASE DailyBackup \/ UpgradeBackup
  BY <1>12, BackupsDrawn DEF DailyBackup, UpgradeBackup, DbTyped
<1> QED
  BY <1>1, <1>2, <1>3, <1>4, <1>5, <1>6, <1>7, <1>8, <1>9, <1>10, <1>11, <1>12
-----------------------------------------------------------------------------
(* Who is where                                                             *)

\* A step within run(): the process has the lock and keeps it.
Goes(p) ==
    /\ \E to \in Stages \ Idle : stage' = [stage EXCEPT ![p] = to]
    /\ stage[p] \notin Idle
    /\ UNCHANGED <<holder, ver>>

\* A process ends, or is about to start its successor.
Leaves(p) ==
    /\ \E to \in {"off", "spawning"} : stage' = [stage EXCEPT ![p] = to]
    /\ holder' = Unlocked(p) /\ holder = p
    /\ Ended(p)

Stays == UNCHANGED <<stage, holder, ver>>

Within(p) ==
    \/ LogsIn(p) \/ Opens(p) \/ CloseNode(p) \/ Quit(p) \/ BackToForm(p) \/ ReplaceId(p)
    \/ PutBack(p) \/ DropDbLog(p) \/ CopyFails(p)

Leaving(p) == Cancel(p) \/ OpenFails(p) \/ Crash(p) \/ Release(p)

AtWork(p) == Works(p) \/ Updates(p) \/ UpdateFails(p)

LEMMA StepsAre ==
    ASSUME [Next]_vars
    PROVE  \/ UNCHANGED vars \/ Damage \/ CalmDown
           \/ \E p \in Procs :
                 \/ Launch(p) \/ TakeLock(p) \/ GiveUp(p) \/ SelfRestart(p)
                 \/ Within(p) \/ Leaving(p) \/ AtWork(p)
BY Zenon DEF Next, Within, Leaving, AtWork, Ends, Fails

LEMMA WithinGoes ==
    ASSUME Types, NEW p \in Procs, Within(p)
    PROVE  Goes(p)
<1> USE DEF Go, Goes, Stages, Idle
<1>1. CASE LogsIn(p)
  BY <1>1 DEF LogsIn, Register, Verify, Password, SaveReplaced
<1>2. CASE OpenDb(p) \/ SetDbAside(p) \/ MoveDbLog(p) \/ RestoreDb(p)
  BY <1>2 DEF OpenDb, SetDbAside, MoveDbLog, RestoreDb
<1>3. CASE UpgradeBackupDb(p) \/ MigrateDb(p) \/ SalvageDb(p) \/ Load(p)
  BY <1>3 DEF UpgradeBackupDb, MigrateDb, SalvageDb, Load, Next0
<1>4. CASE CloseNode(p) \/ Quit(p) \/ BackToForm(p) \/ ReplaceId(p)
  BY <1>4 DEF CloseNode, Quit, BackToForm, ReplaceId
<1>5. CASE PutBack(p) \/ DropDbLog(p) \/ CopyFails(p)
  BY <1>5 DEF PutBack, DropDbLog, CopyFails
<1> QED
  BY <1>1, <1>2, <1>3, <1>4, <1>5 DEF Within, Opens

LEMMA LeavingLeaves ==
    ASSUME Types, Exclusive, NEW p \in Procs, Leaving(p)
    PROVE  Leaves(p)
<1>0. stage \in [Procs -> Stages] /\ (stage[p] \notin Idle => holder = p)
  BY DEF Types, TypeOK, Exclusive
<1>1. CASE Cancel(p) \/ OpenFails(p) \/ Crash(p)
  BY <1>0, <1>1 DEF Cancel, OpenFails, Crash, Leaves, Idle
<1>2. CASE Release(p)
  BY <1>0, <1>2 DEF Release, Go, Leaves, Idle, Unlocked
<1> QED
  BY <1>1, <1>2 DEF Leaving

LEMMA AtWorkStays ==
    ASSUME NEW p \in Procs, AtWork(p)
    PROVE  Stays /\ stage[p] \notin Idle /\ UNCHANGED <<recovering, restart>>
<1> USE DEF Stays, Idle
<1>1. CASE Works(p)
  BY <1>1 DEF Works, Post, RemovePost, Upkeep, Receive, NodeUp
<1>2. CASE Updates(p)
  BY <1>2 DEF Updates, Download, Discard, MoveExe, NoExe, PlaceExe, RemoveOld, SkipPlugin,
              MovePlugin, PlacePlugin, WriteManifest, Step, Alive
<1>3. CASE UpdateFails(p)
  BY <1>3 DEF UpdateFails, Alive
<1> QED
  BY <1>1, <1>2, <1>3 DEF AtWork

\* A process that has the lock is the only one under way.
LEMMA Alone ==
    ASSUME Types, Exclusive, NEW p \in Procs, stage[p] \notin Idle
    PROVE  /\ holder = p
           /\ \A q \in Procs : q # p => stage[q] \in Idle
           /\ recovering => stage[p] \in Mending
           /\ up # "idle" => Alive(p)
<1>1. holder = p /\ \A q \in Procs : q # p => stage[q] \in Idle
  BY DEF Exclusive
<1>2. ASSUME recovering PROVE stage[p] \in Mending
  BY <1>1, <1>2 DEF Exclusive, Mending, Idle
<1>3. ASSUME up # "idle" PROVE Alive(p)
  BY <1>1, <1>3 DEF Exclusive, Alive, Idle
<1> QED
  BY <1>1, <1>2, <1>3

LEMMA WithinGoesOn ==
    ASSUME Types, Exclusive, NEW p \in Procs, Within(p)
    PROVE  /\ UNCHANGED up
           /\ Alive(p) => Alive(p)'
           /\ recovering' => stage'[p] \in Mending
           /\ stage'[p] \in {"asided", "logged", "salvaging"} => recovering'
<1>0. Goes(p) /\ stage[p] \notin Idle /\ stage \in [Procs -> Stages]
  BY WithinGoes DEF Goes, Types, TypeOK
<1>1. /\ recovering => stage[p] \in Mending
      /\ stage[p] \in {"asided", "logged", "salvaging"} => recovering
  BY <1>0, Alone DEF Exclusive
<1> USE DEF Go, Alive, Mending, exeVars
<1>2. CASE LogsIn(p)
  BY <1>0, <1>1, <1>2 DEF LogsIn, Register, Verify, Password, SaveReplaced
<1>3. CASE OpenDb(p) \/ SetDbAside(p) \/ MoveDbLog(p) \/ RestoreDb(p)
  BY <1>0, <1>1, <1>3 DEF OpenDb, SetDbAside, MoveDbLog, RestoreDb
<1>4. CASE UpgradeBackupDb(p) \/ MigrateDb(p) \/ SalvageDb(p) \/ Load(p)
  BY <1>0, <1>1, <1>4 DEF UpgradeBackupDb, MigrateDb, SalvageDb, Load, Next0
<1>5. CASE CloseNode(p) \/ Quit(p) \/ BackToForm(p) \/ ReplaceId(p)
  BY <1>0, <1>1, <1>5 DEF CloseNode, Quit, BackToForm, ReplaceId
<1>6. CASE PutBack(p) \/ DropDbLog(p) \/ CopyFails(p)
  BY <1>0, <1>1, <1>6 DEF PutBack, DropDbLog, CopyFails
<1> QED
  BY <1>2, <1>3, <1>4, <1>5, <1>6 DEF Within, Opens

LEMMA AtWorkGoesOn ==
    ASSUME NEW p \in Procs, AtWork(p)
    PROVE  up' # "idle" => up # "idle" \/ Alive(p)
<1>1. CASE Works(p)
  BY <1>1 DEF Works, Post, RemovePost, Upkeep, Receive, exeVars
<1>2. CASE Updates(p)
  BY <1>2 DEF Updates, Download, Discard, MoveExe, NoExe, PlaceExe, RemoveOld, SkipPlugin,
              MovePlugin, PlacePlugin, WriteManifest, Step
<1>3. CASE UpdateFails(p)
  BY <1>3 DEF UpdateFails
<1> QED
  BY <1>1, <1>2, <1>3 DEF AtWork

LEMMA ExclusiveStep ==
    ASSUME NodeInv, [Next]_vars
    PROVE  Exclusive' /\ (stage \in [Procs -> Stages] /\ holder \in Procs \cup {None})'
<1> USE DEF NodeInv
<1>0. stage \in [Procs -> Stages] /\ holder \in Procs \cup {None} /\ None \notin Procs
  BY NodeLifeAssumption DEF Types, TypeOK
<1>1. ASSUME NEW p \in Procs, Within(p)
      PROVE  Exclusive' /\ (stage \in [Procs -> Stages] /\ holder \in Procs \cup {None})'
  <2>1. Goes(p) /\ stage[p] \notin Idle
    BY <1>1, WithinGoes DEF Goes
  <2>2. PICK to \in Stages \ Idle : stage' = [stage EXCEPT ![p] = to]
    BY <2>1 DEF Goes
  <2>3. holder' = holder /\ holder = p /\ \A q \in Procs : q # p => stage[q] \in Idle
    BY <2>1, Alone DEF Goes
  <2>4. /\ UNCHANGED up
        /\ up # "idle" => Alive(p)'
        /\ recovering' => stage'[p] \in Mending
        /\ stage'[p] \in {"asided", "logged", "salvaging"} => recovering'
    BY <1>1, <2>1, WithinGoesOn, Alone
  <2>5. \A q \in Procs : stage'[q] = IF q = p THEN to ELSE stage[q]
    BY <1>0, <2>2
  <2> QED
    BY <1>0, <2>2, <2>3, <2>4, <2>5 DEF Exclusive, Idle
<1>2. ASSUME NEW p \in Procs, Leaving(p)
      PROVE  Exclusive' /\ (stage \in [Procs -> Stages] /\ holder \in Procs \cup {None})'
  <2>1. Leaves(p)
    BY <1>2, LeavingLeaves
  <2>2. PICK to \in {"off", "spawning"} : stage' = [stage EXCEPT ![p] = to]
    BY <2>1 DEF Leaves
  <2>3. holder = p /\ holder' = None /\ up' = "idle" /\ recovering' = FALSE
    BY <2>1 DEF Leaves, Unlocked, Ended
  <2>4. \A q \in Procs : stage'[q] = IF q = p THEN to ELSE stage[q]
    BY <1>0, <2>2
  <2>5. \A q \in Procs : stage'[q] \in Idle
    BY <2>2, <2>3, <2>4 DEF Exclusive, Idle
  <2>6. stage' \in [Procs -> Stages]
    BY <1>0, <2>2 DEF Stages
  <2> QED
    BY <1>0, <2>3, <2>5, <2>6 DEF Exclusive, Idle
<1>3. ASSUME NEW p \in Procs, AtWork(p)
      PROVE  Exclusive' /\ (stage \in [Procs -> Stages] /\ holder \in Procs \cup {None})'
  <2>1. Stays /\ stage[p] \notin Idle /\ UNCHANGED recovering
    BY <1>3, AtWorkStays
  <2>2. up' # "idle" => Alive(p)
    BY <1>3, <2>1, AtWorkGoesOn, Alone
  <2> QED
    BY <1>0, <2>1, <2>2 DEF Exclusive, Stays, Alive
<1>4. ASSUME NEW p \in Procs, Launch(p) \/ TakeLock(p) \/ GiveUp(p) \/ SelfRestart(p)
      PROVE  Exclusive' /\ (stage \in [Procs -> Stages] /\ holder \in Procs \cup {None})'
  <2>1. UNCHANGED <<up, recovering>> /\ stage[p] \in {"off", "waiting", "spawning"}
    BY <1>4 DEF Launch, TakeLock, GiveUp, SelfRestart, Go, exeVars
  <2>2. ASSUME NEW to \in {"off", "waiting"}, stage' = [stage EXCEPT ![p] = to], UNCHANGED holder
        PROVE  Exclusive' /\ (stage \in [Procs -> Stages] /\ holder \in Procs \cup {None})'
    <3>1. \A q \in Procs : stage'[q] = IF q = p THEN to ELSE stage[q]
      BY <1>0, <2>2
    <3>2. stage' \in [Procs -> Stages]
      BY <1>0, <2>2 DEF Stages
    <3> QED
      BY <1>0, <2>1, <2>2, <3>1, <3>2 DEF Exclusive, Alive, Idle, Mending
  <2>3. CASE TakeLock(p)
    <3>1. \A q \in Procs : stage'[q] = IF q = p THEN "login" ELSE stage[q]
      BY <1>0, <2>3 DEF TakeLock, Go
    <3>2. holder' = p /\ holder = None
      BY <2>3 DEF TakeLock, Free
    <3>3. \A q \in Procs : stage[q] \in Idle
      BY <1>0, <3>2 DEF Exclusive
    <3>4. stage' \in [Procs -> Stages]
      BY <1>0, <2>3 DEF TakeLock, Go, Stages
    <3> QED
      BY <1>0, <2>1, <3>1, <3>2, <3>3, <3>4 DEF Exclusive, Alive, Idle, Mending
  <2>4. CASE SelfRestart(p) /\ exe # None
    <3>1. PICK q \in Procs : (q = p \/ stage[q] = "off")
                             /\ stage' = [stage EXCEPT ![p] = "off", ![q] = "waiting"]
      BY <2>4 DEF SelfRestart
    <3>2. \A r \in Procs : stage'[r] = IF r = q THEN "waiting" ELSE IF r = p THEN "off" ELSE stage[r]
      BY <1>0, <3>1
    <3>3. stage' \in [Procs -> Stages] /\ holder' = holder
      BY <1>0, <2>4, <3>1 DEF Stages, SelfRestart
    <3> QED
      BY <1>0, <2>1, <3>1, <3>2, <3>3 DEF Exclusive, Alive, Idle, Mending
  <2>5. CASE Launch(p) \/ GiveUp(p) \/ (SelfRestart(p) /\ exe = None)
    BY <2>2, <2>5 DEF Launch, GiveUp, SelfRestart, Go
  <2> QED
    BY <1>4, <2>3, <2>4, <2>5, Zenon
<1>5. CASE UNCHANGED vars \/ Damage \/ CalmDown
  BY <1>0, <1>5 DEF vars, exeVars, Damage, CalmDown, Exclusive, Alive, Idle, Mending
<1> QED
  BY StepsAre, <1>1, <1>2, <1>3, <1>4, <1>5

MemTyped ==
    /\ ver \in [Procs -> Version] /\ book \subseteq Letters /\ mem \in [Procs -> SUBSET Letters]
    /\ recovering \in BOOLEAN /\ restart \in BOOLEAN

LEMMA MemTypesStep ==
    ASSUME NodeInv, [Next]_vars
    PROVE  MemTyped'
<1>0. /\ MemTyped /\ exe \in {None, 1, 2} /\ None \notin {0, 1, 2}
      /\ Types /\ Exclusive
  BY NodeLifeAssumption DEF NodeInv, Types, TypeOK, MemTyped
<1>1. ASSUME NEW p \in Procs, Within(p) PROVE MemTyped'
  <2>1. ver' = ver
    BY <1>0, <1>1, WithinGoes DEF Goes
  <2>2. CASE LogsIn(p)
    BY <1>0, <2>2 DEF LogsIn, Register, Verify, Password, SaveReplaced, MemTyped, bookVars
  <2>3. CASE OpenDb(p) \/ SetDbAside(p) \/ MoveDbLog(p) \/ RestoreDb(p)
    BY <1>0, <2>3 DEF OpenDb, SetDbAside, MoveDbLog, RestoreDb, MemTyped, bookVars
  <2>4. CASE UpgradeBackupDb(p) \/ MigrateDb(p) \/ SalvageDb(p)
    BY <1>0, <2>4 DEF UpgradeBackupDb, MigrateDb, SalvageDb, MemTyped, bookVars
  <2>5. CASE Load(p)
    BY <1>0, <2>5 DEF Load, MemTyped
  <2>6. CASE CloseNode(p) \/ BackToForm(p) \/ ReplaceId(p)
    BY <1>0, <2>6 DEF CloseNode, BackToForm, ReplaceId, MemTyped, bookVars
  <2>7. CASE Quit(p)
    <3>1. restart' \in BOOLEAN
      BY <2>7, Zenon DEF Quit
    <3> QED
      BY <1>0, <2>7, <3>1 DEF Quit, MemTyped, bookVars
  <2>8. CASE PutBack(p) \/ DropDbLog(p) \/ CopyFails(p)
    BY <1>0, <2>8 DEF PutBack, DropDbLog, CopyFails, MemTyped, bookVars
  <2> QED
    BY <1>1, <2>2, <2>3, <2>4, <2>5, <2>6, <2>7, <2>8 DEF Within, Opens
<1>2. ASSUME NEW p \in Procs, Leaving(p) PROVE MemTyped'
  <2>1. Ended(p)
    BY <1>0, <1>2, LeavingLeaves DEF Leaves
  <2>2. recovering' = FALSE /\ restart' = FALSE
    BY <2>1, Zenon DEF Ended
  <2>3. recovering' \in BOOLEAN /\ restart' \in BOOLEAN
    BY <2>2
  <2>4. ver' \in [Procs -> Version] /\ book' = book
    BY <1>0, <2>1 DEF Ended, MemTyped, Version
  <2>5. mem' \in [Procs -> SUBSET Letters]
    BY <1>0, <2>1 DEF Ended, MemTyped
  <2> QED
    BY <1>0, <2>3, <2>4, <2>5 DEF MemTyped
<1>3. ASSUME NEW p \in Procs, AtWork(p) PROVE MemTyped'
  <2>1. UNCHANGED <<ver, recovering, restart>>
    BY <1>3, AtWorkStays DEF Stays
  <2>2. CASE Receive(p)
    BY <1>0, <2>1, <2>2 DEF Receive, MemTyped
  <2>3. CASE Post(p) \/ RemovePost(p) \/ Upkeep(p) \/ UpdateFails(p)
    BY <1>0, <2>1, <2>3 DEF Post, RemovePost, Upkeep, UpdateFails, MemTyped, bookVars
  <2>4. CASE Updates(p)
    BY <1>0, <2>1, <2>4
       DEF Updates, Download, Discard, MoveExe, NoExe, PlaceExe, RemoveOld, SkipPlugin,
           MovePlugin, PlacePlugin, WriteManifest, Step, MemTyped, bookVars
  <2> QED
    BY <1>3, <2>2, <2>3, <2>4 DEF AtWork, Works
<1>4. ASSUME NEW p \in Procs, Launch(p) \/ TakeLock(p) \/ GiveUp(p) PROVE MemTyped'
  BY <1>0, <1>4 DEF Launch, TakeLock, GiveUp, MemTyped, bookVars, Version
<1>5. ASSUME NEW p \in Procs, SelfRestart(p) PROVE MemTyped'
  <2>1. UNCHANGED <<book, mem, recovering, restart>>
        /\ (ver' = ver \/ (exe # None /\ \E q \in Procs : ver' = [ver EXCEPT ![q] = exe]))
    BY <1>5 DEF SelfRestart, bookVars
  <2> QED
    BY <1>0, <2>1 DEF MemTyped, Version
<1>6. CASE UNCHANGED vars \/ Damage \/ CalmDown
  BY <1>0, <1>6 DEF vars, bookVars, Damage, CalmDown, MemTyped
<1> QED
  BY StepsAre, <1>1, <1>2, <1>3, <1>4, <1>5, <1>6

IdTyped == {file, draft, eski} \subseteq Ids \cup {None} /\ oldIds \cup ids \subseteq Ids

\* The steps that do not touch the identity.
LEMMA IdQuiet ==
    ASSUME NEW p \in Procs,
           \/ Launch(p) \/ TakeLock(p) \/ GiveUp(p) \/ SelfRestart(p)
           \/ Password(p) \/ Opens(p) \/ AtWork(p) \/ CloseNode(p) \/ Quit(p)
           \/ DropDbLog(p) \/ CopyFails(p)
    PROVE  UNCHANGED idVars
<1>1. CASE Launch(p) \/ TakeLock(p) \/ GiveUp(p) \/ SelfRestart(p)
  BY <1>1 DEF Launch, TakeLock, GiveUp, SelfRestart
<1>2. CASE Opens(p)
  BY <1>2 DEF Opens, OpenDb, SetDbAside, MoveDbLog, RestoreDb, UpgradeBackupDb, MigrateDb,
              SalvageDb, Load
<1>3. CASE Works(p)
  BY <1>3 DEF Works, Post, RemovePost, Upkeep, Receive
<1>4. CASE Updates(p)
  BY <1>4 DEF Updates, Download, Discard, MoveExe, NoExe, PlaceExe, RemoveOld, SkipPlugin,
              MovePlugin, PlacePlugin, WriteManifest, Step
<1>5. CASE UpdateFails(p) \/ Password(p) \/ CloseNode(p) \/ Quit(p) \/ DropDbLog(p) \/ CopyFails(p)
  BY <1>5 DEF UpdateFails, Password, CloseNode, Quit, DropDbLog, CopyFails
<1> QED
  BY <1>1, <1>2, <1>3, <1>4, <1>5 DEF AtWork

\* No identity is lost: the file that is overwritten is one that does not exist,
\* and a file is set aside before.
LEMMA IdentityStep ==
    ASSUME NodeInv, [Next]_vars
    PROVE  IdTyped' /\ Identity'
<1>0. /\ IdTyped /\ Identity /\ Types /\ Exclusive /\ None \notin Ids
      /\ stage \in [Procs -> Stages]
  BY NodeLifeAssumption DEF NodeInv, Types, TypeOK, IdTyped
<1> USE DEF IdTyped, Identity, IdentityKept
<1>1. ASSUME UNCHANGED idVars,
             \A q \in Procs : stage'[q] \in {"verify", "replacing"} => stage[q] \in {"verify", "replacing"}
      PROVE  IdTyped' /\ Identity'
  BY <1>0, <1>1 DEF idVars
<1>2. ASSUME NEW p \in Procs, Within(p),
             stage'[p] \notin {"verify", "replacing"} \/ (file' = None /\ draft' \in Ids)
      PROVE  \A q \in Procs : stage'[q] \in {"verify", "replacing"} => file' = None /\ draft' \in Ids
  <2>1. Goes(p) /\ \A q \in Procs : q # p => stage[q] \in Idle
    BY <1>0, <1>2, WithinGoes, Alone DEF Goes
  <2>2. \A q \in Procs : q # p => stage'[q] \in Idle
    BY <1>0, <2>1 DEF Goes
  <2> QED
    BY <1>2, <2>2 DEF Idle
<1>3. ASSUME NEW p \in Procs, Register(p) \/ Verify(p) PROVE IdTyped' /\ Identity'
  <2>1. Within(p)
    BY <1>3 DEF Within, LogsIn
  <2> QED
    BY <1>0, <1>2, <1>3, <2>1 DEF Register, Verify, Saved, Go
<1>4. ASSUME NEW p \in Procs, SaveReplaced(p) \/ BackToForm(p) PROVE IdTyped' /\ Identity'
  <2>1. Within(p)
    BY <1>4 DEF Within, LogsIn
  <2> QED
    BY <1>0, <1>2, <1>4, <2>1 DEF SaveReplaced, BackToForm, Saved, Go
<1>5. ASSUME NEW p \in Procs, ReplaceId(p) \/ PutBack(p) PROVE IdTyped' /\ Identity'
  <2>1. Within(p)
    BY <1>5 DEF Within
  <2> QED
    BY <1>0, <1>2, <1>5, <2>1 DEF ReplaceId, PutBack, KeptOld, Go
<1>6. ASSUME NEW p \in Procs, Leaving(p) PROVE IdTyped' /\ Identity'
  <2>1. Leaves(p) /\ holder = p
    BY <1>0, <1>6, LeavingLeaves DEF Leaves
  <2>2. \A q \in Procs : q # p => stage[q] \in Idle
    BY <1>0, <2>1 DEF Exclusive
  <2>3. \A q \in Procs : stage'[q] \in Idle
    BY <1>0, <2>1, <2>2 DEF Leaves, Idle
  <2>4. UNCHANGED <<file, oldIds, ids>> /\ draft' = None /\ eski' = None
    BY <1>6, <2>1 DEF Leaving, Cancel, OpenFails, Crash, Release, Leaves, Ended
  <2> QED
    BY <1>0, <2>3, <2>4 DEF Idle
<1>7. ASSUME NEW p \in Procs,
             \/ Password(p) \/ Opens(p) \/ CloseNode(p) \/ Quit(p) \/ DropDbLog(p) \/ CopyFails(p)
      PROVE  IdTyped' /\ Identity'
  <2>1. Goes(p) /\ UNCHANGED idVars
    BY <1>0, <1>7, WithinGoes, IdQuiet DEF Within, LogsIn
  <2>2. stage'[p] \notin {"verify", "replacing"}
    <3>1. CASE Password(p) \/ CloseNode(p) \/ Quit(p) \/ DropDbLog(p) \/ CopyFails(p)
      BY <1>0, <3>1 DEF Password, CloseNode, Quit, DropDbLog, CopyFails, Go
    <3>2. CASE Opens(p)
      BY <1>0, <3>2 DEF Opens, OpenDb, SetDbAside, MoveDbLog, RestoreDb, UpgradeBackupDb, MigrateDb,
                        SalvageDb, Load, Go, Next0
    <3> QED
      BY <1>7, <3>1, <3>2
  <2> QED
    BY <1>0, <1>1, <2>1, <2>2 DEF Goes
<1>8. ASSUME NEW p \in Procs, AtWork(p) PROVE IdTyped' /\ Identity'
  BY <1>0, <1>1, <1>8, AtWorkStays, IdQuiet DEF Stays
<1>9. ASSUME NEW p \in Procs, Launch(p) \/ TakeLock(p) \/ GiveUp(p) \/ SelfRestart(p)
      PROVE  IdTyped' /\ Identity'
  <2>1. UNCHANGED idVars
    BY <1>9, IdQuiet
  <2>2. \A q \in Procs : stage'[q] \in {"verify", "replacing"} => stage[q] \in {"verify", "replacing"}
    BY <1>0, <1>9 DEF Launch, TakeLock, GiveUp, SelfRestart, Go
  <2> QED
    BY <1>1, <2>1, <2>2
<1>10. CASE UNCHANGED vars \/ Damage \/ CalmDown
  BY <1>0, <1>1, <1>10 DEF vars, Damage, CalmDown
<1> QED
  BY StepsAre, <1>3, <1>4, <1>5, <1>6, <1>7, <1>8, <1>9, <1>10 DEF Within, LogsIn

ExeTyped ==
    /\ {exe, old} \subseteq {None, 1, 2} /\ new \in {None, 2, Bad}
    /\ plug \in [exe : 0..2, old : 0..2, man : 1..2]

\* The steps that have nothing to do with the update.
LEMMA ExeQuiet ==
    ASSUME NEW p \in Procs,
           \/ Launch(p) \/ TakeLock(p) \/ GiveUp(p) \/ SelfRestart(p)
           \/ Within(p) \/ Works(p)
    PROVE  UNCHANGED exeVars /\ ("exe" \in cut => "exe" \in cut') /\ ("plugin" \in cut => "plugin" \in cut')
<1>1. CASE Launch(p) \/ TakeLock(p) \/ GiveUp(p) \/ SelfRestart(p)
  BY <1>1 DEF Launch, TakeLock, GiveUp, SelfRestart
<1>2. CASE LogsIn(p)
  BY <1>2 DEF LogsIn, Register, Verify, Password, SaveReplaced
<1>3. CASE Opens(p)
  BY <1>3 DEF Opens, OpenDb, SetDbAside, MoveDbLog, RestoreDb, UpgradeBackupDb, MigrateDb,
              SalvageDb, Load
<1>4. CASE Works(p)
  BY <1>4 DEF Works, Post, RemovePost, Upkeep, Receive
<1>5. CASE CloseNode(p) \/ Quit(p) \/ BackToForm(p) \/ ReplaceId(p)
  BY <1>5 DEF CloseNode, Quit, BackToForm, ReplaceId
<1>6. CASE PutBack(p) \/ DropDbLog(p) \/ CopyFails(p)
  BY <1>6 DEF PutBack, DropDbLog, CopyFails
<1> QED
  BY <1>1, <1>2, <1>3, <1>4, <1>5, <1>6 DEF Within

\* Only what an update leaves half done may not fit together.
LEMMA ProgramStep ==
    ASSUME NodeInv, [Next]_vars
    PROVE  ExeTyped' /\ Program'
<1>0. /\ ExeTyped /\ Program /\ Types /\ Exclusive /\ None \notin {0, 1, 2, Bad}
      /\ Bad = 9
  BY NodeLifeAssumption DEF NodeInv, Types, ExeTyped, Bad
<1> USE DEF ExeTyped, Program, Placing
<1>1. ASSUME UNCHANGED exeVars,
             "exe" \in cut => "exe" \in cut', "plugin" \in cut => "plugin" \in cut'
      PROVE  ExeTyped' /\ Program'
  BY <1>0, <1>1 DEF exeVars
<1>2. ASSUME NEW p \in Procs, Download(p) \/ Discard(p) PROVE ExeTyped' /\ Program'
  BY <1>0, <1>2 DEF Download, Discard, Step
<1>3. ASSUME NEW p \in Procs, MoveExe(p) PROVE ExeTyped' /\ Program'
  BY <1>0, <1>3 DEF MoveExe, Step, Verified
<1>4. ASSUME NEW p \in Procs, NoExe(p) \/ PlaceExe(p) \/ RemoveOld(p) PROVE ExeTyped' /\ Program'
  BY <1>0, <1>4 DEF NoExe, PlaceExe, RemoveOld, Step
<1>5. ASSUME NEW p \in Procs, SkipPlugin(p) PROVE ExeTyped' /\ Program'
  BY <1>0, <1>5 DEF SkipPlugin, Step
<1>6. ASSUME NEW p \in Procs, MovePlugin(p) PROVE ExeTyped' /\ Program'
  <2>1. plug' = [exe |-> 0, old |-> plug.exe, man |-> plug.man]
    BY <1>0, <1>6 DEF MovePlugin
  <2>2. up = "placed" /\ up' = "plugmoved" /\ plug.exe # 2 /\ UNCHANGED <<exe, old, new, cut>>
    BY <1>6 DEF MovePlugin, Step
  <2> QED
    BY <1>0, <2>1, <2>2
<1>7. ASSUME NEW p \in Procs, PlacePlugin(p) \/ WriteManifest(p) PROVE ExeTyped' /\ Program'
  <2>1. CASE PlacePlugin(p)
    <3>1. plug' = [exe |-> 2, old |-> 0, man |-> plug.man]
      BY <1>0, <2>1 DEF PlacePlugin
    <3>2. up = "plugmoved" /\ up' = "plugged" /\ UNCHANGED <<exe, old, new, cut>>
      BY <2>1 DEF PlacePlugin, Step
    <3> QED
      BY <1>0, <3>1, <3>2
  <2>2. CASE WriteManifest(p)
    <3>1. plug' = [exe |-> plug.exe, old |-> plug.old, man |-> 2]
      BY <1>0, <2>2 DEF WriteManifest
    <3>2. up = "plugged" /\ up' = "done" /\ UNCHANGED <<exe, old, new, cut>>
      BY <2>2 DEF WriteManifest, Step
    <3> QED
      BY <1>0, <3>1, <3>2
  <2> QED
    BY <1>7, <2>1, <2>2
<1>8. ASSUME NEW p \in Procs, UpdateFails(p) PROVE ExeTyped' /\ Program'
  <2>1. CASE up \in {"got", "moved"} /\ up' = "over"
    BY <1>0, <1>8, <2>1 DEF UpdateFails
  <2>2. CASE up \in {"placed", "plugmoved", "plugged"} /\ up' = "done"
    <3>1. /\ UNCHANGED <<exe, old, new>> /\ "plugin" \in cut' /\ ("exe" \in cut => "exe" \in cut')
          /\ plug' = IF up = "plugmoved" THEN [plug EXCEPT !.exe = plug.old, !.old = 0] ELSE plug
      BY <1>8, <2>2 DEF UpdateFails
    <3>2. CASE up = "plugmoved"
      <4>1. plug' = [exe |-> plug.old, old |-> 0, man |-> plug.man]
        BY <1>0, <3>1, <3>2
      <4> QED
        BY <1>0, <2>2, <3>1, <3>2, <4>1
    <3>3. CASE up # "plugmoved"
      BY <1>0, <2>2, <3>1, <3>3
    <3> QED
      BY <3>2, <3>3
  <2> QED
    BY <1>8, <2>1, <2>2 DEF UpdateFails
<1>9. ASSUME NEW p \in Procs, Leaving(p) PROVE ExeTyped' /\ Program'
  <2>1. Leaves(p) /\ holder = p /\ up' = "idle"
    BY <1>0, <1>9, LeavingLeaves DEF Leaves, Ended
  <2>2. UNCHANGED <<exe, old, new, plug>>
    BY <1>9 DEF Leaving, Cancel, OpenFails, Crash, Release
  <2>3. CASE Crash(p) \/ Release(p)
    <3>1. cut' = cut \cup CutShort(p)
      BY <2>3 DEF Crash, Release
    <3>2. /\ "exe" \in cut => "exe" \in cut'
          /\ "plugin" \in cut => "plugin" \in cut'
          /\ up = "moved" => "exe" \in cut'
          /\ up \in Placing => "plugin" \in cut'
      BY <3>1 DEF CutShort
    <3> QED
      BY <1>0, <2>1, <2>2, <3>2
  <2>4. CASE Cancel(p) \/ OpenFails(p)
    <3>1. stage[p] \in {"login", "verify", "opening", "migrating", "upgrading"} /\ UNCHANGED cut
      BY <2>4 DEF Cancel, OpenFails
    <3>2. up = "idle"
      BY <1>0, <3>1, Alone DEF Alive, Idle
    <3> QED
      BY <1>0, <2>1, <2>2, <3>1, <3>2
  <2> QED
    BY <1>9, <2>3, <2>4 DEF Leaving
<1>10. CASE UNCHANGED vars \/ Damage \/ CalmDown
  BY <1>1, <1>10 DEF vars, Damage, CalmDown
<1> QED
  BY StepsAre, ExeQuiet, <1>1, <1>2, <1>3, <1>4, <1>5, <1>6, <1>7, <1>8, <1>9, <1>10
     DEF AtWork, Updates
-----------------------------------------------------------------------------
(* The database under the steps                                             *)

\* The steps within run() that leave the database alone.
DbIdle(p) ==
    \/ LogsIn(p) \/ Load(p) \/ CloseNode(p) \/ BackToForm(p) \/ ReplaceId(p) \/ PutBack(p)

LEMMA DbIdleLeaves ==
    ASSUME Types, NEW p \in Procs, DbIdle(p)
    PROVE  /\ UNCHANGED <<db, aside, backups, made, recovering, cut>>
           /\ stage'[p] # "asided" /\ stage[p] # "asided"
           /\ stage'[p] \in Opened => stage[p] \in Migrated
<1>0. stage \in [Procs -> Stages]
  BY DEF Types, TypeOK
<1> USE DEF dbVars, Go, Opened, Migrated
<1>1. CASE LogsIn(p)
  BY <1>0, <1>1 DEF LogsIn, Register, Verify, Password, SaveReplaced
<1>2. CASE Load(p) \/ CloseNode(p) \/ BackToForm(p) \/ ReplaceId(p) \/ PutBack(p)
  BY <1>0, <1>2 DEF Load, CloseNode, BackToForm, ReplaceId, PutBack
<1> QED
  BY <1>1, <1>2 DEF DbIdle

\* And those of the other steps.
LEMMA OthersLeave ==
    ASSUME NEW p \in Procs,
           \/ Launch(p) \/ TakeLock(p) \/ GiveUp(p) \/ SelfRestart(p)
           \/ Receive(p) \/ Updates(p) \/ UpdateFails(p)
    PROVE  /\ UNCHANGED <<db, aside, backups, made, recovering>>
           /\ "log" \in cut => "log" \in cut'
           /\ "copy" \in cut => "copy" \in cut'
<1> USE DEF dbVars
<1>1. CASE Launch(p) \/ TakeLock(p) \/ GiveUp(p) \/ SelfRestart(p)
  BY <1>1 DEF Launch, TakeLock, GiveUp, SelfRestart
<1>2. CASE Updates(p)
  BY <1>2 DEF Updates, Download, Discard, MoveExe, NoExe, PlaceExe, RemoveOld, SkipPlugin,
              MovePlugin, PlacePlugin, WriteManifest, Step
<1>3. CASE Receive(p) \/ UpdateFails(p)
  BY <1>3 DEF Receive, UpdateFails
<1> QED
  BY <1>1, <1>2, <1>3

LEMMA LeavingCuts ==
    ASSUME Types, Exclusive, NEW p \in Procs, Leaving(p)
    PROVE  /\ UNCHANGED <<db, aside, backups, made>> /\ recovering' = FALSE
           /\ \A q \in Procs : stage'[q] \in Idle
           /\ "log" \in cut => "log" \in cut'
           /\ "copy" \in cut => "copy" \in cut'
           /\ recovering => "copy" \in cut'
           /\ (\E q \in Procs : stage[q] = "asided") => "log" \in cut'
<1>1. Leaves(p) /\ holder = p
  BY LeavingLeaves DEF Leaves
<1>2. stage \in [Procs -> Stages] /\ \A q \in Procs : q # p => stage[q] \in Idle
  BY <1>1 DEF Exclusive, Types, TypeOK
<1>3. (\A q \in Procs : stage'[q] \in Idle) /\ recovering' = FALSE
  BY <1>1, <1>2 DEF Leaves, Idle, Ended
<1>4. (\E q \in Procs : stage[q] = "asided") => stage[p] = "asided"
  BY <1>2 DEF Idle
<1>5. CASE Crash(p) \/ Release(p)
  BY <1>3, <1>4, <1>5 DEF Crash, Release, CutShort, dbVars
<1>6. CASE Cancel(p) \/ OpenFails(p)
  <2>1. stage[p] # "asided" /\ UNCHANGED <<db, aside, backups, made, cut>>
    BY <1>6 DEF Cancel, OpenFails, dbVars
  <2>2. ~recovering
    BY <1>1, <1>2, <1>6, Alone DEF Cancel, OpenFails, Mending, Idle
  <2> QED
    BY <1>3, <1>4, <2>1, <2>2
<1> QED
  BY <1>5, <1>6 DEF Leaving

\* What moves within run() is at the step's new stage, and the others stay out.
LEMMA WithinMoves ==
    ASSUME Types, Exclusive, NEW p \in Procs, Within(p)
    PROVE  /\ holder = p /\ stage[p] \notin Idle /\ UNCHANGED ver
           /\ \A q \in Procs : q # p => stage[q] \in Idle /\ stage'[q] \in Idle
BY WithinGoes, Alone DEF Goes, Types, TypeOK

LEMMA DoneStep ==
    ASSUME NodeInv, [Next]_vars
    PROVE  Done'
<1>0. /\ Done /\ Types /\ Exclusive /\ stage \in [Procs -> Stages] /\ db \in File
      /\ ver \in [Procs -> Version] /\ mem \in [Procs -> SUBSET Letters]
  BY DEF NodeInv, Types, TypeOK, DbTypeOK
<1>00. /\ Opened \cap Idle = {} /\ Migrated \subseteq Opened
       /\ \A q \in Procs : stage'[q] \in Idle => stage'[q] \notin Opened /\ ~NodeUp(q)'
  BY DEF Opened, Migrated, Idle, NodeUp
<1>1. ASSUME NEW p \in Procs, Within(p),
             stage'[p] \in Opened => db'.there,
             stage'[p] \in Migrated => db'.schema >= ver'[p],
             NodeUp(p)' => book' \subseteq mem'[p]
      PROVE  Done'
  BY <1>0, <1>00, <1>1, WithinMoves DEF Done
<1>2. ASSUME NEW p \in Procs, DbIdle(p) PROVE Done'
  <2>1. Within(p)
    BY <1>2 DEF Within, DbIdle, Opens
  <2>2. /\ db' = db /\ UNCHANGED ver
        /\ stage'[p] \in Opened => stage[p] \in Migrated
    BY <1>0, <1>2, <2>1, DbIdleLeaves, WithinMoves
  <2>3. NodeUp(p)' => book' \subseteq mem'[p]
    <3>1. CASE LogsIn(p) \/ BackToForm(p) \/ ReplaceId(p) \/ PutBack(p)
      BY <1>0, <3>1 DEF LogsIn, Register, Verify, Password, SaveReplaced, BackToForm, ReplaceId,
                        PutBack, Go, NodeUp
    <3>2. CASE Load(p)
      BY <1>0, <3>2 DEF Load
    <3>3. CASE CloseNode(p)
      BY <1>0, <3>3 DEF CloseNode, Go, NodeUp
    <3> QED
      BY <1>2, <3>1, <3>2, <3>3 DEF DbIdle
  <2> QED
    BY <1>0, <1>00, <1>1, <2>1, <2>2, <2>3 DEF Done
<1>3. ASSUME NEW p \in Procs,
             \/ OpenDb(p) \/ SetDbAside(p) \/ MoveDbLog(p) \/ DropDbLog(p) \/ RestoreDb(p) \/ CopyFails(p)
      PROVE  Done'
  <2>1. Within(p)
    BY <1>3 DEF Within, Opens
  <2>2. stage'[p] \in {"migrating", "asided", "logged"} /\ (stage'[p] = "migrating" => db'.there)
    BY <1>0, <1>3, RestoreIs, WholeTyped
       DEF OpenDb, SetDbAside, MoveDbLog, DropDbLog, RestoreDb, CopyFails, Go, OpenFile, DbTyped, Types,
           Version
  <2> QED
    BY <1>1, <2>1, <2>2 DEF Opened, Migrated, NodeUp
<1>4. ASSUME NEW p \in Procs, UpgradeBackupDb(p) PROVE Done'
  <2>1. Within(p) /\ stage[p] = "migrating" /\ stage'[p] = "upgrading" /\ db' = db
    BY <1>0, <1>4 DEF Within, Opens, UpgradeBackupDb, UpgradeBackup, Go
  <2> QED
    BY <1>0, <1>1, <2>1 DEF Done, Opened, Migrated, NodeUp
<1>5. ASSUME NEW p \in Procs, MigrateDb(p) PROVE Done'
  <2>1. /\ Within(p) /\ stage[p] \in {"migrating", "upgrading"} /\ stage'[p] \in {"salvaging", "loading"}
        /\ db' = [db EXCEPT !.schema = IF @ < ver[p] THEN ver[p] ELSE @] /\ UNCHANGED ver
    BY <1>0, <1>5 DEF Within, Opens, MigrateDb, Migrate, Go, Next0
  <2>2. db.there /\ db.schema \in 0..2 /\ ver[p] \in 0..2
    BY <1>0, <2>1 DEF Done, Opened, File, Version
  <2>3. db'.there /\ db'.schema >= ver[p]
    BY <1>0, <2>1, <2>2 DEF File
  <2> QED
    BY <1>1, <2>1, <2>3 DEF NodeUp
<1>6. ASSUME NEW p \in Procs, SalvageDb(p) PROVE Done'
  <2>1. /\ Within(p) /\ stage[p] = "salvaging" /\ stage'[p] = "loading" /\ UNCHANGED ver
        /\ db' = [db EXCEPT !.cur = Salvaged(Latest)]
    BY <1>0, <1>6 DEF Within, Opens, SalvageDb, Salvage, Go
  <2>2. db'.there = db.there /\ db'.schema = db.schema
    BY <1>0, <2>1 DEF File
  <2> QED
    BY <1>0, <1>1, <2>1, <2>2 DEF Done, Opened, Migrated, NodeUp
<1>7. ASSUME NEW p \in Procs, Quit(p) PROVE Done'
  <2>1. /\ Within(p) /\ stage[p] = "running" /\ stage'[p] = "closed" /\ UNCHANGED <<ver, book, mem>>
        /\ db' = [db EXCEPT !.main = db.cur]
    BY <1>0, <1>7 DEF Within, Quit, Checkpoint, Go, bookVars
  <2>2. db'.there = db.there /\ db'.schema = db.schema
    BY <1>0, <2>1 DEF File
  <2> QED
    BY <1>0, <1>1, <2>1, <2>2 DEF Done, Opened, Migrated, NodeUp
<1>8. ASSUME UNCHANGED <<stage, ver, book, mem>>, db'.there = db.there, db'.schema = db.schema
      PROVE  Done'
  BY <1>0, <1>8 DEF Done, NodeUp
<1>9. ASSUME NEW p \in Procs, Post(p) \/ RemovePost(p) \/ Upkeep(p) PROVE Done'
  <2>1. UNCHANGED <<stage, ver, book, mem>>
    BY <1>9 DEF Post, RemovePost, Upkeep, bookVars
  <2>2. db'.there = db.there /\ db'.schema = db.schema
    BY <1>0, <1>9 DEF Post, RemovePost, Upkeep, Insert, Delete, DailyBackup, Checkpoint, File
  <2> QED
    BY <1>8, <2>1, <2>2
<1>10. ASSUME NEW p \in Procs, Receive(p) PROVE Done'
  <2>1. \A q \in Procs : q # p => stage[q] \in Idle
    BY <1>0, <1>10, Alone DEF Receive, NodeUp, Idle
  <2>2. UNCHANGED <<stage, ver, db>> /\ book' = mem'[p]
    BY <1>10 DEF Receive, dbVars
  <2>3. \A q \in Procs : NodeUp(q)' => q = p
    BY <2>1, <2>2 DEF NodeUp, Idle
  <2> QED
    BY <1>0, <2>2, <2>3 DEF Done
<1>11. ASSUME NEW p \in Procs, Updates(p) \/ UpdateFails(p) PROVE Done'
  <2>1. Stays /\ db' = db
    BY <1>11, AtWorkStays, OthersLeave DEF AtWork
  <2>2. UNCHANGED <<book, mem>>
    BY <1>11 DEF Updates, Download, Discard, MoveExe, NoExe, PlaceExe, RemoveOld, SkipPlugin,
                 MovePlugin, PlacePlugin, WriteManifest, Step, UpdateFails, bookVars
  <2> QED
    BY <1>8, <2>1, <2>2 DEF Stays
<1>12. ASSUME NEW p \in Procs, Leaving(p) PROVE Done'
  BY <1>0, <1>00, <1>12, LeavingCuts DEF Done
<1>13. ASSUME NEW p \in Procs, Launch(p) \/ TakeLock(p) \/ GiveUp(p) \/ SelfRestart(p) PROVE Done'
  <2>1. UNCHANGED <<db, book, mem>>
    BY <1>13 DEF Launch, TakeLock, GiveUp, SelfRestart, dbVars, bookVars
  <2>2. \A q \in Procs : \/ stage'[q] \in {"off", "waiting", "login"}
                         \/ stage'[q] = stage[q] /\ ver'[q] = ver[q]
    BY <1>0, <1>13 DEF Launch, TakeLock, GiveUp, SelfRestart, Go
  <2> QED
    BY <1>0, <2>1, <2>2 DEF Done, Opened, Migrated, NodeUp
<1>14. CASE UNCHANGED vars \/ CalmDown
  BY <1>8, <1>14 DEF vars, CalmDown, dbVars, bookVars
<1>15. CASE Damage
  <2>1. db'.there = db.there /\ db'.schema = db.schema
    BY <1>0, <1>15 DEF Damage, DamageFile, DamageBackup, File
  <2> QED
    BY <1>8, <1>15, <2>1 DEF Damage, bookVars
<1> QED
  BY StepsAre, <1>2, <1>3, <1>4, <1>5, <1>6, <1>7, <1>9, <1>10, <1>11, <1>12, <1>13, <1>14, <1>15
     DEF Within, Opens, AtWork, Works, DbIdle

\* The last file set aside, before and after a step that changes only it.
LEMMA LastChanged ==
    ASSUME NEW S, NEW s \in Seq(S), s # <<>>, NEW e, NEW t, t = [s EXCEPT ![Len(s)] = e]
    PROVE  /\ DOMAIN t = DOMAIN s /\ Len(t) = Len(s) /\ t # <<>> /\ t[Len(s)] = e
           /\ \A i \in DOMAIN s : i # Len(s) => t[i] = s[i]
           /\ Len(s) \in DOMAIN s
BY EmptySeq

LEMMA LivingGrows ==
    ASSUME NEW facts, NEW y \in Posts
    PROVE  /\ Living(facts \cup {y}) \subseteq Living(facts) \cup {y}
           /\ Living(facts \cup {Gone(y)}) \subseteq (Living(facts) \ {y}) \cup {Gone(y)}
BY DEF Living

DbTypesOK == DbTyped /\ made \subseteq Facts

\* The rows that are not to be lost stay in forum.db or in a file set aside, and
\* while a recovery runs in the files set aside.
LEMMA RecordsStep ==
    ASSUME NodeInv, [Next]_vars
    PROVE  Records' /\ DbTypesOK'
<1>0. /\ Records /\ Types /\ Exclusive /\ DbTypesOK /\ DbTyped /\ stage \in [Procs -> Stages]
      /\ recovering \in BOOLEAN /\ ver \in [Procs -> Version]
      /\ \A p \in Procs : stage[p] \in {"asided", "logged", "salvaging"} => recovering
  BY DEF NodeInv, Types, TypeOK, DbTypeOK, DbTypesOK, DbTyped, Exclusive
<1>1. ASSUME UNCHANGED <<db, aside, backups, made, recovering>>, "log" \in cut => "log" \in cut',
             (\E p \in Procs : stage[p] = "asided") => \E p \in Procs : stage'[p] = "asided"
      PROVE  Records' /\ DbTypesOK'
  BY <1>0, <1>1 DEF Records, DbTypesOK, DbTyped, AsideCur, Latest
<1>2. ASSUME NEW p \in Procs, DbIdle(p) PROVE Records' /\ DbTypesOK'
  <2>1. Within(p)
    BY <1>2 DEF Within, DbIdle, Opens
  <2>2. \A q \in Procs : stage[q] # "asided"
    BY <1>0, <1>2, <2>1, DbIdleLeaves, WithinMoves DEF Idle
  <2> QED
    BY <1>0, <1>1, <1>2, <2>2, DbIdleLeaves
<1>3. ASSUME NEW p \in Procs, OpenDb(p) PROVE Records' /\ DbTypesOK'
  <2>1. OpenFile /\ Within(p) /\ stage[p] = "opening" /\ UNCHANGED <<made, recovering, cut>>
    BY <1>3 DEF OpenDb, Within, Opens, Go
  <2>2. DbTypesOK'
    BY <1>0, <2>1, DbTypes DEF DbTypesOK
  <2>3. ~recovering /\ \A q \in Procs : stage[q] # "asided"
    BY <1>0, <2>1, Alone DEF Mending, Idle
  <2>4. CASE db.there
    BY <1>0, <2>1, <2>2, <2>3, <2>4 DEF OpenFile, Records, AsideCur, Latest
  <2>5. CASE ~db.there /\ aside = <<>>
    <3>1. aside' = aside /\ db'.there
      BY <1>0, <2>1, <2>5, WholeTyped DEF OpenFile, DropLog, Version
    <3> QED
      BY <1>0, <2>1, <2>2, <2>3, <2>5, <3>1 DEF Records, AsideCur
  <2>6. CASE ~db.there /\ aside # <<>>
    <3>1. db' = Whole({}, 0) /\ DropLog
      BY <2>1, <2>6 DEF OpenFile
    <3>2. db'.there
      BY <3>1, WholeTyped DEF Version
    <3>3. aside' = [aside EXCEPT ![Len(aside)] = [Latest EXCEPT !.cur = Latest.main]]
      BY <1>0, <2>6, <3>1, DropLogIs
    <3>4. Latest \in Corrupt /\ Latest = aside[Len(aside)]
      BY <1>0, <2>6, AsideTyped
    <3>5. ASSUME "log" \notin cut PROVE \A i \in DOMAIN aside : aside'[i].cur = aside[i].cur
      <4>1. Latest.main = Latest.cur
        BY <1>0, <2>3, <2>6, <3>5 DEF Records
      <4>2. /\ aside'[Len(aside)] = [Latest EXCEPT !.cur = Latest.main]
            /\ \A i \in DOMAIN aside : i # Len(aside) => aside'[i] = aside[i]
        BY <1>0, <2>6, <3>3, LastChanged DEF DbTyped
      <4>3. aside'[Len(aside)].cur = Latest.cur
        BY <3>4, <4>1, <4>2 DEF Corrupt
      <4> QED
        BY <3>4, <4>2, <4>3
    <3>6. DOMAIN aside' = DOMAIN aside
      BY <3>3
    <3>7. "log" \notin cut => AsideCur' = AsideCur
      BY <3>5, <3>6 DEF AsideCur
    <3> QED
      BY <1>0, <2>1, <2>2, <2>3, <2>6, <3>2, <3>7 DEF Records
  <2> QED
    BY <2>4, <2>5, <2>6
<1>4. ASSUME NEW p \in Procs, SetDbAside(p) PROVE Records' /\ DbTypesOK'
  <2>1. /\ SetAside /\ recovering' = TRUE /\ UNCHANGED <<made, cut>> /\ stage'[p] = "asided"
    BY <1>0, <1>4 DEF SetDbAside, Go
  <2>2. DbTypesOK'
    BY <1>0, <2>1, DbTypes DEF DbTypesOK
  <2>3. /\ aside' \in Seq(Corrupt) /\ Len(aside') = Len(aside) + 1
        /\ db' = Absent
        /\ \A i \in 1..Len(aside) : aside'[i] = aside[i]
        /\ aside'[Len(aside) + 1] = [main |-> db.main, cur |-> db.cur, unread |-> db.unread]
    BY <1>0, <2>1, SetAsideIs
  <2>4. db.cur \cup AsideCur \subseteq AsideCur'
    <3>1. /\ DOMAIN aside = 1..Len(aside) /\ DOMAIN aside' = 1..(Len(aside) + 1) /\ Len(aside) \in Nat
          /\ aside'[Len(aside) + 1].cur = db.cur
      BY <1>0, <2>3 DEF DbTyped
    <3> QED
      BY <2>3, <3>1 DEF AsideCur
  <2>5. aside' # <<>> /\ db'.cur = {}
    BY <1>0, <2>3, AbsentTyped DEF DbTyped
  <2> QED
    BY <1>0, <2>1, <2>2, <2>4, <2>5 DEF Records
<1>5. ASSUME NEW p \in Procs, MoveDbLog(p) PROVE Records' /\ DbTypesOK'
  <2>1. /\ MoveLog /\ UNCHANGED <<db, made, recovering, cut>> /\ stage[p] = "asided"
    BY <1>5 DEF MoveDbLog, Go, MoveLog
  <2>2. recovering /\ aside # <<>>
    BY <1>0, <2>1 DEF Records
  <2>3. DbTypesOK'
    BY <1>0, <2>1, <2>2, DbTypes DEF DbTypesOK
  <2>4. /\ aside' = [aside EXCEPT ![Len(aside)] = [Latest EXCEPT !.main = Latest.cur]]
        /\ Len(aside') = Len(aside) /\ aside' \in Seq(Corrupt)
    BY <1>0, <2>1, <2>2, MoveLogIs
  <2>5. Latest \in Corrupt /\ Latest = aside[Len(aside)]
    BY <1>0, <2>2, AsideTyped
  <2>6. /\ DOMAIN aside' = DOMAIN aside /\ aside' # <<>>
        /\ aside'[Len(aside)] = [Latest EXCEPT !.main = Latest.cur]
        /\ \A i \in DOMAIN aside : i # Len(aside) => aside'[i] = aside[i]
    BY <1>0, <2>2, <2>4, LastChanged DEF DbTyped
  <2>7. aside'[Len(aside)].cur = Latest.cur /\ aside'[Len(aside)].main = Latest.cur
    BY <2>5, <2>6 DEF Corrupt
  <2>8. \A i \in DOMAIN aside : aside'[i].cur = aside[i].cur
    BY <2>5, <2>6, <2>7
  <2>9. AsideCur' = AsideCur
    BY <2>6, <2>8 DEF AsideCur
  <2>10. Latest'.main = Latest'.cur
    BY <2>4, <2>7 DEF Latest
  <2> QED
    BY <1>0, <2>1, <2>2, <2>3, <2>6, <2>9, <2>10 DEF Records
<1>6. ASSUME NEW p \in Procs, DropDbLog(p) PROVE Records' /\ DbTypesOK'
  <2>1. /\ DropLog /\ UNCHANGED <<db, backups, made, recovering>> /\ stage[p] = "asided" /\ "log" \in cut'
    BY <1>6 DEF DropDbLog, Go
  <2>2. recovering /\ aside # <<>>
    BY <1>0, <2>1 DEF Records
  <2>3. DbTypesOK'
    BY <1>0, <2>1, <2>2, DbTypes DEF DbTypesOK
  <2>4. aside' # <<>>
    BY <1>0, <2>1, <2>2, DropLogIs DEF DbTyped
  <2> QED
    BY <1>0, <2>1, <2>2, <2>3, <2>4 DEF Records
<1>7. ASSUME NEW p \in Procs, RestoreDb(p) \/ CopyFails(p) PROVE Records' /\ DbTypesOK'
  <2>1. /\ UNCHANGED <<aside, made, recovering>> /\ recovering
        /\ "log" \in cut => "log" \in cut'
        /\ Restore \/ (db' = Whole({}, 0) /\ UNCHANGED <<aside, backups>>)
    BY <1>0, <1>7 DEF RestoreDb, CopyFails, Restore, Go
  <2>2. DbTypesOK' /\ db'.there
    BY <1>0, <2>1, DbTypes, RestoreIs, WholeTyped DEF DbTypesOK, Version
  <2> QED
    BY <1>0, <2>1, <2>2 DEF Records, AsideCur
<1>8. ASSUME NEW p \in Procs, UpgradeBackupDb(p) \/ MigrateDb(p) PROVE Records' /\ DbTypesOK'
  <2>1. /\ Within(p) /\ UNCHANGED <<aside, made, recovering, cut>> 
        /\ (UpgradeBackup \/ Migrate(ver[p]))
        /\ stage[p] # "asided"
    BY <1>0, <1>8 DEF UpgradeBackupDb, MigrateDb, Within, Opens, UpgradeBackup, Migrate, Go
  <2>2. DbTypesOK'
    BY <1>0, <2>1, DbTypes DEF DbTypesOK
  <2>3. db'.there = db.there /\ db'.cur = db.cur
    BY <1>0, <2>1 DEF UpgradeBackup, Migrate, DbTyped, File
  <2>4. \A q \in Procs : stage[q] # "asided"
    BY <1>0, <2>1, WithinMoves DEF Idle
  <2> QED
    BY <1>0, <2>1, <2>2, <2>3, <2>4 DEF Records, AsideCur, Latest
<1>9. ASSUME NEW p \in Procs, SalvageDb(p) PROVE Records' /\ DbTypesOK'
  <2>1. /\ Within(p) /\ Salvage /\ UNCHANGED <<aside, made, cut>> /\ recovering' = FALSE
        /\ stage[p] = "salvaging" /\ recovering
    BY <1>0, <1>9 DEF SalvageDb, Within, Opens, Salvage, Go
  <2>2. aside # <<>>
    BY <1>0, <2>1 DEF Records
  <2>3. DbTypesOK'
    BY <1>0, <2>1, <2>2, DbTypes DEF DbTypesOK
  <2>4. db'.there
    BY <1>0, <2>1 DEF Salvage, DbTyped, File, NodeInv, Done, Opened
  <2> QED
    BY <1>0, <2>1, <2>3, <2>4 DEF Records, AsideCur
<1>10. ASSUME UNCHANGED <<aside, made, recovering, stage>>, "log" \in cut => "log" \in cut',
              db'.there = db.there, db'.cur = db.cur, DbTypesOK'
       PROVE  Records' /\ DbTypesOK'
  BY <1>0, <1>10 DEF Records, AsideCur, Latest
<1>11. ASSUME NEW p \in Procs, Quit(p) PROVE Records' /\ DbTypesOK'
  <2>1. /\ Within(p) /\ Checkpoint /\ UNCHANGED <<aside, made, recovering, cut>>
        /\ stage[p] = "running"
    BY <1>0, <1>11 DEF Quit, Within, Checkpoint, Go
  <2>2. DbTypesOK' /\ db'.there = db.there /\ db'.cur = db.cur
    BY <1>0, <2>1, DbTypes DEF DbTypesOK, Checkpoint, DbTyped, File
  <2>3. \A q \in Procs : stage[q] # "asided"
    BY <1>0, <2>1, WithinMoves DEF Idle
  <2> QED
    BY <1>0, <2>1, <2>2, <2>3 DEF Records, AsideCur, Latest
<1>12. ASSUME NEW p \in Procs, Upkeep(p) PROVE Records' /\ DbTypesOK'
  <2>1. (DailyBackup \/ Checkpoint) /\ UNCHANGED <<aside, made, recovering, cut, stage>>
    BY <1>12 DEF Upkeep, DailyBackup, Checkpoint
  <2>2. DbTypesOK' /\ db'.there = db.there /\ db'.cur = db.cur
    BY <1>0, <2>1, DbTypes DEF DbTypesOK, DailyBackup, Checkpoint, DbTyped, File
  <2> QED
    BY <1>10, <2>1, <2>2
<1>13. ASSUME Damage PROVE Records' /\ DbTypesOK'
  <2>1. (DamageFile \/ DamageBackup) /\ UNCHANGED <<aside, made, recovering, cut, stage>>
    BY <1>13 DEF Damage, DamageFile, DamageBackup
  <2>2. DbTypesOK'
    BY <1>0, <2>1, DbTypes DEF DbTypesOK
  <2>3. db'.there = db.there /\ db'.cur = db.cur
    BY <1>0, <2>1 DEF DamageFile, DamageBackup, DbTyped, File
  <2> QED
    BY <1>10, <2>1, <2>2, <2>3
<1>14. ASSUME NEW p \in Procs, Post(p) \/ RemovePost(p) PROVE Records' /\ DbTypesOK'
  <2>1. /\ stage[p] = "running" /\ UNCHANGED <<aside, backups, recovering, cut, stage>>
    BY <1>14 DEF Post, RemovePost, Insert, Delete
  <2>2. ~recovering /\ db.there
    BY <1>0, <2>1, Alone DEF Idle, Mending, NodeInv, Done, Opened
  <2>3. PICK y \in Posts : \/ Insert(y) /\ made' = made \cup {y}
                           \/ Delete(y) /\ made' = made \cup {Gone(y)}
    BY <1>14 DEF Post, RemovePost
  <2>4. DbTypesOK'
    BY <1>0, <2>3, DbTypes DEF DbTypesOK, Facts
  <2>5. /\ db'.there = db.there
        /\ \/ db'.cur = db.cur \cup {y} /\ made' = made \cup {y}
           \/ db'.cur = (db.cur \ {y}) \cup {Gone(y)} /\ made' = made \cup {Gone(y)}
    BY <1>0, <2>3 DEF Insert, Delete, DbTyped, File
  <2>6. Living(made) \subseteq db.cur \cup AsideCur => Living(made') \subseteq db'.cur \cup AsideCur
    BY <2>5, LivingGrows
  <2> QED
    BY <1>0, <2>1, <2>2, <2>4, <2>5, <2>6 DEF Records, AsideCur
<1>15. ASSUME NEW p \in Procs, Leaving(p) PROVE Records' /\ DbTypesOK'
  <2>1. /\ UNCHANGED <<db, aside, backups, made>> /\ recovering' = FALSE
        /\ "log" \in cut => "log" \in cut'
        /\ (\E q \in Procs : stage[q] = "asided") => "log" \in cut'
    BY <1>0, <1>15, LeavingCuts
  <2> QED
    BY <1>0, <2>1 DEF Records, DbTypesOK, DbTyped, AsideCur, Latest
<1>16. ASSUME NEW p \in Procs,
              \/ Launch(p) \/ TakeLock(p) \/ GiveUp(p) \/ SelfRestart(p)
              \/ Receive(p) \/ Updates(p) \/ UpdateFails(p)
       PROVE  Records' /\ DbTypesOK'
  <2>1. \A q \in Procs : stage[q] = "asided" => stage'[q] = "asided"
    <3>1. CASE Launch(p) \/ TakeLock(p) \/ GiveUp(p) \/ SelfRestart(p)
      BY <1>0, <3>1 DEF Launch, TakeLock, GiveUp, SelfRestart, Go
    <3>2. CASE Receive(p) \/ Updates(p) \/ UpdateFails(p)
      BY <3>2, AtWorkStays DEF AtWork, Works, Stays
    <3> QED
      BY <1>16, <3>1, <3>2
  <2> QED
    BY <1>1, <1>16, <2>1, OthersLeave
<1>17. CASE UNCHANGED vars \/ CalmDown
  BY <1>1, <1>17 DEF vars, CalmDown, dbVars
<1> QED
  BY StepsAre, <1>2, <1>3, <1>4, <1>5, <1>6, <1>7, <1>8, <1>9, <1>11, <1>12, <1>13, <1>14, <1>15,
     <1>16, <1>17 DEF Within, Opens, AtWork, Works, DbIdle
-----------------------------------------------------------------------------
(* What could be recovered                                                  *)

LEMMA Tombstones ==
    /\ \A y \in Posts : Gone(y) \notin Posts
    /\ \A y, z \in Posts : Gone(y) = Gone(z) => y = z
<1>1. \A y \in Posts : Gone(y) \notin Posts
  BY DatabaseAssumption
<1>2. \A y, z \in Posts : Gone(y) = Gone(z) => y = z
  BY DEF Gone
<1> QED
  BY <1>1, <1>2

\* What InUse says of the backups, of any sequence of backups.
Proper(bs, rows) == \A i \in DOMAIN bs : bs[i].rows \subseteq rows /\ Clean(bs[i].rows)

Chain(bs) ==
    \A i, j \in DOMAIN bs : i < j /\ bs[i].sound /\ bs[j].sound => Covers(bs[i].rows, bs[j].rows)

CoversAll(facts, bs) == \A i \in DOMAIN bs : bs[i].sound => Covers(facts, bs[i].rows)

LEMMA InUseSays ==
    InUse <=> /\ \A y \in Posts : Gone(y) \in made => y \in made
              /\ db.main \cup db.cur \subseteq made /\ Clean(db.cur)
              /\ Proper(backups, made)
              /\ \A i \in DOMAIN aside : aside[i].main \cup aside[i].cur \subseteq made
              /\ "copy" \notin cut =>
                     /\ Chain(backups)
                     /\ db.there => CoversAll(db.cur, backups)
                     /\ ~db.there /\ ~recovering => Good = {} /\ aside = <<>>
                     /\ ~recovering /\ aside # <<>> => Covers(db.cur, Readable(Latest))
BY DEF InUse, Proper, Chain, CoversAll, Good

LEMMA DrawnFits ==
    ASSUME NEW bs, NEW t, Drawn(t, bs)
    PROVE  /\ \A rows : Proper(bs, rows) => Proper(t, rows)
           /\ Chain(bs) => Chain(t)
           /\ \A facts : CoversAll(facts, bs) => CoversAll(facts, t)
<1>1. \A i \in DOMAIN t : \E a \in DOMAIN bs : t[i] = bs[a]
  BY DEF Drawn
<1>2. \A i, j \in DOMAIN t : i < j => \E a, b \in DOMAIN bs : a < b /\ t[i] = bs[a] /\ t[j] = bs[b]
  BY DEF Drawn
<1>3. \A rows : Proper(bs, rows) => Proper(t, rows)
  BY <1>1 DEF Proper
<1>4. Chain(bs) => Chain(t)
  BY <1>2 DEF Chain
<1>5. \A facts : CoversAll(facts, bs) => CoversAll(facts, t)
  BY <1>1 DEF CoversAll
<1> QED
  BY <1>3, <1>4, <1>5

\* A new backup covers what the database covers.
LEMMA WithBackupFits ==
    ASSUME db \in File, backups \in Seq(Backup), NEW kind \in {"daily", "upgrade"}
    PROVE  /\ Proper(backups, made) /\ db.cur \subseteq made /\ Clean(db.cur) => Proper(WithBackup(kind), made)
           /\ Chain(backups) /\ CoversAll(db.cur, backups) =>
                  Chain(WithBackup(kind)) /\ CoversAll(db.cur, WithBackup(kind))
<1> DEFINE bs == WithBackup(kind)
           n == Len(backups)
<1>1. /\ DOMAIN bs = 1..(n + 1) /\ DOMAIN backups = 1..n /\ n \in Nat
      /\ bs[1].rows = db.cur /\ bs[1].sound
      /\ \A i \in 1..n : bs[i + 1] = backups[i]
  BY WithBackupIs
<1> HIDE DEF bs, n
<1>2. \A i \in DOMAIN bs : i = 1 \/ \E a \in DOMAIN backups : i = a + 1 /\ bs[i] = backups[a]
  <2> TAKE i \in DOMAIN bs
  <2>1. i # 1 => (i - 1) \in 1..n /\ i = (i - 1) + 1
    BY <1>1
  <2> QED
    BY <1>1, <2>1
<1>3. Proper(backups, made) /\ db.cur \subseteq made /\ Clean(db.cur) => Proper(bs, made)
  BY <1>1, <1>2 DEF Proper
<1>4. Covers(db.cur, db.cur)
  BY DEF Covers
<1>5. CoversAll(db.cur, backups) => CoversAll(db.cur, bs)
  BY <1>1, <1>2, <1>4 DEF CoversAll
<1>6. ASSUME Chain(backups), CoversAll(db.cur, backups),
             NEW i \in DOMAIN bs, NEW j \in DOMAIN bs, i < j, bs[i].sound, bs[j].sound
      PROVE  Covers(bs[i].rows, bs[j].rows)
  <2>1. PICK b \in DOMAIN backups : j = b + 1 /\ bs[j] = backups[b]
    BY <1>1, <1>2, <1>6
  <2>2. CASE i = 1
    BY <1>1, <1>6, <2>1, <2>2 DEF CoversAll
  <2>3. CASE i # 1
    <3>1. PICK a \in DOMAIN backups : i = a + 1 /\ bs[i] = backups[a]
      BY <1>2, <2>3
    <3>2. a < b
      BY <1>1, <1>6, <2>1, <3>1
    <3> QED
      BY <1>6, <2>1, <3>1, <3>2 DEF Chain
  <2> QED
    BY <2>2, <2>3
<1>7. Chain(backups) /\ CoversAll(db.cur, backups) => Chain(bs)
  BY <1>6 DEF Chain
<1> QED
  BY <1>3, <1>5, <1>7 DEF bs

\* What is salvaged covers what there was and what could be read.
LEMMA SalvagedCovers ==
    ASSUME NEW c, NEW r
    PROVE  LET s == Living(c \cup r)
           IN  Clean(s) /\ Covers(s, c) /\ Covers(s, r) /\ s \subseteq c \cup r
BY Tombstones DEF Living, Clean, Covers

LEMMA CoversOnward ==
    ASSUME NEW a, NEW b, NEW c, Covers(a, b), Covers(b, c)
    PROVE  Covers(a, c)
BY Tombstones DEF Covers

\* A post is added, or replaced by its tombstone.
LEMMA WrittenCovers ==
    ASSUME NEW c, NEW y \in Posts, Clean(c)
    PROVE  /\ Gone(y) \notin c => Clean(c \cup {y})
           /\ Clean((c \ {y}) \cup {Gone(y)})
           /\ \A r : Covers(c, r) => Covers(c \cup {y}, r) /\ Covers((c \ {y}) \cup {Gone(y)}, r)
<1>1. Gone(y) \notin c => Clean(c \cup {y})
  BY Tombstones DEF Clean
<1>2. Clean((c \ {y}) \cup {Gone(y)})
  BY Tombstones DEF Clean
<1>3. ASSUME NEW r, Covers(c, r)
      PROVE  Covers(c \cup {y}, r) /\ Covers((c \ {y}) \cup {Gone(y)}, r)
  BY <1>3, Tombstones DEF Covers
<1> QED
  BY <1>1, <1>2, <1>3

\* What is in use covers every good backup and the last corrupt file, whichever
\* backups are pruned or damaged later.
LEMMA InUseStep ==
    ASSUME NodeInv, [Next]_vars
    PROVE  InUse'
<1>0. /\ InUse /\ Records /\ Types /\ Exclusive /\ Done /\ DbTyped /\ stage \in [Procs -> Stages]
      /\ db \in File /\ backups \in Seq(Backup) /\ aside \in Seq(Corrupt)
      /\ \A p \in Procs : stage[p] \in {"asided", "logged", "salvaging"} => recovering
  BY DEF NodeInv, Types, TypeOK, DbTypeOK, DbTyped, Exclusive
<1>1. ASSUME UNCHANGED <<db, aside, backups, made, recovering>>, "copy" \in cut => "copy" \in cut'
      PROVE  InUse'
  BY <1>0, <1>1 DEF InUse, Good, Latest, Clean
<1>2. ASSUME NEW p \in Procs, DbIdle(p) PROVE InUse'
  BY <1>0, <1>1, <1>2, DbIdleLeaves
<1>3. ASSUME NEW p \in Procs, OpenDb(p) PROVE InUse'
  <2>1. OpenFile /\ stage[p] = "opening" /\ UNCHANGED <<made, recovering, cut>>
    BY <1>3 DEF OpenDb, Go
  <2>2. ~recovering
    BY <1>0, <2>1, Alone DEF Mending, Idle
  <2>3. CASE db.there
    BY <1>1, <2>1, <2>3 DEF OpenFile
  <2>4. CASE ~db.there
    <3>1. db' = Whole({}, 0) /\ DropLog /\ UNCHANGED backups
      BY <2>1, <2>4 DEF OpenFile
    <3>2. db'.there /\ db'.main = {} /\ db'.cur = {}
      BY <3>1, WholeTyped DEF Version
    <3>3. \A i \in DOMAIN aside' : aside'[i].main \cup aside'[i].cur \subseteq made
      <4>1. CASE aside = <<>>
        BY <1>0, <3>1, <4>1, DropLogIs
      <4>2. CASE aside # <<>>
        <5>1. aside' = [aside EXCEPT ![Len(aside)] = [Latest EXCEPT !.cur = Latest.main]]
          BY <1>0, <3>1, <4>2, DropLogIs
        <5>2. Latest \in Corrupt /\ Latest = aside[Len(aside)] /\ Len(aside) \in DOMAIN aside
          BY <1>0, <4>2, AsideTyped
        <5>3. /\ DOMAIN aside' = DOMAIN aside
              /\ aside'[Len(aside)] = [Latest EXCEPT !.cur = Latest.main]
              /\ \A i \in DOMAIN aside : i # Len(aside) => aside'[i] = aside[i]
          BY <1>0, <4>2, <5>1, LastChanged
        <5>4. aside'[Len(aside)].main = Latest.main /\ aside'[Len(aside)].cur = Latest.main
          BY <5>2, <5>3 DEF Corrupt
        <5>5. \A i \in DOMAIN aside : aside[i].main \cup aside[i].cur \subseteq made
          BY <1>0 DEF InUse
        <5>6. Latest.main \subseteq made
          BY <5>2, <5>5
        <5> QED
          BY <5>3, <5>4, <5>5, <5>6
      <4> QED
        BY <4>1, <4>2
    <3>4. "copy" \notin cut => Good = {} /\ aside = <<>> /\ aside' = <<>>
      BY <1>0, <2>2, <2>4, <3>1, DropLogIs DEF InUse
    <3>5. Good' = Good
      BY <3>1 DEF Good
    <3> QED
      BY <1>0, <2>1, <3>1, <3>2, <3>3, <3>4, <3>5 DEF InUse, Clean
  <2> QED
    BY <2>3, <2>4
<1>4. ASSUME NEW p \in Procs, SetDbAside(p) PROVE InUse'
  <2>1. SetAside /\ recovering' = TRUE /\ UNCHANGED <<made, cut, backups>>
    BY <1>4 DEF SetDbAside, SetAside
  <2>2. /\ DOMAIN aside' = 1..(Len(aside) + 1) /\ DOMAIN aside = 1..Len(aside) /\ Len(aside) \in Nat
        /\ \A i \in 1..Len(aside) : aside'[i] = aside[i]
        /\ aside'[Len(aside) + 1].main = db.main /\ aside'[Len(aside) + 1].cur = db.cur
        /\ db' = Absent
    BY <1>0, <2>1, SetAsideIs
  <2>3. \A i \in DOMAIN aside' : aside'[i].main \cup aside'[i].cur \subseteq made
    BY <1>0, <2>2 DEF InUse
  <2>4. db'.cur = {} /\ db'.main = {} /\ ~db'.there
    BY <2>2, AbsentTyped
  <2> QED
    BY <1>0, <2>1, <2>3, <2>4 DEF InUse, Good, Clean
<1>5. ASSUME NEW p \in Procs, MoveDbLog(p) \/ DropDbLog(p) PROVE InUse'
  <2>1. /\ UNCHANGED <<db, backups, made, recovering>> /\ ("copy" \in cut => "copy" \in cut')
        /\ stage[p] = "asided" /\ (MoveLog \/ DropLog)
    BY <1>5 DEF MoveDbLog, DropDbLog, Go, MoveLog
  <2>2. recovering /\ aside # <<>>
    BY <1>0, <2>1 DEF Records
  <2>3. Latest \in Corrupt /\ Latest = aside[Len(aside)] /\ Len(aside) \in DOMAIN aside
    BY <1>0, <2>2, AsideTyped
  <2>4. PICK e : /\ aside' = [aside EXCEPT ![Len(aside)] = e]
                 /\ \/ e = [Latest EXCEPT !.main = Latest.cur]
                    \/ e = [Latest EXCEPT !.cur = Latest.main]
    BY <1>0, <2>1, <2>2, MoveLogIs, DropLogIs
  <2>5. e.main \cup e.cur \subseteq Latest.main \cup Latest.cur
    BY <2>3, <2>4 DEF Corrupt
  <2>6. /\ DOMAIN aside' = DOMAIN aside /\ aside'[Len(aside)] = e
        /\ \A i \in DOMAIN aside : i # Len(aside) => aside'[i] = aside[i]
    BY <1>0, <2>2, <2>4, LastChanged
  <2>7. \A i \in DOMAIN aside' : aside'[i].main \cup aside'[i].cur \subseteq made
    BY <1>0, <2>3, <2>5, <2>6 DEF InUse
  <2> QED
    BY <1>0, <2>1, <2>2, <2>7 DEF InUse, Good, Clean
<1>6. ASSUME NEW p \in Procs, RestoreDb(p) PROVE InUse'
  <2>1. Restore /\ UNCHANGED <<aside, backups, made, recovering, cut>> /\ recovering
    BY <1>0, <1>6 DEF RestoreDb, Restore, Go
  <2>2. /\ db'.there /\ db'.main = db'.cur
        /\ Good = {} => db'.cur = {}
        /\ Good # {} => \E n \in Good : db'.cur = backups[n].rows /\ \A j \in Good : n <= j
    BY <1>0, <2>1, RestoreIs
  <2>3. db'.cur \subseteq made /\ Clean(db'.cur)
    BY <1>0, <2>2 DEF InUse, Good, Clean
  <2>4. ASSUME "copy" \notin cut, NEW j \in Good PROVE Covers(db'.cur, backups[j].rows)
    <3>1. PICK n \in Good : db'.cur = backups[n].rows /\ n <= j
      BY <2>2, <2>4
    <3>2. n = j \/ n < j
      BY <1>0, <3>1 DEF Good
    <3> QED
      BY <1>0, <2>4, <3>1, <3>2 DEF InUse, Covers
  <2>5. Good' = Good /\ UNCHANGED <<made, cut, recovering, backups, aside>>
    BY <2>1 DEF Good
  <2> QED
    BY <1>0, <2>1, <2>2, <2>3, <2>4, <2>5 DEF InUse, Clean
<1>7. ASSUME NEW p \in Procs, CopyFails(p) PROVE InUse'
  <2>1. db' = Whole({}, 0) /\ UNCHANGED <<aside, backups, made>> /\ "copy" \in cut'
    BY <1>7 DEF CopyFails
  <2>2. db'.main = {} /\ db'.cur = {}
    BY <2>1, WholeTyped DEF Version
  <2> QED
    BY <1>0, <2>1, <2>2 DEF InUse, Clean
<1>8. ASSUME DailyBackup \/ UpgradeBackup, db.there, UNCHANGED <<made, recovering, cut>>
      PROVE  InUse'
  <2>1. UNCHANGED <<db, aside>>
    BY <1>8 DEF DailyBackup, UpgradeBackup
  <2>2. \/ Drawn(backups', backups)
        \/ \E kind \in {"daily", "upgrade"} : Drawn(backups', WithBackup(kind))
    BY <1>0, <1>8, BackupsDrawn
  <2>3. /\ Proper(backups, made) /\ db.cur \subseteq made /\ Clean(db.cur)
        /\ "copy" \notin cut => Chain(backups) /\ CoversAll(db.cur, backups)
    BY <1>0, <1>8, InUseSays
  <2>4. PICK bs : /\ Drawn(backups', bs) /\ Proper(bs, made)
                  /\ "copy" \notin cut => Chain(bs) /\ CoversAll(db.cur, bs)
    BY <1>0, <2>2, <2>3, WithBackupFits
  <2>5. /\ Proper(backups', made)
        /\ "copy" \notin cut => Chain(backups') /\ CoversAll(db.cur, backups')
    BY <2>4, DrawnFits
  <2> QED
    BY <1>0, <1>8, <2>1, <2>5 DEF InUse, Proper, Chain, CoversAll, Good, Latest, Clean
<1>9. ASSUME NEW p \in Procs, UpgradeBackupDb(p) PROVE InUse'
  <2>1. UpgradeBackup /\ stage[p] = "migrating" /\ UNCHANGED <<made, recovering, cut>>
    BY <1>9 DEF UpgradeBackupDb, Go
  <2> QED
    BY <1>0, <1>8, <2>1 DEF Done, Opened
<1>10. ASSUME NEW p \in Procs, SalvageDb(p) PROVE InUse'
  <2>1. /\ Salvage /\ UNCHANGED <<aside, backups, made, cut>> /\ stage[p] = "salvaging"
    BY <1>10 DEF SalvageDb, Salvage, Go
  <2>2. recovering /\ aside # <<>> /\ db.there
    BY <1>0, <2>1 DEF Records, Done, Opened
  <2>3. db'.there /\ db'.main = db.main /\ db'.cur = Salvaged(Latest)
    BY <1>0, <2>1, <2>2 DEF Salvage, File
  <2>4. /\ Clean(Salvaged(Latest)) /\ Covers(Salvaged(Latest), db.cur)
        /\ Covers(Salvaged(Latest), Readable(Latest))
        /\ Salvaged(Latest) \subseteq db.cur \cup Readable(Latest)
    BY SalvagedCovers, Zenon DEF Salvaged
  <2>5. Latest = aside[Len(aside)] /\ Len(aside) \in DOMAIN aside
    BY <1>0, <2>2, AsideTyped
  <2>6. Readable(Latest) \subseteq made
    BY <1>0, <2>5 DEF InUse, Readable
  <2>7. "copy" \notin cut => \A i \in Good : Covers(Salvaged(Latest), backups[i].rows)
    BY <1>0, <2>2, <2>4, CoversOnward DEF InUse
  <2>8. Good' = Good /\ Latest' = Latest /\ Readable(Latest)' = Readable(Latest)
    BY <2>1 DEF Good, Latest, Readable
  <2> QED
    BY <1>0, <2>1, <2>3, <2>4, <2>6, <2>7, <2>8 DEF InUse, Clean
<1>11. ASSUME UNCHANGED <<aside, backups, made, recovering, cut>>,
              db'.there = db.there, db'.cur = db.cur, db'.main \subseteq made
       PROVE  InUse'
  BY <1>0, <1>11 DEF InUse, Good, Latest, Clean
<1>12. ASSUME NEW p \in Procs, MigrateDb(p) \/ Quit(p) PROVE InUse'
  <2>1. /\ UNCHANGED <<aside, backups, made, recovering, cut>> /\ (Checkpoint \/ Migrate(ver[p]))
    BY <1>12 DEF MigrateDb, Quit, Checkpoint, Migrate
  <2>2. db'.there = db.there /\ db'.cur = db.cur /\ db'.main \subseteq made
    BY <1>0, <2>1 DEF Checkpoint, Migrate, File, InUse
  <2> QED
    BY <1>11, <2>1, <2>2
<1>13. ASSUME NEW p \in Procs, Upkeep(p) PROVE InUse'
  <2>1. /\ UNCHANGED <<made, recovering, cut>> /\ (DailyBackup \/ Checkpoint)
        /\ db.there
    BY <1>0, <1>13 DEF Upkeep, Done, Opened
  <2>2. CASE Checkpoint
    <3>1. db'.there = db.there /\ db'.cur = db.cur /\ db'.main \subseteq made
      BY <1>0, <2>2 DEF Checkpoint, File, InUse
    <3> QED
      BY <1>11, <2>1, <2>2, <3>1 DEF Checkpoint
  <2> QED
    BY <1>8, <2>1, <2>2
<1>14. ASSUME NEW p \in Procs, Post(p) \/ RemovePost(p) PROVE InUse'
  <2>1. /\ stage[p] = "running" /\ UNCHANGED <<aside, backups, recovering, cut>>
    BY <1>14 DEF Post, RemovePost, Insert, Delete
  <2>2. ~recovering /\ db.there
    BY <1>0, <2>1, Alone DEF Idle, Mending, Done, Opened
  <2>3. PICK y \in Posts : \/ Insert(y) /\ made' = made \cup {y} /\ y \notin made
                           \/ Delete(y) /\ made' = made \cup {Gone(y)}
    BY <1>14 DEF Post, RemovePost
  <2>4. /\ db'.there /\ db'.main = db.main
        /\ \/ db'.cur = db.cur \cup {y} /\ made' = made \cup {y} /\ y \notin made
           \/ db'.cur = (db.cur \ {y}) \cup {Gone(y)} /\ made' = made \cup {Gone(y)} /\ y \in db.cur
    BY <1>0, <2>2, <2>3 DEF Insert, Delete, File
  <2>5. y \notin made => Gone(y) \notin db.cur
    BY <1>0 DEF InUse
  <2>6. Clean(db'.cur) /\ \A r : Covers(db.cur, r) => Covers(db'.cur, r)
    <3>1. Clean(db.cur)
      BY <1>0 DEF InUse
    <3>2. /\ Gone(y) \notin db.cur => Clean(db.cur \cup {y})
          /\ Clean((db.cur \ {y}) \cup {Gone(y)})
          /\ \A r : Covers(db.cur, r) =>
                     Covers(db.cur \cup {y}, r) /\ Covers((db.cur \ {y}) \cup {Gone(y)}, r)
      BY <3>1, WrittenCovers, Zenon
    <3>3. CASE db'.cur = db.cur \cup {y} /\ y \notin made
      BY <2>5, <3>2, <3>3
    <3>4. CASE db'.cur = (db.cur \ {y}) \cup {Gone(y)}
      BY <3>2, <3>4
    <3> QED
      BY <2>4, <3>3, <3>4
  <2>7. \A z \in Posts : Gone(z) \in made' => z \in made'
    BY <1>0, <2>4, Tombstones DEF InUse
  <2>8. made \subseteq made' /\ db'.main \cup db'.cur \subseteq made'
    BY <1>0, <2>4 DEF InUse
  <2>9. Good' = Good /\ Latest' = Latest
    BY <2>1 DEF Good, Latest
  <2> QED
    BY <1>0, <2>1, <2>2, <2>4, <2>6, <2>7, <2>8, <2>9 DEF InUse, Clean
<1>15. ASSUME NEW p \in Procs, Leaving(p) PROVE InUse'
  <2>1. /\ UNCHANGED <<db, aside, backups, made>> /\ recovering' = FALSE
        /\ "copy" \in cut => "copy" \in cut'
        /\ recovering => "copy" \in cut'
    BY <1>0, <1>15, LeavingCuts
  <2> QED
    BY <1>0, <2>1 DEF InUse, Good, Latest, Clean
<1>16. ASSUME NEW p \in Procs,
              \/ Launch(p) \/ TakeLock(p) \/ GiveUp(p) \/ SelfRestart(p)
              \/ Receive(p) \/ Updates(p) \/ UpdateFails(p)
       PROVE  InUse'
  BY <1>1, <1>16, OthersLeave
<1>17. ASSUME Damage PROVE InUse'
  <2>1. UNCHANGED <<aside, made, recovering, cut>> /\ (DamageFile \/ DamageBackup)
    BY <1>17 DEF Damage, DamageFile, DamageBackup
  <2>2. CASE DamageFile
    <3>1. db'.there = db.there /\ db'.cur = db.cur /\ db'.main \subseteq made
      BY <1>0, <2>2 DEF DamageFile, File, InUse
    <3> QED
      BY <1>11, <2>1, <2>2, <3>1 DEF DamageFile
  <2>3. CASE DamageBackup
    <3>1. PICK n \in DOMAIN backups : backups' = [backups EXCEPT ![n].sound = FALSE]
      BY <2>3 DEF DamageBackup
    <3>2. \A i \in DOMAIN backups : backups[i] \in Backup
      BY <1>0
    <3>3. /\ DOMAIN backups' = DOMAIN backups
          /\ \A i \in DOMAIN backups : /\ backups'[i].rows = backups[i].rows
                                       /\ backups'[i].sound => backups[i].sound
      BY <3>1, <3>2 DEF Backup
    <3>4. Good' \subseteq Good /\ db' = db
      BY <2>3, <3>3 DEF Good, DamageBackup
    <3> QED
      BY <1>0, <2>1, <3>3, <3>4 DEF InUse, Latest, Clean, Good
  <2> QED
    BY <2>1, <2>2, <2>3
<1>18. CASE UNCHANGED vars \/ CalmDown
  BY <1>1, <1>18 DEF vars, CalmDown, dbVars
<1> QED
  BY StepsAre, <1>2, <1>3, <1>4, <1>5, <1>6, <1>7, <1>9, <1>10, <1>12, <1>13, <1>14, <1>15,
     <1>16, <1>17, <1>18 DEF Within, Opens, AtWork, Works, DbIdle
-----------------------------------------------------------------------------
(* The invariant                                                            *)

LEMMA TypesFrom ==
    /\ stage \in [Procs -> Stages] /\ holder \in Procs \cup {None}
    /\ MemTyped /\ IdTyped /\ ExeTyped /\ DbTypesOK
    => Types
<1> SUFFICES ASSUME stage \in [Procs -> Stages], holder \in Procs \cup {None},
                    MemTyped, IdTyped, ExeTyped, DbTypesOK
             PROVE  Types
  OBVIOUS
<1>1. DbTypeOK
  <2>1. db \in File /\ aside \in Seq(Corrupt) /\ backups \in Seq(Backup)
    BY DEF DbTypesOK, DbTyped
  <2>2. /\ \A i \in DOMAIN aside : aside[i] \in Corrupt
        /\ \A i \in DOMAIN backups : backups[i] \in Backup
    BY <2>1
  <2> QED
    BY <2>1, <2>2, Zenon DEF DbTypeOK, Corrupt
<1>2. TypeOK
  BY <1>1 DEF TypeOK, MemTyped, IdTyped, DbTypesOK
<1> QED
  BY <1>2, Zenon DEF Types, MemTyped, ExeTyped, DbTypesOK, DbTyped

LEMMA NodeInit == Init => NodeInv
<1> SUFFICES ASSUME Init PROVE NodeInv
  OBVIOUS
<1>0. /\ None \notin Ids /\ Ids # {} /\ (CHOOSE i \in Ids : TRUE) \in Ids
      /\ Whole({}, 0) \in File /\ Posts \subseteq Facts
  BY NodeLifeAssumption, WholeTyped DEF Facts, Version
<1>1. \A p \in Procs : stage[p] = "off" /\ ver[p] = 0 /\ mem[p] = {}
  BY DEF Init
<1>2. /\ stage \in [Procs -> Stages] /\ ver \in [Procs -> Version] /\ mem \in [Procs -> SUBSET Letters]
  BY DEF Init, Stages, Version
<1>3. Exclusive /\ Program
  <2>1. Exclusive
    BY <1>1 DEF Init, Exclusive, Idle
  <2>2. exe = 1 /\ up = "idle" /\ plug = [exe |-> 1, old |-> 0, man |-> 1] /\ exe # None
    BY NodeLifeAssumption DEF Init
  <2>3. Program
    BY <2>2 DEF Program, Placing
  <2> QED
    BY <2>1, <2>3
<1>4. MemTyped /\ ExeTyped /\ Done
  <2>1. recovering \in BOOLEAN /\ restart \in BOOLEAN
    BY Zenon DEF Init
  <2>2. MemTyped
    BY <1>2, <2>1 DEF Init, MemTyped
  <2>3. exe = 1 /\ old = None /\ new = None /\ plug = [exe |-> 1, old |-> 0, man |-> 1]
    BY DEF Init
  <2>4. ExeTyped
    BY <2>3 DEF ExeTyped
  <2>5. Done
    BY <1>1 DEF Done, Opened, Migrated, NodeUp
  <2> QED
    BY <2>2, <2>4, <2>5
<1>5. IdTyped /\ Identity
  BY <1>0, <1>1 DEF Init, FirstStart, AfterDamage, IdTyped, Identity, IdentityKept
<1>6. DbTypesOK /\ Records /\ InUse
  <2>1. CASE FirstStart
    <3>1. db = Absent /\ aside = <<>> /\ backups = <<>> /\ made = {} /\ Good = {}
      BY <2>1 DEF FirstStart, DbInit, Good
    <3>2. DbTypesOK
      BY <3>1, AbsentTyped DEF DbTypesOK, DbTyped
    <3>3. Records
      BY <3>1, AbsentTyped DEF Records, Living, Init
    <3>4. InUse
      BY <3>1, AbsentTyped DEF InUse, Clean, Init
    <3> QED
      BY <3>2, <3>3, <3>4
  <2>2. CASE AfterDamage
    <3> DEFINE b == [kind |-> "daily", rows |-> Posts, schema |-> 1, sound |-> TRUE]
    <3>1. /\ made = Facts /\ aside = <<>> /\ backups = <<b>>
          /\ db = [Whole(Living(made), 1) EXCEPT !.main = {}, !.sound = FALSE]
          /\ recovering = FALSE
      BY <2>2 DEF AfterDamage, Init
    <3>2. b \in Backup
      BY <1>0 DEF Backup, Version
    <3>3. /\ b.rows = Posts
          /\ backups \in Seq(Backup) /\ DOMAIN backups = {1} /\ backups[1] = b
      BY <3>1, <3>2
    <3>4. Living(made) \in SUBSET Facts
      BY <3>1 DEF Living
    <3>5. db \in File /\ db.there /\ db.main = {} /\ db.cur = Living(made)
      <4>1. db = [there |-> TRUE, main |-> {}, cur |-> Living(made), schema |-> 1, sound |-> FALSE,
                  unread |-> {}]
        BY <3>1 DEF Whole, Absent
      <4> QED
        BY <3>4, <4>1 DEF File, Version
    <3> HIDE DEF b
    <3>6. DbTypesOK
      BY <3>1, <3>3, <3>5 DEF DbTypesOK, DbTyped
    <3>7. Records
      BY <3>1, <3>5 DEF Records
    <3>8. \A y \in Posts : y \in made /\ Gone(y) \in made
      BY <3>1 DEF Facts
    <3>9. Clean(Living(made)) /\ Clean(Posts) /\ Covers(Living(made), Posts)
      BY <3>8, Tombstones DEF Living, Clean, Covers
    <3>10. Posts \subseteq made /\ Living(made) \subseteq made
      BY <3>8 DEF Living
    <3>11. \A i \in DOMAIN backups : i = 1 /\ backups[i].rows = Posts
      BY <3>3
    <3>12. InUse
      BY <3>1, <3>5, <3>8, <3>9, <3>10, <3>11 DEF InUse, Good
    <3> QED
      BY <3>6, <3>7, <3>12
  <2> QED
    BY <2>1, <2>2 DEF Init
<1>7. holder \in Procs \cup {None}
  BY DEF Init
<1>8. Types
  BY <1>2, <1>4, <1>5, <1>6, <1>7, TypesFrom
<1> QED
  BY <1>3, <1>4, <1>5, <1>6, <1>8 DEF NodeInv

LEMMA NodeStep == NodeInv /\ [Next]_vars => NodeInv'
<1> SUFFICES ASSUME NodeInv, [Next]_vars PROVE NodeInv'
  OBVIOUS
<1>1. /\ Exclusive' /\ (stage \in [Procs -> Stages])' /\ (holder \in Procs \cup {None})'
      /\ MemTyped' /\ IdTyped' /\ Identity' /\ ExeTyped' /\ Program'
      /\ Done' /\ Records' /\ DbTypesOK' /\ InUse'
  BY ExclusiveStep, MemTypesStep, IdentityStep, ProgramStep, DoneStep, RecordsStep, InUseStep
<1>2. Types'
  <2>1. (/\ stage \in [Procs -> Stages] /\ holder \in Procs \cup {None}
         /\ MemTyped /\ IdTyped /\ ExeTyped /\ DbTypesOK)'
    BY <1>1
  <2> QED
    BY <2>1, TypesFrom, PTL
<1> QED
  BY <1>1, <1>2 DEF NodeInv

\* The invariant of the node: its types, one process at a time, what each stage
\* has done, and where the identities, the program and the records are.
THEOREM NodeInvariance == Spec => []NodeInv
BY NodeInit, NodeStep, PTL DEF Spec

\* No identity that was saved on the device is lost (login.go, geri_yukle.go).
THEOREM AlwaysIdentityKept == Spec => []IdentityKept
<1>1. NodeInv => IdentityKept
  BY DEF NodeInv, Identity
<1> QED
  BY <1>1, NodeInvariance, PTL

\* The program and its plugins fit together, unless an update was cut short
\* (updater.go, eklenti.go).
THEOREM AlwaysWhole == Spec => []ProgramWhole
<1>1. NodeInv => ProgramWhole
  BY NodeLifeAssumption DEF NodeInv, Types, Program, Placing, ProgramWhole, Bad
<1> QED
  BY <1>1, NodeInvariance, PTL

\* A process that may still write its state files has all that is in them, and
\* the schema it needs: the hand-over to the new process of an update loses
\* nothing (main.go, the order of the deferred functions).
THEOREM AlwaysCurrent == Spec => []Current
<1>1. NodeInv => Current
  BY DEF NodeInv, Types, Done, Current, Serving, Opened, Migrated
<1> QED
  BY <1>1, NodeInvariance, PTL

\* Nothing that was stored is destroyed, unless a corrupt file's log was left
\* behind (kurtar, butunluk.go).
THEOREM AlwaysRecordsKept == Spec => []RecordsKept
<1>1. NodeInv => RecordsKept
  <2> SUFFICES ASSUME NodeInv, "log" \notin cut PROVE Living(made) \subseteq Stored
    BY DEF RecordsKept
  <2>1. Living(made) \subseteq db.cur \cup AsideCur
    BY DEF NodeInv, Records
  <2> DEFINE b == UNION {backups[i].rows : i \in DOMAIN backups}
  <2>2. Stored = db.cur \cup b \cup AsideCur
    BY DEF AsideCur, Stored
  <2> HIDE DEF b
  <2> QED
    BY <2>1, <2>2
<1> QED
  BY <1>1, NodeInvariance, PTL

\* The running program shows all that could be recovered, and nothing that a
\* tombstone names, unless a recovery was cut short (aktar, kurtar).
THEOREM AlwaysBackInUse == Spec => []BackInUse
<1>1. NodeInv => BackInUse
  <2> SUFFICES ASSUME NodeInv, NEW p \in Procs, Serving(p)
               PROVE  /\ db.cur = Living(db.cur)
                      /\ "copy" \notin cut => Living(db.cur \cup Recoverable) \subseteq db.cur
    BY DEF BackInUse
  <2>1. db.there /\ ~recovering /\ backups \in Seq(Backup)
    BY Alone DEF NodeInv, Types, Done, Serving, Opened, Idle, Mending
  <2>2. db.cur = Living(db.cur)
    BY DEF NodeInv, InUse, Clean, Living
  <2>3. ASSUME "copy" \notin cut, Good # {} PROVE Covers(db.cur, NewestGood.rows)
    BY <2>1, <2>3, NewestGoodIs DEF NodeInv, InUse
  <2>4. ASSUME "copy" \notin cut, aside # <<>> PROVE Covers(db.cur, Readable(Latest))
    BY <2>1, <2>4 DEF NodeInv, InUse
  <2>5. ASSUME "copy" \notin cut PROVE Covers(db.cur, Recoverable)
    BY <2>3, <2>4, <2>5 DEF Recoverable, Covers
  <2>6. ASSUME Covers(db.cur, Recoverable) PROVE Living(db.cur \cup Recoverable) \subseteq db.cur
    BY <2>6 DEF Covers, Living
  <2> QED
    BY <2>2, <2>5, <2>6
<1> QED
  BY <1>1, NodeInvariance, PTL
=============================================================================
