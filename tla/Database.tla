------------------------------ MODULE Database ------------------------------
(***************************************************************************)
(* forum.db as internal/storage keeps it: the file and its write-ahead     *)
(* log, the backups beside it, and the copies set aside when the file was  *)
(* found corrupt.  Open and what it calls are the actions here; NodeLife   *)
(* takes them in the order of the code, with a process that may die        *)
(* between any two of them.                                                *)
(*                                                                         *)
(* SQLite itself is external: a commit is atomic and stays, a log beside a *)
(* missing or empty file is deleted when the file is opened, quick_check   *)
(* finds the damage.                                                       *)
(***************************************************************************)
EXTENDS Naturals, Sequences, FiniteSets, Filters

CONSTANTS
    Posts,          \* what is stored
    DailyKept,      \* gunlukYedekTut
    UpgradeKept     \* surumYedekTut

\* A tombstone.
Gone(p) == <<p, "gone">>

ASSUME DatabaseAssumption ==
    /\ DailyKept \in Nat /\ UpgradeKept \in Nat
    /\ \A p, q \in Posts : Gone(p) # q

Facts == Posts \cup {Gone(p) : p \in Posts}

VARIABLES
    db,         \* the file: what a checkpoint put into it, what is committed, ...
    aside,      \* the corrupt files that were set aside, the latest last
    backups     \* the directory of backups, the newest first

dbVars == <<db, aside, backups>>

Version == 0..2

File == [there : BOOLEAN, main : SUBSET Facts, cur : SUBSET Facts,
         schema : Version, sound : BOOLEAN, unread : SUBSET Facts]

Backup == [kind : {"daily", "upgrade"}, rows : SUBSET Facts, schema : Version, sound : BOOLEAN]

DbTypeOK ==
    /\ db \in File
    /\ \A i \in DOMAIN aside : aside[i] \in [main : SUBSET Facts, cur : SUBSET Facts, unread : SUBSET Facts]
    /\ \A i \in DOMAIN backups : backups[i] \in Backup

Absent == [there |-> FALSE, main |-> {}, cur |-> {}, schema |-> 0, sound |-> TRUE, unread |-> {}]

\* A file with these rows, all checkpointed.
Whole(rows, schema) ==
    [Absent EXCEPT !.there = TRUE, !.main = rows, !.cur = rows, !.schema = schema]

DbInit == db = Absent /\ aside = <<>> /\ backups = <<>>
-----------------------------------------------------------------------------
(* Backups                                                                  *)

\* Backups of a kind, the i-th and the newer ones.
NotOlder(bs, i) == {j \in DOMAIN bs : j <= i /\ bs[j].kind = bs[i].kind}

\* buda leaves the newest k of a kind: at most the number to keep, fewer when
\* the others are too old.
Pruned(bs, kind, k) ==
    AtPositions(bs, {i \in DOMAIN bs : bs[i].kind = kind => Cardinality(NotOlder(bs, i)) <= k})

\* Yedekle: a snapshot, complete or not there at all.
WithBackup(kind) ==
    <<[kind |-> kind, rows |-> db.cur, schema |-> db.schema, sound |-> TRUE]>> \o backups

\* GunlukYedek: a backup when one is due, and the old ones of both kinds.
DailyBackup ==
    /\ \E u \in 0..UpgradeKept :
           \/ backups' = Pruned(backups, "upgrade", u)
           \/ \E k \in 1..DailyKept : backups' = Pruned(Pruned(WithBackup("daily"), "daily", k), "upgrade", u)
    /\ UNCHANGED <<db, aside>>

\* surumOncesiYedek
UpgradeBackup ==
    /\ \E u \in 1..UpgradeKept : backups' = Pruned(WithBackup("upgrade"), "upgrade", u)
    /\ UNCHANGED <<db, aside>>
-----------------------------------------------------------------------------
(* Opening                                                                  *)

\* veriVarMi: tables are there since the first migration.
HasTables == db.schema > 0

\* The file that was set aside last.
Latest == aside[Len(aside)]

\* No file yet, or none left by a kurtar that was cut short: the log that may
\* lie there is deleted.
DropLog == aside' = IF aside = <<>> THEN aside ELSE [aside EXCEPT ![Len(aside)].cur = Latest.main]

OpenFile ==
    /\ db.sound
    /\ IF db.there
       THEN UNCHANGED <<db, aside>>
       ELSE db' = Whole({}, 0) /\ DropLog
    /\ UNCHANGED backups

\* uygula for what is pending: each step and its number in one transaction.
Migrate(version) ==
    /\ db' = [db EXCEPT !.schema = IF @ < version THEN version ELSE @]
    /\ UNCHANGED <<aside, backups>>

\* Mutant of SetAside: the corrupt file is deleted.
DeleteCorrupt ==
    /\ ~db.sound
    /\ db' = Absent
    /\ aside' = Append(aside, [main |-> {}, cur |-> {}, unread |-> {}])
    /\ UNCHANGED backups

(* KenaraAl in kurtar: the file is renamed, its log is still where it was.  *)
(* What is in the log only is lost if it does not follow.                   *)
SetAside ==
    /\ ~db.sound
    /\ db' = Absent
    /\ aside' = Append(aside, [main |-> db.main, cur |-> db.cur, unread |-> db.unread])
    /\ UNCHANGED backups

MoveLog ==
    /\ aside' = [aside EXCEPT ![Len(aside)].main = Latest.cur]
    /\ UNCHANGED <<db, backups>>

Good == {i \in DOMAIN backups : backups[i].sound}

NewestGood == backups[CHOOSE i \in Good : \A j \in Good : i <= j]

(* The newest backup that opens, or an empty database.                      *)
Restore ==
    /\ db' = IF Good = {} THEN Whole({}, 0) ELSE Whole(NewestGood.rows, NewestGood.schema)
    /\ UNCHANGED <<aside, backups>>

\* What can be read of a file that was set aside.
Readable(a) == a.main \ a.unread

Living(facts) == {f \in facts : f \in Posts => Gone(f) \notin facts}

\* Mutant of Salvaged: what the tombstones name is not deleted again.
AllSalvaged(a) == db.cur \cup Readable(a)

\* aktar
Salvaged(a) == Living(db.cur \cup Readable(a))

Salvage ==
    /\ db' = [db EXCEPT !.cur = Salvaged(Latest)]
    /\ UNCHANGED <<aside, backups>>
-----------------------------------------------------------------------------
(* Use and damage                                                           *)

\* InsertPost
Insert(p) ==
    /\ db' = [db EXCEPT !.cur = @ \cup {p}]
    /\ UNCHANGED <<aside, backups>>

\* DeletePostWithTombstone
Delete(p) ==
    /\ p \in db.cur
    /\ db' = [db EXCEPT !.cur = (@ \ {p}) \cup {Gone(p)}]
    /\ UNCHANGED <<aside, backups>>

\* Close, and SQLite on its own: the log goes into the file.
Checkpoint ==
    /\ db' = [db EXCEPT !.main = db.cur]
    /\ UNCHANGED <<aside, backups>>

DamageFile ==
    /\ db.there /\ db.sound
    /\ \E unread \in SUBSET db.cur : db' = [db EXCEPT !.sound = FALSE, !.unread = unread]
    /\ UNCHANGED <<aside, backups>>

DamageBackup ==
    /\ \E i \in DOMAIN backups : backups' = [backups EXCEPT ![i].sound = FALSE]
    /\ UNCHANGED <<db, aside>>
-----------------------------------------------------------------------------
\* Everything there is on the disk, readable or not.
Stored ==
    db.cur \cup (UNION {backups[i].rows : i \in DOMAIN backups})
           \cup (UNION {aside[i].cur : i \in DOMAIN aside})

\* What an opened database should hold: the newest good backup and what could
\* be read of the last corrupt file.
Recoverable ==
    (IF Good = {} THEN {} ELSE NewestGood.rows)
        \cup (IF aside = <<>> THEN {} ELSE Readable(Latest))
=============================================================================
