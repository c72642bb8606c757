------------------------------ MODULE NodeLife ------------------------------
(***************************************************************************)
(* The life of the AND program on one machine: cmd/and/main.go from the    *)
(* lock on the data directory over the login and the opening of forum.db   *)
(* to the orderly end, the update that replaces the program, and the       *)
(* restart by which the old process hands the directory to the new one.    *)
(*                                                                         *)
(* Processes die between any two steps, several are started, files are     *)
(* damaged while none runs and writes fail: MaxFaults times in all.  A     *)
(* file written by dosya.AtomikYaz changes in one step.                    *)
(***************************************************************************)
EXTENDS Database

CONSTANTS
    Procs,          \* processes of AND on the data directory
    None,
    Ids,            \* identities
    Letters,        \* what the network brings for a state file
    MaxFaults       \* bound on crashes, damages, failures, forgotten passphrases, ends

\* What a broken download leaves.
Bad == 9

ASSUME NodeLifeAssumption ==
    /\ Ids # {} /\ MaxFaults \in Nat
    /\ None \notin Procs \cup Ids \cup {0, 1, 2, Bad}

VARIABLES
    stage,      \* where run() is, for each process
    holder,     \* the process that has the lock
    ver,        \* the version each process runs
    book,       \* a state file that is read once and rewritten from memory
    mem,        \* what each process has of it
    file,       \* the identity in identity.dat
    oldIds,     \* and those in identity.dat.eski-...
    draft,      \* the identity that is to be saved
    eski,       \* and the one that was set aside for it
    recovering, \* Open is in kurtar
    restart,    \* yenidenBaslat
    exe, old, new,  \* the program, .old and .new: versions, Bad or None
    plug,       \* a plugin: the versions of its program, its .old and its manifest
    up,         \* where autoUpdate is
    made,       \* every post and tombstone that was ever committed
    ids,        \* every identity that was ever saved
    cut,        \* what a crash or a failed write cut short
    faults      \* the bound's counter

idVars   == <<file, oldIds, draft, eski, ids>>
exeVars  == <<exe, old, new, plug, up>>
bookVars == <<book, mem>>
vars     == <<stage, holder, ver, bookVars, idVars, recovering, restart, exeVars,
              dbVars, made, cut, faults>>

Stages == { "off", "waiting", "login", "verify", "replacing", "opening", "asided", "logged",
            "migrating", "upgrading", "salvaging", "loading", "running", "closed",
            "silent", "spawning" }

\* AND is started for the first time.
FirstStart ==
    /\ file = None /\ ids = {}
    /\ DbInit /\ made = {}

\* An earlier run died: the posts are in a backup, their tombstones in the log
\* only.  Then forum.db was damaged.
AfterDamage ==
    /\ file = (CHOOSE i \in Ids : TRUE) /\ ids = {file}
    /\ made = Facts
    /\ db = [Whole(Living(made), 1) EXCEPT !.main = {}, !.sound = FALSE]
    /\ backups = <<[kind |-> "daily", rows |-> Posts, schema |-> 1, sound |-> TRUE]>>
    /\ aside = <<>>

Init ==
    /\ stage = [p \in Procs |-> "off"] /\ holder = None /\ ver = [p \in Procs |-> 0]
    /\ book = {} /\ mem = [p \in Procs |-> {}]
    /\ FirstStart \/ AfterDamage
    /\ oldIds = {} /\ draft = None /\ eski = None
    /\ recovering = FALSE /\ restart = FALSE
    /\ exe = 1 /\ old = None /\ new = None /\ plug = [exe |-> 1, old |-> 0, man |-> 1] /\ up = "idle"
    /\ cut = {} /\ faults = 0

\* Nothing fails any more, and the user lets AND run.
calm == faults = MaxFaults

Fault ==
    /\ ~calm
    /\ faults' = faults + 1

Go(p, from, to) ==
    /\ stage[p] = from
    /\ stage' = [stage EXCEPT ![p] = to]
-----------------------------------------------------------------------------
(* The lock                                                                 *)

\* The user starts AND.
Launch(p) ==
    /\ exe # None /\ Go(p, "off", "waiting")
    /\ ver' = [ver EXCEPT ![p] = exe]
    /\ UNCHANGED <<holder, bookVars, idVars, recovering, restart, exeVars, dbVars, made, cut, faults>>

\* Mutant of Free: the lock is released before the node is closed.
FreeEarly == \A p \in Procs : holder = p => stage[p] \in {"closed", "silent"}

Free == holder = None

\* KilitAl
TakeLock(p) ==
    /\ Free /\ Go(p, "waiting", "login")
    /\ holder' = p
    /\ UNCHANGED <<ver, bookVars, idVars, recovering, restart, exeVars, dbVars, made, cut, faults>>

\* What the end of a process leaves of it.
Ended(p) ==
    /\ up' = "idle" /\ draft' = None /\ eski' = None
    /\ recovering' = FALSE /\ restart' = FALSE
    /\ ver' = [ver EXCEPT ![p] = 0]
    /\ mem' = [mem EXCEPT ![p] = {}] /\ book' = book

\* Mutant of Unlocked: a lock file that a dead process leaves behind.
StaysLocked(p) == holder

\* The operating system takes the lock back.
Unlocked(p) == IF holder = p THEN None ELSE holder

\* veriDiziniKilidi: another AND had the directory for all of five seconds.
GiveUp(p) ==
    /\ ~Free /\ Go(p, "waiting", "off")
    /\ ver' = [ver EXCEPT ![p] = 0]
    /\ UNCHANGED <<holder, bookVars, idVars, recovering, restart, exeVars, dbVars, made, cut, faults>>
-----------------------------------------------------------------------------
(* The login                                                                *)

Saved(i) ==
    /\ file' = i /\ draft' = None /\ eski' = None
    /\ ids' = ids \cup {i}

\* submitForm with a new name and passphrase; the recovery code is shown.
Register(p) ==
    /\ file = None /\ Go(p, "login", "verify")
    /\ \E i \in Ids \ (ids \cup oldIds) : draft' = i
    /\ UNCHANGED <<holder, ver, bookVars, file, oldIds, eski, ids, recovering, restart, exeVars, dbVars, made, cut, faults>>

\* updateVerify: the code was repeated, SaveEncrypted.
Verify(p) ==
    /\ Go(p, "verify", "opening")
    /\ Saved(draft) /\ UNCHANGED oldIds
    /\ UNCHANGED <<holder, ver, bookVars, recovering, restart, exeVars, dbVars, made, cut, faults>>

\* esc on the code: what follows will be another identity.
BackToForm(p) ==
    /\ ~calm /\ Go(p, "verify", "login")
    /\ draft' = None
    /\ UNCHANGED <<holder, ver, bookVars, file, oldIds, eski, ids, recovering, restart, exeVars, dbVars, made, cut, faults>>

\* submitForm with the passphrase: LoadEncrypted; updateName saves the same identity.
Password(p) ==
    /\ file # None /\ Go(p, "login", "opening")
    /\ UNCHANGED <<holder, ver, bookVars, idVars, recovering, restart, exeVars, dbVars, made, cut, faults>>

\* Mutant of KeptOld: the identity file is written over.
NotKept == oldIds

KeptOld == oldIds \cup ({file} \ {None})

\* geriYukle: the file of the forgotten passphrase is set aside.
ReplaceId(p) ==
    /\ Fault /\ Go(p, "login", "replacing")
    /\ \E i \in Ids : draft' = i
    /\ oldIds' = KeptOld
    /\ eski' = file /\ file' = None
    /\ UNCHANGED <<holder, ver, bookVars, ids, recovering, restart, exeVars, dbVars, made, cut>>

\* SaveEncrypted with the identity of the code.
SaveReplaced(p) ==
    /\ Go(p, "replacing", "opening")
    /\ Saved(draft) /\ UNCHANGED oldIds
    /\ UNCHANGED <<holder, ver, bookVars, recovering, restart, exeVars, dbVars, made, cut, faults>>

\* It failed, and the earlier file is put back where it was, if there was one.
PutBack(p) ==
    /\ Fault /\ Go(p, "replacing", "login")
    /\ file' = eski /\ oldIds' = oldIds \ {eski}
    /\ draft' = None /\ eski' = None
    /\ UNCHANGED <<holder, ver, bookVars, ids, recovering, restart, exeVars, dbVars, made, cut>>

\* ctrl+c, esc: ErrLoginCancelled ends run().
Cancel(p) ==
    /\ ~calm /\ stage[p] \in {"login", "verify"}
    /\ stage' = [stage EXCEPT ![p] = "off"]
    /\ holder' = Unlocked(p) /\ Ended(p)
    /\ UNCHANGED <<file, oldIds, ids, exe, old, new, plug, dbVars, made, cut, faults>>
-----------------------------------------------------------------------------
(* forum.db is opened                                                       *)

\* ac: the file is sound, or there is none yet.
OpenDb(p) ==
    /\ Go(p, "opening", "migrating")
    /\ OpenFile
    /\ UNCHANGED <<holder, ver, bookVars, idVars, recovering, restart, exeVars, made, cut, faults>>

SetDbAside(p) ==
    /\ Go(p, "opening", "asided")
    /\ SetAside
    /\ recovering' = TRUE
    /\ UNCHANGED <<holder, ver, bookVars, idVars, restart, exeVars, made, cut, faults>>

MoveDbLog(p) ==
    /\ Go(p, "asided", "logged")
    /\ MoveLog
    /\ UNCHANGED <<holder, ver, bookVars, idVars, recovering, restart, exeVars, made, cut, faults>>

\* The log cannot be moved: it is deleted.
DropDbLog(p) ==
    /\ Fault /\ Go(p, "asided", "logged")
    /\ DropLog
    /\ cut' = cut \cup {"log"}
    /\ UNCHANGED <<holder, ver, bookVars, idVars, recovering, restart, exeVars, db, backups, made>>

RestoreDb(p) ==
    /\ Go(p, "logged", "migrating")
    /\ Restore
    /\ UNCHANGED <<holder, ver, bookVars, idVars, recovering, restart, exeVars, made, cut, faults>>

Next0 == IF recovering THEN "salvaging" ELSE "loading"

Pending(p) == db.schema < ver[p]

UpgradeBackupDb(p) ==
    /\ Pending(p) /\ HasTables /\ Go(p, "migrating", "upgrading")
    /\ UpgradeBackup
    /\ UNCHANGED <<holder, ver, bookVars, idVars, recovering, restart, exeVars, made, cut, faults>>

MigrateDb(p) ==
    /\ \/ Go(p, "upgrading", Next0)
       \/ ~(Pending(p) /\ HasTables) /\ Go(p, "migrating", Next0)
    /\ Migrate(ver[p])
    /\ UNCHANGED <<holder, ver, bookVars, idVars, recovering, restart, exeVars, made, cut, faults>>

\* The copy of a backup cannot be opened, with a full disk for instance: it is
\* deleted, and when none can be, an empty database is opened.
CopyFails(p) ==
    /\ Fault /\ recovering
    /\ stage[p] \in {"logged", "migrating", "upgrading"}
    /\ stage' = [stage EXCEPT ![p] = "migrating"]
    /\ db' = Whole({}, 0)
    /\ cut' = cut \cup {"copy"}
    /\ UNCHANGED <<holder, ver, bookVars, idVars, recovering, restart, exeVars, aside, backups, made>>

SalvageDb(p) ==
    /\ Go(p, "salvaging", "loading")
    /\ Salvage
    /\ recovering' = FALSE
    /\ UNCHANGED <<holder, ver, bookVars, idVars, restart, exeVars, made, cut, faults>>

\* An error that is not corruption, a backup that fails: run() returns it.
OpenFails(p) ==
    /\ Fault /\ ~recovering
    /\ stage[p] \in {"opening", "migrating", "upgrading"}
    /\ stage' = [stage EXCEPT ![p] = "off"]
    /\ holder' = Unlocked(p) /\ Ended(p)
    /\ UNCHANGED <<file, oldIds, ids, exe, old, new, plug, dbVars, made, cut>>

\* moderation.New, KaliciAc and the others read their files; the node is up.
Load(p) ==
    /\ Go(p, "loading", "running")
    /\ mem' = [mem EXCEPT ![p] = book]
    /\ UNCHANGED <<holder, ver, book, idVars, recovering, restart, exeVars, dbVars, made, cut, faults>>
-----------------------------------------------------------------------------
(* Work                                                                     *)

Post(p) ==
    /\ stage[p] = "running"
    /\ \E x \in Posts \ made : Insert(x) /\ made' = made \cup {x}
    /\ UNCHANGED <<stage, holder, ver, bookVars, idVars, recovering, restart, exeVars, cut, faults>>

RemovePost(p) ==
    /\ stage[p] = "running"
    /\ \E x \in Posts : Delete(x) /\ made' = made \cup {Gone(x)}
    /\ UNCHANGED <<stage, holder, ver, bookVars, idVars, recovering, restart, exeVars, cut, faults>>

\* gunlukYedekDongusu; SQLite's own checkpoints.
Upkeep(p) ==
    /\ stage[p] = "running"
    /\ DailyBackup \/ Checkpoint
    /\ UNCHANGED <<stage, holder, ver, bookVars, idVars, recovering, restart, exeVars, made, cut, faults>>

\* While the node is up a stream may bring what is written to a state file.
NodeUp(p) == stage[p] \in {"running", "closed"}

Receive(p) ==
    /\ NodeUp(p)
    /\ \E l \in Letters :
           /\ mem' = [mem EXCEPT ![p] = @ \cup {l}]
           /\ book' = mem'[p]
    /\ UNCHANGED <<stage, holder, ver, idVars, recovering, restart, exeVars, dbVars, made, cut, faults>>
-----------------------------------------------------------------------------
(* autoUpdate: it goes on after the interface has ended, until the process ends *)

Alive(p) == stage[p] \in {"running", "closed", "silent"}

Step(p, from, to) ==
    /\ Alive(p) /\ up = from
    /\ up' = to
    /\ UNCHANGED <<stage, holder, ver, bookVars, idVars, recovering, restart, dbVars, made, faults>>

\* Check has found a release; downloadFile, which may end in the middle.
Download(p) ==
    /\ ver[p] = 1 /\ Step(p, "idle", "got")
    /\ new' \in {2, Bad}
    /\ UNCHANGED <<exe, old, plug, cut>>

\* Mutant of Verified: the checksum is not compared.
AnyFile == new # None

Verified == new = 2

\* verifyChecksum has said no.
Discard(p) ==
    /\ ~Verified /\ Step(p, "got", "over")
    /\ new' = None
    /\ UNCHANGED <<exe, old, plug, cut>>

\* The program is moved to .old, in place of what is there: that is deleted
\* first, and the update fails if there is no program.
MoveExe(p) ==
    /\ Verified /\ exe # None /\ Step(p, "got", "moved")
    /\ old' = exe /\ exe' = None
    /\ UNCHANGED <<new, plug, cut>>

NoExe(p) ==
    /\ Verified /\ exe = None /\ Step(p, "got", "over")
    /\ old' = None /\ new' = None
    /\ UNCHANGED <<exe, plug, cut>>

PlaceExe(p) ==
    /\ Step(p, "moved", "placed")
    /\ exe' = new /\ new' = None
    /\ UNCHANGED <<old, plug, cut>>

\* go os.Remove(oldPath)
RemoveOld(p) ==
    /\ Alive(p) /\ up \in {"placed", "plugmoved", "plugged", "done"} /\ old # None
    /\ old' = None
    /\ UNCHANGED <<stage, holder, ver, bookVars, idVars, recovering, restart, exe, new, plug, up, dbVars, made, cut, faults>>

\* eklentiGuncelle: a plugin whose program is that of the release is skipped;
\* else dosyaDegistir, whose two renames are as above ...
SkipPlugin(p) ==
    /\ plug.exe = 2 /\ Step(p, "placed", "done")
    /\ UNCHANGED <<exe, old, new, plug, cut>>

MovePlugin(p) ==
    /\ plug.exe # 2 /\ Step(p, "placed", "plugmoved")
    /\ plug' = [plug EXCEPT !.exe = 0, !.old = plug.exe]
    /\ UNCHANGED <<exe, old, new, cut>>

PlacePlugin(p) ==
    /\ Step(p, "plugmoved", "plugged")
    /\ plug' = [plug EXCEPT !.exe = 2, !.old = 0]
    /\ UNCHANGED <<exe, old, new, cut>>

\* ... and the manifest after it; then the interface is told and restartCh filled.
WriteManifest(p) ==
    /\ Step(p, "plugged", "done")
    /\ plug' = [plug EXCEPT !.man = 2]
    /\ UNCHANGED <<exe, old, new, cut>>

\* A step fails: the program is put back, a plugin left behind.
UpdateFails(p) ==
    /\ Fault /\ Alive(p)
    /\ \/ /\ up \in {"got", "moved"} /\ up' = "over"
          /\ new' = None
          /\ IF up = "moved" THEN exe' = old /\ old' = None ELSE UNCHANGED <<exe, old>>
          /\ UNCHANGED <<plug, cut>>
       \/ /\ up \in {"placed", "plugmoved", "plugged"} /\ up' = "done"
          /\ plug' = IF up = "plugmoved" THEN [plug EXCEPT !.exe = plug.old, !.old = 0] ELSE plug
          /\ cut' = cut \cup {"plugin"}
          /\ UNCHANGED <<exe, old, new>>
    /\ UNCHANGED <<stage, holder, ver, bookVars, idVars, recovering, restart, dbVars, made>>
-----------------------------------------------------------------------------
(* The end                                                                  *)

\* tui.Run has returned; cancel, arka.Bekle, forumStore.Close.  It is a restart
\* when the update was done, unless a worker's panic ended the interface.
Quit(p) ==
    /\ Fault /\ Go(p, "running", "closed")
    /\ \E panic \in BOOLEAN : restart' = (up = "done" /\ ~panic)
    /\ Checkpoint
    /\ UNCHANGED <<holder, ver, bookVars, idVars, recovering, exeVars, made, cut>>

CloseNode(p) ==
    /\ Go(p, "closed", "silent")
    /\ UNCHANGED <<holder, ver, bookVars, idVars, recovering, restart, exeVars, dbVars, made, cut, faults>>

\* What the end of the process, whether it dies or run() returns, leaves half done.
CutShort(p) ==
    (IF stage[p] = "asided" THEN {"log"} ELSE {})
        \cup (IF recovering THEN {"copy"} ELSE {})
        \cup (IF up = "moved" THEN {"exe"} ELSE {})
        \cup (IF up \in {"placed", "plugmoved", "plugged"} THEN {"plugin"} ELSE {})

\* Birak
Release(p) ==
    /\ Go(p, "silent", IF restart THEN "spawning" ELSE "off")
    /\ holder' = IF holder = p THEN None ELSE holder
    /\ Ended(p) /\ cut' = cut \cup CutShort(p)
    /\ UNCHANGED <<file, oldIds, ids, exe, old, new, plug, dbVars, made, faults>>

\* SelfRestart, and the old process ends.
SelfRestart(p) ==
    /\ stage[p] = "spawning"
    /\ \/ /\ exe = None
          /\ stage' = [stage EXCEPT ![p] = "off"]
          /\ UNCHANGED ver
       \/ /\ exe # None
          /\ \E q \in Procs :
                /\ q = p \/ stage[q] = "off"
                /\ stage' = [stage EXCEPT ![p] = "off", ![q] = "waiting"]
                /\ ver' = [ver EXCEPT ![q] = exe]
    /\ UNCHANGED <<holder, bookVars, idVars, recovering, restart, exeVars, dbVars, made, cut, faults>>

\* The process dies.
Crash(p) ==
    /\ Fault /\ holder = p
    /\ stage' = [stage EXCEPT ![p] = "off"]
    /\ holder' = Unlocked(p) /\ Ended(p)
    /\ cut' = cut \cup CutShort(p)
    /\ UNCHANGED <<file, oldIds, ids, exe, old, new, plug, dbVars, made>>

\* Damage on the disk, found when the file is opened.
Damage ==
    /\ Fault /\ \A p \in Procs : stage[p] \in {"off", "waiting", "login"}
    /\ DamageFile \/ DamageBackup
    /\ UNCHANGED <<stage, holder, ver, bookVars, idVars, recovering, restart, exeVars, made, cut>>

CalmDown ==
    /\ ~calm /\ faults' = MaxFaults
    /\ UNCHANGED <<stage, holder, ver, bookVars, idVars, recovering, restart, exeVars, dbVars, made, cut>>
-----------------------------------------------------------------------------
LogsIn(p) ==
    \/ Register(p) \/ Verify(p) \/ Password(p)
    \/ SaveReplaced(p)

Opens(p) ==
    \/ OpenDb(p) \/ SetDbAside(p) \/ MoveDbLog(p) \/ RestoreDb(p)
    \/ UpgradeBackupDb(p) \/ MigrateDb(p) \/ SalvageDb(p) \/ Load(p)

Works(p) == Post(p) \/ RemovePost(p) \/ Upkeep(p) \/ Receive(p)

Updates(p) ==
    \/ Download(p) \/ Discard(p) \/ MoveExe(p) \/ NoExe(p) \/ PlaceExe(p) \/ RemoveOld(p)
    \/ SkipPlugin(p) \/ MovePlugin(p) \/ PlacePlugin(p) \/ WriteManifest(p)

Ends(p) == CloseNode(p) \/ Release(p) \/ SelfRestart(p)

Fails(p) ==
    \/ BackToForm(p) \/ ReplaceId(p) \/ PutBack(p) \/ Cancel(p)
    \/ DropDbLog(p) \/ CopyFails(p) \/ OpenFails(p)
    \/ UpdateFails(p) \/ Quit(p) \/ Crash(p)

Next ==
    \/ \E p \in Procs :
          \/ Launch(p) \/ TakeLock(p) \/ GiveUp(p)
          \/ LogsIn(p) \/ Opens(p) \/ Works(p) \/ Updates(p) \/ Ends(p) \/ Fails(p)
    \/ Damage \/ CalmDown

Spec == Init /\ [][Next]_vars

\* The user starts AND and logs in; run() goes on.
Fairness == \A p \in Procs :
    WF_vars(Launch(p) \/ TakeLock(p) \/ LogsIn(p) \/ Opens(p) \/ Ends(p))

FairSpec == Spec /\ Fairness
-----------------------------------------------------------------------------
(* Correctness                                                              *)

TypeOK ==
    /\ stage \in [Procs -> Stages] /\ holder \in Procs \cup {None}
    /\ ver \in [Procs -> Version]
    /\ book \subseteq Letters /\ mem \in [Procs -> SUBSET Letters]
    /\ {file, draft, eski} \subseteq Ids \cup {None} /\ oldIds \cup ids \subseteq Ids
    /\ DbTypeOK /\ made \subseteq Facts

Serving(p) == stage[p] \in {"running", "closed", "silent"}

\* One process at a time: a process that may still write its state files has in
\* memory all that is in them, so that it loses nothing of another process's,
\* and the database has all it needs of the schema.  The old and the new process
\* of an update overlap (main.go, the order of the deferred functions).  (With
\* the variables' types, which the run checks here.)
Current ==
    /\ TypeOK
    /\ \A p \in Procs : NodeUp(p) => book \subseteq mem[p]
    /\ \A p \in Procs : Serving(p) => db.there /\ db.schema >= ver[p]

\* Nothing that was stored is destroyed: a post that was not deleted, and every
\* tombstone, is in forum.db, a backup or a file that was set aside, whatever crash,
\* damage, restoring, upgrade and pruning of backups came between; unless
\* the write-ahead log of a corrupt file was left behind.
RecordsKept ==
    "log" \notin cut => Living(made) \subseteq Stored

\* What could be recovered is in use: the running program shows every post of
\* the newest good backup and of what can be read of the corrupt files, except
\* what a tombstone names, and nothing that one names; unless a recovery was
\* cut short.
BackInUse ==
    \A p \in Procs : Serving(p) =>
        /\ db.cur = Living(db.cur)
        /\ "copy" \notin cut => Living(db.cur \cup Recoverable) \subseteq db.cur

\* No identity is lost: whichever was saved on this device is in identity.dat,
\* in a file set aside, or about to be put back (login.go, geri_yukle.go).
IdentityKept == ids \subseteq {file} \cup oldIds

\* The program is whole: only a verified one is ever in its place or in .old,
\* and it is in its place, or in .old for a moment, unless the process ended
\* between the two renames; a plugin's manifest is never newer than its
\* program, and once AND is of a version its plugins are too, unless the
\* process ended or a write failed in between (updater.go, eklenti.go).
ProgramWhole ==
    /\ Bad \notin {exe, old}
    /\ exe = None => (up = "moved" /\ old # None) \/ "exe" \in cut
    /\ plug.exe \in 1..2 => plug.man <= plug.exe
    /\ exe = 2 /\ "plugin" \notin cut /\ up \notin {"placed", "plugmoved", "plugged"} =>
           plug.exe = 2 /\ plug.man = 2

\* AND comes up: when nothing fails any more and the user starts it and logs
\* in, it runs, after whatever came before; unless the program is gone.
ComesUp == calm ~> (exe = None \/ \E p \in Procs : stage[p] = "running")
=============================================================================
