-------------------------- MODULE ArchiveLifecycle --------------------------
(***************************************************************************)
(* The archive as files that outlive the processes that open them: the     *)
(* lock on the data directory, the schema a process finds and upgrades     *)
(* when it starts, the snapshots the server takes of its database, their   *)
(* manifest and retention, and the restore of one of them.                 *)
(*                                                                         *)
(* A process may be killed between any two steps, and the power may fail.  *)
(* After a power failure a directory entry that was not synced is as it    *)
(* is now or as it was when the directory was last synced, and commits     *)
(* since the last checkpoint may be gone: the database runs with           *)
(* synchronous(NORMAL).                                                    *)
(***************************************************************************)
EXTENDS Naturals, FiniteSets, Sequences, SequencesExt

CONSTANTS
  Procs, NoProc,
  Reqs,       \* requests that save preferences
  Builds,     \* programs: [target, set], set the checksums of an extension
  Keep,       \* snapshots retained; 0 keeps all
  MaxIds,     \* snapshot names 1..MaxIds, in the order of their time stamps
  Starts      \* databases and budgets to start from

ASSUME LifecycleAssumption ==
  /\ NoProc \notin Procs
  /\ Keep \in Nat /\ MaxIds \in Nat
  /\ Builds # {} /\ \A b \in Builds : b.target \in Nat \ {0}

Ids == 1..MaxIds
None == 0
\* A database: its schema, the extension's history, what people stored, what
\* was stored when a beta was adopted, and which file it is.
NoDb == [line |-> "none", ver |-> 0, hist |-> <<>>, data |-> None, adopted |-> None, gen |-> 0]
NoJob == [pc |-> "idle", id |-> None, man |-> {}, drop |-> {}]
NoLoop == [pc |-> "read", on |-> FALSE, version |-> 0]
NoReq == [pc |-> "idle", on |-> FALSE]

\* No beta was adopted yet.
ASSUME StartsAssumption ==
  \A s \in Starts : DOMAIN s.db = DOMAIN NoDb /\ s.db.adopted = None

VARIABLES
  holder,   \* process with the lock on the data directory
  proc,     \* [Procs -> [pc, build]]
  file,     \* suchi.db
  wal,      \* suchi.db-wal: NoDb when there is none, else the newest commit
  snaps,    \* pre-stable snapshots: [data, synced]
  files,    \* [Ids -> database in the backup file, or NoDb]
  man,      \* manifest: <<id, database it was the digest of>>
  synced,   \* [files, man]: the backup directory as last synced
  job,      \* [Procs -> the snapshot a server is taking]
  prefs,    \* stored: snapshots are on
  sched,    \* Scheduler: [on, version, changed]
  loop,     \* its goroutine: [pc, on, version]
  req,      \* [Reqs -> [pc, on]]
  restore,  \* restore under way: [pc, db]
  listed,   \* a snapshot was ever listed, and its listing synced
  stepped,  \* a snapshot got an earlier name than one before it
  orphans,  \* listed, and removed because the sync of the listing failed
  left

stored == <<file, wal, snaps>>
backups == <<files, man, synced>>
timer == <<prefs, sched, loop, req>>
vars == <<holder, proc, stored, backups, job, timer, restore, listed, stepped, orphans, left>>

Spend(what) == left[what] > 0 /\ left' = [left EXCEPT ![what] = @ - 1]

\* What opening the database shows.
Content == IF wal = NoDb THEN file ELSE wal
\* A transaction on the one write connection, all of it or nothing.
Commit(d) == wal' = d

----------------------------------------------------------------------------
(* Opening and upgrading *)

At(p, pc) == proc[p].pc = pc
Goto(p, pc) == proc' = [proc EXCEPT ![p].pc = pc]

\* Mutant: the lock is not asked for.
AcquireAnyway(p) == TRUE

\* archivelock.Acquire: without waiting, and gone with the process.
Acquire(p) == holder = NoProc

\* db.Open.  Restoring asks for every process to be stopped.
Open(p, b) ==
  /\ Spend("opens")
  /\ At(p, "down") /\ restore.pc = "idle"
  /\ Acquire(p)
  /\ holder' = p
  /\ proc' = [proc EXCEPT ![p] = [pc |-> "opened", build |-> b]]
  /\ UNCHANGED <<stored, backups, job, timer, restore, listed, stepped, orphans>>

Target(p) == proc[p].build.target
Stable(d, n) == d.line = "stable" /\ d.ver = n

\* PrepareStable finds the schema this build knows, by version, lineage and
\* fingerprint.
AcceptSchema(p) ==
  /\ At(p, "opened") /\ Stable(Content, Target(p))
  /\ Goto(p, "extension")
  /\ UNCHANGED <<holder, stored, backups, job, timer, restore, listed, stepped, orphans, left>>

Upgradable(p) == Content.ver < Target(p) /\ Content.line \in {"none", "stable"}

\* Migrate: an empty database and every older stable schema, one migration
\* and one version number in each transaction.
MigrateOne(p) ==
  /\ At(p, "opened") /\ Upgradable(p)
  /\ Commit([Content EXCEPT !.line = "stable", !.ver = @ + 1])
  /\ UNCHANGED <<holder, proc, file, snaps, backups, job, timer, restore, listed, stepped, orphans, left>>

\* createAdoptionSnapshot: the copy is linked beside a known beta database ...
SnapshotBeta(p) ==
  /\ At(p, "opened") /\ Content.line = "beta"
  /\ snaps' = snaps \cup {[data |-> Content.data, synced |-> FALSE]}
  /\ Goto(p, "linked")
  /\ UNCHANGED <<holder, file, wal, backups, job, timer, restore, listed, stepped, orphans, left>>

\* Mutant: the directory is not synced.
LeaveUnsynced(s) == s

\* ... and its directory synced, before anything is changed.
SyncedSnapshots(s) == {[x EXCEPT !.synced = TRUE] : x \in s}

SyncSnapshot(p) ==
  /\ At(p, "linked")
  /\ snaps' = SyncedSnapshots(snaps)
  /\ Goto(p, "snapped")
  /\ UNCHANGED <<holder, file, wal, backups, job, timer, restore, listed, stepped, orphans, left>>

\* adoptBeta: all remaining migrations, lineage and version in one transaction.
AdoptBeta(p) ==
  /\ At(p, "snapped")
  /\ Commit([Content EXCEPT !.line = "stable", !.ver = Target(p), !.adopted = Content.data])
  /\ Goto(p, "opened")
  /\ UNCHANGED <<holder, file, snaps, backups, job, timer, restore, listed, stepped, orphans, left>>

SchemaUnknown(p) ==
  \/ Content.line = "odd"
  \/ Content.line = "stable" /\ Content.ver > Target(p)

\* checkMigrationSet: the applied history is the beginning of the build's.
HistoryKnown(p) == IsPrefix(Content.hist, proc[p].build.set)

\* MigrateSet: one version of the extension in each transaction.
MigrateSet(p) ==
  /\ At(p, "extension") /\ HistoryKnown(p) /\ Content.hist # proc[p].build.set
  /\ Commit([Content EXCEPT !.hist = Append(@, proc[p].build.set[Len(@) + 1])])
  /\ UNCHANGED <<holder, proc, file, snaps, backups, job, timer, restore, listed, stepped, orphans, left>>

\* The server begins to serve, with the interval that is stored.
Serve(p) ==
  /\ At(p, "extension") /\ Content.hist = proc[p].build.set
  /\ Goto(p, "serving")
  /\ sched' = [on |-> prefs, version |-> 0, changed |-> FALSE]
  /\ loop' = NoLoop
  /\ req' = [r \in Reqs |-> NoReq]
  /\ UNCHANGED <<holder, stored, backups, job, prefs, restore, listed, stepped, orphans, left>>

\* People store something.
Write(p) ==
  /\ Spend("writes")
  /\ At(p, "serving")
  /\ Commit([Content EXCEPT !.data = @ + 1])
  /\ UNCHANGED <<holder, proc, file, snaps, backups, job, timer, restore, listed, stepped, orphans>>

\* SQLite copies the log into the database from time to time.
Checkpoint(p) ==
  /\ proc[p].pc # "down" /\ wal # NoDb
  /\ file' = wal
  /\ UNCHANGED <<holder, proc, wal, snaps, backups, job, timer, restore, listed, stepped, orphans, left>>

Release(p) == holder' = IF holder = p THEN NoProc ELSE holder
Ended(p) == /\ proc' = [proc EXCEPT ![p].pc = "down"]
            /\ job' = [job EXCEPT ![p] = NoJob]

\* A start that fails, and a stop: the log goes with the last connection.
Close(p) ==
  /\ \/ At(p, "opened") /\ SchemaUnknown(p)
     \/ At(p, "extension") /\ ~HistoryKnown(p)
     \/ At(p, "serving") /\ left["opens"] > 0
  /\ file' = Content /\ wal' = NoDb
  /\ Ended(p) /\ Release(p)
  /\ UNCHANGED <<snaps, backups, timer, restore, listed, stepped, orphans, left>>

Kill(p) ==
  /\ Spend("kills")
  /\ proc[p].pc # "down"
  /\ Ended(p) /\ Release(p)
  /\ UNCHANGED <<stored, backups, timer, restore, listed, stepped, orphans>>

\* Entries that were not synced are as they were or as they are.
PowerFails ==
  /\ Spend("power")
  /\ restore.pc = "idle"
  /\ \E lost \in SUBSET {s \in snaps : ~s.synced} : snaps' = SyncedSnapshots(snaps \ lost)
  /\ \E pick \in [Ids -> BOOLEAN] :
       files' = [i \in Ids |-> IF pick[i] THEN files[i] ELSE synced.files[i]]
  /\ \E m \in {man, synced.man} : man' = m
  /\ synced' = [files |-> files', man |-> man']
  /\ \E w \in {wal, NoDb} : wal' = w
  /\ holder' = NoProc
  /\ proc' = [p \in Procs |-> [proc[p] EXCEPT !.pc = "down"]]
  /\ job' = [p \in Procs |-> NoJob]
  /\ UNCHANGED <<file, timer, restore, listed, stepped, orphans>>

----------------------------------------------------------------------------
(* The scheduler *)

Running == \E p \in Procs : At(p, "serving")

\* The channel holds one notice; a further one is left out.
Noticed == TRUE

\* SavePreferences stores the interval,
SavePreferences(r) ==
  /\ Spend("prefs")
  /\ Running /\ req[r].pc = "idle"
  /\ prefs' = ~prefs
  /\ req' = [req EXCEPT ![r] = [pc |-> "saved", on |-> FALSE]]
  /\ UNCHANGED <<holder, proc, stored, backups, job, sched, loop, restore, listed, stepped, orphans>>

\* its reload reads it back,
ResolvePreferences(r) ==
  /\ Running /\ req[r].pc = "saved"
  /\ req' = [req EXCEPT ![r] = [pc |-> "resolved", on |-> prefs]]
  /\ UNCHANGED <<holder, proc, stored, backups, job, prefs, sched, loop, restore, listed,
                 stepped, orphans, left>>

\* and Scheduler.Update hands it over.
UpdateScheduler(r) ==
  /\ Running /\ req[r].pc = "resolved"
  /\ sched' = [on |-> req[r].on, version |-> sched.version + 1,
               changed |-> sched.changed \/ Noticed]
  /\ req' = [req EXCEPT ![r] = NoReq]
  /\ UNCHANGED <<holder, proc, stored, backups, job, prefs, loop, restore, listed,
                 stepped, orphans, left>>

\* Scheduler.Run reads the configuration,
ReadConfig ==
  /\ Running /\ loop.pc = "read"
  /\ loop' = [pc |-> "armed", on |-> sched.on, version |-> sched.version]
  /\ UNCHANGED <<holder, proc, stored, backups, job, prefs, sched, req, restore, listed, stepped, orphans, left>>

\* waits with it,
Await ==
  /\ Running /\ loop.pc = "armed"
  /\ loop' = [loop EXCEPT !.pc = "wait"]
  /\ UNCHANGED <<holder, proc, stored, backups, job, prefs, sched, req, restore, listed, stepped, orphans, left>>

\* hears of a change,
HearChange ==
  /\ Running /\ loop.pc = "wait" /\ sched.changed
  /\ sched' = [sched EXCEPT !.changed = FALSE]
  /\ loop' = [loop EXCEPT !.pc = "read"]
  /\ UNCHANGED <<holder, proc, stored, backups, job, prefs, req, restore, listed, stepped, orphans, left>>

\* or its timer fires: a change not heard of yet is met here.
TickStale ==
  /\ Running /\ loop.pc = "wait" /\ loop.on /\ loop.version # sched.version
  /\ loop' = [loop EXCEPT !.pc = "read"]
  /\ UNCHANGED <<holder, proc, stored, backups, job, prefs, sched, req, restore, listed, stepped, orphans, left>>

----------------------------------------------------------------------------
(* Snapshots *)

InJob(p, pc) == At(p, "serving") /\ job[p].pc = pc
Step(p, pc) == job' = [job EXCEPT ![p].pc = pc]
Existing == {i \in Ids : files[i] # NoDb}
SyncDirectory == synced' = [files |-> files', man |-> man']

\* Snapshot and createBackupFile: copied, digested, linked under its name.
LinkBackup(p, i) ==
  /\ InJob(p, "idle") /\ files[i] = NoDb /\ synced.files[i] = NoDb
  /\ \A e \in man : e[1] # i
  /\ loop.pc = "wait" /\ loop.on /\ loop.version = sched.version
  /\ Spend("snapshots")
  /\ files' = [files EXCEPT ![i] = Content]
  /\ stepped' = (stepped \/ \E j \in Existing : j > i)
  /\ job' = [job EXCEPT ![p] = [NoJob EXCEPT !.pc = "linked", !.id = i]]
  /\ loop' = [loop EXCEPT !.pc = "busy"]
  /\ UNCHANGED <<holder, proc, stored, man, synced, prefs, sched, req, restore, listed, orphans>>

\* The directory is synced and the manifest read.
ReadManifest(p) ==
  /\ InJob(p, "linked")
  /\ job' = [job EXCEPT ![p].pc = "read", ![p].man = man]
  /\ UNCHANGED <<files, man>> /\ SyncDirectory
  /\ UNCHANGED <<holder, proc, stored, timer, restore, listed, stepped, orphans, left>>

\* writeManifest replaces it by rename.
WriteManifest(p) ==
  /\ InJob(p, "read")
  /\ man' = job[p].man \cup {<<job[p].id, files[job[p].id]>>}
  /\ Step(p, "written")
  /\ UNCHANGED <<holder, proc, stored, files, synced, timer, restore, listed, stepped, orphans, left>>

\* A step fails.  Until the manifest is known to be stored the new file is
\* removed, also when the manifest was replaced and only its sync failed.
SnapshotFails(p) ==
  /\ job[p].pc # "idle" /\ At(p, "serving")
  /\ Spend("failures")
  /\ \/ /\ job[p].pc \in {"linked", "read", "written"}
        /\ files' = [files EXCEPT ![job[p].id] = NoDb]
     \/ job[p].pc \in {"listed", "pruned"} /\ UNCHANGED files
  /\ orphans' = IF job[p].pc = "written" THEN orphans \cup {job[p].id} ELSE orphans
  /\ job' = [job EXCEPT ![p] = NoJob]
  /\ loop' = [loop EXCEPT !.pc = "read"]
  /\ UNCHANGED <<holder, proc, stored, man, synced, prefs, sched, req, restore, listed, stepped>>

\* Then pruneOld: all files but the newest, whether listed or not.
Dropped == IF Keep = 0 THEN {} ELSE {i \in Existing : Cardinality({j \in Existing : j > i}) >= Keep}

SyncManifest(p) ==
  /\ InJob(p, "written")
  /\ UNCHANGED <<files, man>> /\ SyncDirectory
  /\ listed' = TRUE
  /\ job' = [job EXCEPT ![p].pc = "listed", ![p].drop = Dropped, ![p].man = man]
  /\ UNCHANGED <<holder, proc, stored, timer, restore, stepped, orphans, left>>

\* Mutant: they stay listed.
AllKept(entries, drop) == entries

Kept(entries, drop) == {e \in entries : e[1] \notin drop}

\* The manifest forgets them before they are removed.
PruneManifest(p) ==
  /\ InJob(p, "listed") /\ job[p].drop # {}
  /\ man' = Kept(job[p].man, job[p].drop)
  /\ UNCHANGED files /\ SyncDirectory
  /\ Step(p, "pruned")
  /\ UNCHANGED <<holder, proc, stored, timer, restore, listed, stepped, orphans, left>>

RemoveOld(p) ==
  /\ InJob(p, "pruned") /\ job[p].drop # {}
  /\ \E i \in job[p].drop :
       /\ \A j \in job[p].drop : i <= j
       /\ files' = [files EXCEPT ![i] = NoDb]
       /\ job' = [job EXCEPT ![p].drop = @ \ {i}]
  /\ UNCHANGED <<holder, proc, stored, man, synced, timer, restore, listed, stepped, orphans, left>>

FinishSnapshot(p) ==
  /\ InJob(p, "listed") \/ InJob(p, "pruned")
  /\ job[p].drop = {}
  /\ job' = [job EXCEPT ![p] = NoJob]
  /\ loop' = [loop EXCEPT !.pc = "read"]
  /\ UNCHANGED <<files, man>> /\ SyncDirectory
  /\ UNCHANGED <<holder, proc, stored, prefs, sched, req, restore, listed, stepped, orphans, left>>

----------------------------------------------------------------------------
(* Restore *)

Offline == \A p \in Procs : At(p, "down")

\* Restore: listed, its file verified, and copied beside the database.
BeginRestore(i) ==
  /\ Spend("restores")
  /\ Offline /\ restore.pc = "idle"
  /\ <<i, files[i]>> \in man
  /\ restore' = [pc |-> "copied", db |-> [files[i] EXCEPT !.gen = file.gen + 1]]
  /\ UNCHANGED <<holder, proc, stored, backups, job, timer, listed, stepped, orphans>>

\* The log of the old database is removed first.
WalRemoved == NoDb

RemoveWal ==
  /\ restore.pc = "copied"
  /\ wal' = WalRemoved
  /\ restore' = [restore EXCEPT !.pc = "cleared"]
  /\ UNCHANGED <<holder, proc, file, snaps, backups, job, timer, listed, stepped, orphans, left>>

RenameRestored ==
  /\ restore.pc = "cleared"
  /\ file' = restore.db
  /\ restore' = [pc |-> "idle", db |-> NoDb]
  /\ UNCHANGED <<holder, proc, wal, snaps, backups, job, timer, listed, stepped, orphans, left>>

RestoreKilled ==
  /\ Spend("kills")
  /\ restore.pc # "idle"
  /\ restore' = [pc |-> "idle", db |-> NoDb]
  /\ UNCHANGED <<holder, proc, stored, backups, job, timer, listed, stepped, orphans>>

----------------------------------------------------------------------------

Init ==
  \E s \in Starts :
    /\ file = s.db /\ left = s.left
    /\ wal = NoDb /\ snaps = {}
    /\ holder = NoProc /\ proc = [p \in Procs |-> [pc |-> "down", build |-> CHOOSE b \in Builds : TRUE]]
    /\ files = [i \in Ids |-> NoDb] /\ man = {}
    /\ synced = [files |-> files, man |-> man]
    /\ job = [p \in Procs |-> NoJob]
    /\ prefs = TRUE /\ sched = [on |-> TRUE, version |-> 0, changed |-> FALSE]
    /\ loop = NoLoop
    /\ req = [r \in Reqs |-> NoReq]
    /\ restore = [pc |-> "idle", db |-> NoDb]
    /\ listed = FALSE /\ stepped = FALSE /\ orphans = {}

ProcStep(p) ==
  \/ \E b \in Builds : Open(p, b)
  \/ AcceptSchema(p) \/ MigrateOne(p) \/ SnapshotBeta(p) \/ SyncSnapshot(p) \/ AdoptBeta(p)
  \/ MigrateSet(p) \/ Serve(p) \/ Write(p) \/ Checkpoint(p)
  \/ Close(p) \/ Kill(p)

SnapshotStep(p) ==
  \/ \E i \in Ids : LinkBackup(p, i)
  \/ ReadManifest(p) \/ WriteManifest(p) \/ SnapshotFails(p) \/ SyncManifest(p)
  \/ PruneManifest(p) \/ RemoveOld(p) \/ FinishSnapshot(p)

Next ==
  \/ \E p \in Procs : ProcStep(p) \/ SnapshotStep(p)
  \/ \E r \in Reqs : SavePreferences(r) \/ ResolvePreferences(r) \/ UpdateScheduler(r)
  \/ ReadConfig \/ Await \/ HearChange \/ TickStale
  \/ \E i \in Ids : BeginRestore(i)
  \/ RemoveWal \/ RenameRestored \/ RestoreKilled
  \/ PowerFails

Spec == Init /\ [][Next]_vars

----------------------------------------------------------------------------
(* Properties *)

\* Whatever was interrupted, every snapshot in the manifest can be restored:
\* its file is there with the digest recorded, unless the directory's sync
\* failed right after its listing.  Once one is listed one stays restorable,
\* unless the clock was set back: a leftover with a later name is then kept
\* in the place of the snapshot just taken.
ListedIsRestorable ==
  /\ \A e \in man : e[1] \notin orphans => files[e[1]] = e[2] /\ e[2] # NoDb
  /\ listed /\ ~stepped => \E e \in man : files[e[1]] = e[2]

\* The contents of an adopted beta database are kept beside it as they were,
\* whatever interrupted the adoption.
BetaIsKept == Content.adopted # None => \E s \in snaps : s.data = Content.adopted

\* A process serves the schema it was built for and an extension history it
\* knows, after any upgrade, downgrade and restore.
ServesWhatItKnows ==
  \A p \in Procs : At(p, "serving") =>
    Stable(Content, Target(p)) /\ Content.hist = proc[p].build.set

=============================================================================
