---------------------------- MODULE FolderWatch ----------------------------
(***************************************************************************)
(* Intake from a watched folder (core/ingest/fswatch): the scanner that    *)
(* walks the folder, the observations it keeps of files it has dealt with, *)
(* the supervisor that owns the scanner, and the settings request that     *)
(* replaces it.                                                            *)
(*                                                                         *)
(* The folder belongs to other people.  They write files in place or       *)
(* rename new ones over them, and lay sidecars beside them, while the      *)
(* scanner lists, reads and files them.  The scanner never locks a file:   *)
(* it compares what it saw before and after.                               *)
(*                                                                         *)
(* A change of settings is stored first and applied after it, without a    *)
(* lock over both: the settings are read again, then the supervisor's      *)
(* mutex is taken, then the old scanner is stopped.                        *)
(***************************************************************************)
EXTENDS Naturals, FiniteSets

CONSTANTS
  Files,       \* names in the folder
  Bytes,       \* contents files can have
  Big,         \* contents over the smaller size limit
  Sidecars,    \* sidecars people write: "plain", "field", "number", "bad"
  Owners,
  Configs,     \* settings: [dir, owner, system]
  Off,         \* the settings without a folder
  Unreadable,  \* folders that exist and cannot be opened
  Savers,      \* concurrent requests that save settings
  NoRequest, NoFile,
  Starts       \* folders, settings and budgets to start from

NoBytes == "none"
NoSide == "none"

\* A name in the folder: contents, inode, times of change, and the sidecar.
Entries ==
  [bytes: Bytes \cup {NoBytes}, ino: Nat, stamp: Nat, young: BOOLEAN,
   side: Sidecars \cup {NoSide}, sidestamp: Nat]

ASSUME FolderAssumption ==
  /\ Big \subseteq Bytes /\ NoBytes \notin Bytes /\ NoSide \notin Sidecars
  /\ Off \notin Configs
  /\ \A c \in Configs : c.owner \in Owners
  /\ NoRequest \notin Savers /\ NoFile \notin Files
  /\ \A s \in Starts : s.disk \in [Files -> Entries] /\ s.settings \in Configs \cup {Off}

VARIABLES
  disk,      \* [Files -> Entries]
  obs,       \* [Configs -> [Files -> [state, fp, due]]]: fs_watch_observations
  filings,   \* documents: [owner, system, bytes, side, state, file, whole, rewritten]
  field,     \* the custom field sidecars name is defined
  may,       \* owners that are enabled and may enter the archive
  settings,  \* stored settings: [cfg, by], by whose request
  serving,   \* the server runs
  limit,     \* its size limit: "small" or "large"
  sup,       \* supervisor: [configured, current, mutex]
  watcher,   \* its goroutine: [live, cancelled, cfg, todo, pc, file, ...]
  saving,    \* [Savers -> [pc, previous, cfg, over]]
  excuses,   \* what happened that leaves scanner and settings apart
  filed,     \* contents ever filed under a configuration: <<config, bytes>>
  beside,    \* what ever lay side by side: <<file, bytes, sidecar>>
  budget     \* how often each thing may still happen

onDisk == <<disk, beside>>
archive == <<filings, field, may, filed>>
folderVars == <<onDisk, obs, archive, settings, serving, limit, sup, watcher, saving, excuses, budget>>

FolderSpend(what) == budget[what] > 0 /\ budget' = [budget EXCEPT ![what] = @ - 1]

NoFp == <<0, 0>>
NoObs == [state |-> "none", fp |-> NoFp, due |-> FALSE]
Idle == [live |-> FALSE, cancelled |-> FALSE, cfg |-> Off, todo |-> {}, pc |-> "next",
         file |-> NoFile, ino |-> 0, fp |-> NoFp, side |-> NoSide, opened |-> 0,
         rewritten |-> FALSE, first |-> NoBytes, second |-> NoBytes, outcome |-> "none"]

----------------------------------------------------------------------------
(* The folder, written by others *)

Present(f) == disk[f].bytes # NoBytes
Seen(d) == {<<f, d[f].bytes, d[f].side>> : f \in {x \in Files : d[x].bytes # NoBytes}}

Touch(f, new) ==
  /\ disk' = [disk EXCEPT ![f] = new]
  /\ beside' = beside \cup Seen(disk')
  /\ UNCHANGED <<obs, archive, settings, serving, limit, sup, watcher, saving, excuses>>

\* A program writes a file, in place or under a new inode by rename.
WriteFile(f, b, inPlace) ==
  /\ FolderSpend(IF Present(f) THEN "edits" ELSE "news")
  /\ (inPlace => Present(f))
  /\ Touch(f, [disk[f] EXCEPT !.bytes = b, !.stamp = @ + 1, !.young = TRUE,
                              !.ino = IF inPlace THEN @ ELSE @ + 1])

WriteSidecar(f, s) ==
  /\ FolderSpend("sides")
  /\ Present(f) /\ s # disk[f].side
  /\ Touch(f, [disk[f] EXCEPT !.side = s, !.sidestamp = @ + 1])

RemoveFile(f) ==
  /\ FolderSpend("edits")
  /\ Present(f)
  /\ Touch(f, [disk[f] EXCEPT !.bytes = NoBytes])

\* Settle passes since the last write.
Settle(f) ==
  /\ disk[f].young
  /\ disk' = [disk EXCEPT ![f].young = FALSE]
  /\ UNCHANGED <<beside, obs, archive, settings, serving, limit, sup, watcher, saving, excuses, budget>>

----------------------------------------------------------------------------
(* The scanner *)

Working(pc) == watcher.live /\ ~watcher.cancelled /\ watcher.pc = pc

Fingerprint(f) ==
  <<disk[f].stamp, IF disk[f].side = NoSide THEN 0 ELSE disk[f].sidestamp>>

TooBig(b) == limit = "small" /\ b \in Big

\* Mutant: a blocked file stays blocked.
BlockedForGood(c, f) ==
  /\ obs[c][f].fp = Fingerprint(f)
  /\ CASE obs[c][f].state = "failed" -> ~obs[c][f].due
       [] obs[c][f].state = "blocked" -> TRUE
       [] obs[c][f].state = "ignored" -> TooBig(disk[f].bytes)
       [] obs[c][f].state = "ingested" -> TRUE
       [] OTHER -> FALSE

\* observationCurrent: the file is as it was when it was last dealt with, and
\* no retry is due.
observationCurrent(c, f) ==
  /\ obs[c][f].fp = Fingerprint(f)
  /\ CASE obs[c][f].state \in {"failed", "blocked"} -> ~obs[c][f].due
       [] obs[c][f].state = "ignored" -> TooBig(disk[f].bytes)
       [] obs[c][f].state = "ingested" -> TRUE
       [] OTHER -> FALSE

\* failedRetryDelay or blockedRetryDelay passes.
RetryDue(c, f) ==
  /\ obs[c][f].state \in {"failed", "blocked"} /\ ~obs[c][f].due
  /\ obs' = [obs EXCEPT ![c][f].due = TRUE]
  /\ UNCHANGED <<onDisk, archive, settings, serving, limit, sup, watcher, saving, excuses, budget>>

recordObservation(state) ==
  obs' = [obs EXCEPT ![watcher.cfg][watcher.file] =
            [state |-> state, fp |-> watcher.fp, due |-> FALSE]]

\* Run: a pass over the folder at the start and at every tick.
ScanOnce ==
  /\ Working("next") /\ watcher.todo = {}
  /\ \E f \in Files : Present(f)
  /\ watcher' = [watcher EXCEPT !.todo = {f \in Files : Present(f)}]
  /\ UNCHANGED <<onDisk, obs, archive, settings, serving, limit, sup, saving, excuses, budget>>

Done(w) == [w EXCEPT !.pc = "next", !.todo = @ \ {w.file}, !.file = NoFile, !.ino = 0,
                     !.fp = NoFp, !.side = NoSide, !.opened = 0, !.rewritten = FALSE,
                     !.first = NoBytes, !.second = NoBytes, !.outcome = "none"]

\* processEntry, up to the observation: too young, gone, or dealt with.
Skip(f) ==
  /\ Working("next") /\ f \in watcher.todo
  /\ ~Present(f) \/ disk[f].young \/ observationCurrent(watcher.cfg, f)
  /\ watcher' = [watcher EXCEPT !.todo = @ \ {f}]
  /\ UNCHANGED <<onDisk, obs, archive, settings, serving, limit, sup, saving, excuses, budget>>

\* The same, when there is something to do: the entry and findSidecar.
Examine(f) ==
  /\ Working("next") /\ f \in watcher.todo
  /\ Present(f) /\ ~disk[f].young /\ ~observationCurrent(watcher.cfg, f)
  /\ watcher' = [watcher EXCEPT
       !.file = f, !.ino = disk[f].ino, !.fp = Fingerprint(f), !.side = disk[f].side,
       !.pc = IF TooBig(disk[f].bytes) THEN "ignore" ELSE "sidecar"]
  /\ UNCHANGED <<onDisk, obs, archive, settings, serving, limit, sup, saving, excuses, budget>>

Ignore ==
  /\ Working("ignore")
  /\ recordObservation("ignored")
  /\ watcher' = Done(watcher)
  /\ UNCHANGED <<onDisk, archive, settings, serving, limit, sup, saving, excuses, budget>>

\* sidecar.Parse: a versioned or a flat document, with values it knows.
Parses(s) == s # "bad"

\* The sidecar is read and compared with what was listed; a changed one is
\* left for the next pass.
ReadSidecar ==
  LET f == watcher.file IN
  /\ Working("sidecar")
  /\ watcher' =
       IF watcher.side # NoSide /\ Fingerprint(f)[2] # watcher.fp[2] THEN Done(watcher)
       ELSE IF ~Parses(watcher.side) THEN [watcher EXCEPT !.pc = "fail", !.outcome = "blocked"]
       ELSE [watcher EXCEPT !.pc = "open"]
  /\ UNCHANGED <<onDisk, obs, archive, settings, serving, limit, sup, saving, excuses, budget>>

SameInode(f) == disk[f].ino = watcher.ino

\* Mutant: any file of that name will do.
AnyFile(f) == Present(f)

\* os.SameFile of the entry and the opened file: the inode, not the time.
SameFile(f) == SameInode(f)

\* The file is opened, and half of it read.
OpenFile ==
  LET f == watcher.file IN
  /\ Working("open")
  /\ watcher' =
       IF ~Present(f) THEN [watcher EXCEPT !.pc = "fail", !.outcome = "failed"]
       ELSE IF ~SameFile(f) THEN Done(watcher)
       ELSE [watcher EXCEPT !.pc = "read", !.opened = disk[f].stamp, !.ino = disk[f].ino,
                            !.rewritten = SameInode(f) /\ disk[f].stamp # watcher.fp[1],
                            !.first = disk[f].bytes]
  /\ UNCHANGED <<onDisk, obs, archive, settings, serving, limit, sup, saving, excuses, budget>>

\* ingestOpen up to its transaction: the other half, and the comparison of
\* the open file and of the name with what was opened.  A file renamed over
\* stays readable, and unchanged, under its old inode.
Unchanged(f) == Present(f) /\ SameInode(f) /\ disk[f].stamp = watcher.opened

ReadFile ==
  LET f == watcher.file IN
  /\ Working("read")
  /\ watcher' = IF ~Unchanged(f) THEN Done(watcher)
                ELSE [watcher EXCEPT !.pc = "file",
                        !.second = IF SameInode(f) THEN disk[f].bytes ELSE watcher.first]
  /\ UNCHANGED <<onDisk, obs, archive, settings, serving, limit, sup, saving, excuses, budget>>

\* Reading, hashing or the database fails for a moment.
Hiccup ==
  /\ Working("read") \/ Working("file")
  /\ FolderSpend("hiccups")
  /\ watcher' = [watcher EXCEPT !.pc = "fail", !.outcome = "failed"]
  /\ UNCHANGED <<onDisk, obs, archive, settings, serving, limit, sup, saving, excuses>>

----------------------------------------------------------------------------
(* The filing transaction *)

OfWatcher(d) == d.owner = watcher.cfg.owner /\ d.system = watcher.cfg.system
Known(state) == {d \in filings : OfWatcher(d) /\ d.bytes = watcher.first /\ d.state = state}

\* applySidecar: what it is refused for.
SidecarRefused ==
  CASE watcher.side = "field" /\ ~field -> "blocked"
    [] watcher.side = "number" /\ (\E d \in filings : d.side = "number" /\ d.system = watcher.cfg.system)
         -> "failed"
    [] OTHER -> "none"

Filed(ds) ==
  /\ filings' = ds
  /\ filed' = filed \cup {<<watcher.cfg, watcher.first>>}
  /\ recordObservation("ingested")
  /\ watcher' = Done(watcher)

FileRefused(outcome) ==
  /\ watcher' = [watcher EXCEPT !.pc = "fail", !.outcome = outcome]
  /\ UNCHANGED <<filings, filed, obs>>

\* The transaction of ingestOpen: a retired split origin, a live document and
\* one in Trash are recorded as they are or restored; otherwise the document
\* and everything its sidecar says.
File ==
  /\ Working("file")
  /\ CASE watcher.cfg.owner \notin may -> FileRefused("failed")
       [] watcher.cfg.owner \in may /\ Known("split") \cup Known("live") # {} -> Filed(filings)
       [] watcher.cfg.owner \in may /\ Known("split") \cup Known("live") = {}
          /\ Known("trash") # {} ->
            LET d == CHOOSE x \in Known("trash") : TRUE
            IN  Filed((filings \ {d}) \cup {[d EXCEPT !.state = "live"]})
       [] watcher.cfg.owner \in may
          /\ Known("split") \cup Known("live") \cup Known("trash") = {} ->
            IF SidecarRefused # "none" THEN FileRefused(SidecarRefused)
            ELSE Filed(filings \cup
                   {[owner |-> watcher.cfg.owner, system |-> watcher.cfg.system,
                     bytes |-> watcher.first, side |-> watcher.side, state |-> "live",
                     file |-> watcher.file, whole |-> watcher.first = watcher.second,
                     rewritten |-> watcher.rewritten]})
  /\ UNCHANGED <<onDisk, field, may, settings, serving, limit, sup, saving, excuses, budget>>

\* fail: a transaction of its own, after the one that failed.
Fail ==
  /\ Working("fail")
  /\ recordObservation(watcher.outcome)
  /\ watcher' = Done(watcher)
  /\ UNCHANGED <<onDisk, archive, settings, serving, limit, sup, saving, excuses, budget>>

\* A cancelled scanner ends at the next thing it asks of the database or at
\* the next entry, and records nothing.
WatcherEnds ==
  /\ watcher.live /\ watcher.cancelled
  /\ watcher' = [Idle EXCEPT !.cancelled = TRUE]
  /\ UNCHANGED <<onDisk, obs, archive, settings, serving, limit, sup, saving, excuses, budget>>

----------------------------------------------------------------------------
(* The archive around it *)

\* Custom field definitions: each change forgets the blocked observations.
ChangeField ==
  /\ FolderSpend("fields")
  /\ field' = ~field
  /\ obs' = [c \in Configs |-> [f \in Files |->
               IF obs[c][f].state = "blocked" THEN NoObs ELSE obs[c][f]]]
  /\ UNCHANGED <<onDisk, filings, may, filed, settings, serving, limit, sup, watcher, saving, excuses>>

\* Owners are disabled or leave the archive, and come back.
ChangeOwner(o) ==
  /\ FolderSpend("owners")
  /\ may' = IF o \in may THEN may \ {o} ELSE may \cup {o}
  /\ UNCHANGED <<onDisk, obs, filings, field, filed, settings, serving, limit, sup, watcher, saving, excuses>>

\* Trash, the retirement of a split origin, and purge; see DocumentIntake.
ChangeDoc(d, state) ==
  /\ FolderSpend("docs")
  /\ d.state # state
  /\ filings' = (filings \ {d}) \cup (IF state = "purged" THEN {} ELSE {[d EXCEPT !.state = state]})
  /\ UNCHANGED <<onDisk, obs, field, may, filed, settings, serving, limit, sup, watcher, saving, excuses>>

----------------------------------------------------------------------------
(* Settings and supervisor *)

NoReq == [pc |-> "idle", previous |-> [cfg |-> Off, by |-> NoRequest], cfg |-> Off, over |-> FALSE]
Busy == {r \in Savers : saving[r].pc # "idle"}
Reloading == {r \in Savers : saving[r].pc \in {"resolved", "stopping"}}

\* SaveIngestSettings up to its transaction: checked, remembered, stored.
\* Two saves of the same values in one second are not told apart by the
\* code; saves here are further apart.
SaveSettings(r, c) ==
  /\ FolderSpend("saves")
  /\ serving /\ saving[r].pc = "idle"
  /\ c # Off => c.owner \in may
  /\ settings' = [cfg |-> c, by |-> r]
  /\ saving' = [saving EXCEPT ![r] = [pc |-> "written", previous |-> settings,
                               cfg |-> Off, over |-> Busy # {}]]
  /\ UNCHANGED <<onDisk, obs, archive, serving, limit, sup, watcher, excuses>>

\* resolveFSWatcher: the settings as they are now; the owner is looked up again.
ResolvePossible(c) == c # Off => c.owner \in may

Resolve(r) ==
  /\ serving /\ saving[r].pc = "written"
  /\ saving' = [saving EXCEPT ![r].cfg = settings.cfg,
                        ![r].pc = IF ResolvePossible(settings.cfg) THEN "resolved" ELSE "failed"]
  /\ excuses' = excuses \cup (IF Reloading # {} THEN {"overlap"} ELSE {})
  /\ UNCHANGED <<onDisk, obs, archive, settings, serving, limit, sup, watcher, budget>>

\* Reload of what runs already returns at once; of what was cancelled and has
\* not ended, too.
AlreadyRunning(c) == sup.configured /\ sup.current = c /\ (c # Off => watcher.live)

\* New: the folder can be opened, the owner may enter.
NewPossible(c) == c # Off => c.dir \notin Unreadable /\ c.owner \in may

\* Reload: the mutex, New, and the old scanner told to stop.
BeginReload(r) ==
  LET c == saving[r].cfg IN
  /\ serving /\ saving[r].pc = "resolved" /\ sup.mutex = NoRequest
  /\ IF AlreadyRunning(c) THEN
       saving' = [saving EXCEPT ![r] = NoReq] /\ UNCHANGED <<sup, watcher>>
     ELSE IF ~NewPossible(c) THEN
       saving' = [saving EXCEPT ![r].pc = "failed"] /\ UNCHANGED <<sup, watcher>>
     ELSE /\ saving' = [saving EXCEPT ![r].pc = "stopping"]
          /\ sup' = [sup EXCEPT !.mutex = r]
          /\ watcher' = [watcher EXCEPT !.cancelled = TRUE]
  /\ UNCHANGED <<onDisk, obs, archive, settings, serving, limit, excuses, budget>>

Started(c) == IF c = Off THEN Idle ELSE [Idle EXCEPT !.live = TRUE, !.cfg = c]

\* stopLocked has seen the old scanner end.
FinishReload(r) ==
  LET c == saving[r].cfg IN
  /\ serving /\ saving[r].pc = "stopping" /\ ~watcher.live
  /\ sup' = [configured |-> TRUE, current |-> c, mutex |-> NoRequest]
  /\ watcher' = Started(c)
  /\ saving' = [saving EXCEPT ![r] = NoReq]
  /\ UNCHANGED <<onDisk, obs, archive, settings, serving, limit, excuses, budget>>

\* stopLocked meets the end of the request first: the scanner stays
\* cancelled, and restoring the settings fails for the same reason.
ReloadInterrupted(r) ==
  /\ FolderSpend("interrupts")
  /\ serving /\ saving[r].pc = "stopping" /\ watcher.live
  /\ sup' = [sup EXCEPT !.mutex = NoRequest]
  /\ saving' = [saving EXCEPT ![r] = NoReq]
  /\ excuses' = excuses \cup {"interrupted"}
  /\ UNCHANGED <<onDisk, obs, archive, settings, serving, limit, watcher>>

\* Mutant: puts the previous settings back whatever is stored.
RestoredAlways(r) == saving[r].previous

\* RestoreManyIfCurrent: only over what this request wrote.
Restored(r) == IF settings.by = r THEN saving[r].previous ELSE settings

RestoreSettings(r) ==
  /\ serving /\ saving[r].pc = "failed"
  /\ settings' = Restored(r)
  /\ saving' = [saving EXCEPT ![r] = NoReq]
  /\ excuses' = excuses \cup (IF saving[r].over /\ settings.by = r THEN {"undone"} ELSE {})
  /\ UNCHANGED <<onDisk, obs, archive, serving, limit, sup, watcher, budget>>

\* The process ends, and with it scanner and requests.
Crash ==
  /\ FolderSpend("crashes")
  /\ serving
  /\ serving' = FALSE
  /\ watcher' = Idle
  /\ sup' = [configured |-> FALSE, current |-> Off, mutex |-> NoRequest]
  /\ saving' = [r \in Savers |-> NoReq]
  /\ UNCHANGED <<onDisk, obs, archive, settings, limit, excuses>>

\* Start-up: without its owner the folder is not watched; with a folder that
\* cannot be opened, or an owner who may not enter, the server does not start.
\* The size limit comes from the environment.
StartServer(l) ==
  /\ ~serving
  /\ ResolvePossible(settings.cfg) => NewPossible(settings.cfg)
  /\ serving' = TRUE
  /\ limit' = l
  /\ IF ResolvePossible(settings.cfg)
     THEN /\ sup' = [configured |-> TRUE, current |-> settings.cfg, mutex |-> NoRequest]
          /\ watcher' = Started(settings.cfg)
          /\ excuses' = {}
     ELSE /\ excuses' = {"no owner"}
          /\ UNCHANGED <<sup, watcher>>
  /\ UNCHANGED <<onDisk, obs, archive, settings, saving, budget>>

----------------------------------------------------------------------------

FolderInit ==
  \E s \in Starts :
    /\ disk = s.disk /\ budget = s.left /\ settings = [cfg |-> s.settings, by |-> NoRequest]
    /\ limit = s.limit /\ field = s.field
    /\ obs = [c \in Configs |-> [f \in Files |-> NoObs]]
    /\ filings = {} /\ filed = {} /\ may = Owners
    /\ beside = Seen(s.disk)
    /\ serving = FALSE /\ sup = [configured |-> FALSE, current |-> Off, mutex |-> NoRequest]
    /\ watcher = Idle
    /\ saving = [r \in Savers |-> NoReq]
    /\ excuses = {}

FolderStep ==
  \/ \E f \in Files, b \in Bytes, inPlace \in BOOLEAN : WriteFile(f, b, inPlace)
  \/ \E f \in Files, s \in Sidecars \cup {NoSide} : WriteSidecar(f, s)
  \/ \E f \in Files : RemoveFile(f) \/ Settle(f)

ScanStep ==
  \/ ScanOnce
  \/ \E f \in Files : Skip(f) \/ Examine(f)
  \/ Ignore \/ ReadSidecar \/ OpenFile \/ ReadFile \/ File \/ Fail
  \/ WatcherEnds

ReloadStep(r) ==
  Resolve(r) \/ BeginReload(r) \/ FinishReload(r) \/ RestoreSettings(r)

Others ==
  \/ ChangeField
  \/ \E o \in Owners : ChangeOwner(o)
  \/ \E d \in filings, state \in {"live", "trash", "split", "purged"} : ChangeDoc(d, state)
  \/ \E r \in Savers, c \in Configs \cup {Off} : SaveSettings(r, c)
  \/ \E r \in Savers : ReloadInterrupted(r)
  \/ Crash
  \/ Hiccup

FolderNext ==
  \/ FolderStep
  \/ ScanStep
  \/ \E c \in Configs, f \in Files : RetryDue(c, f)
  \/ \E r \in Savers : ReloadStep(r)
  \/ \E l \in {"small", "large"} : StartServer(l)
  \/ Others

\* Files settle and retries come due by the clock, the ticker's passes go on,
\* and a request runs on once it is begun.
Fairness ==
  /\ \A f \in Files : WF_folderVars(Settle(f))
  /\ \A f \in Files : WF_folderVars(Skip(f)) /\ WF_folderVars(Examine(f))
  /\ WF_folderVars(ScanOnce \/ Ignore \/ ReadSidecar \/ OpenFile \/ ReadFile \/ File \/ Fail \/ WatcherEnds)
  /\ \A c \in Configs, f \in Files : WF_folderVars(RetryDue(c, f))
  /\ \A r \in Savers : WF_folderVars(ReloadStep(r))

FolderSpec == FolderInit /\ [][FolderNext]_folderVars /\ Fairness

----------------------------------------------------------------------------
(* Properties *)

\* The running scanner owes the archive this file: readable, within the
\* limit, its sidecar acceptable, and its bytes never filed.
Acceptable(c, f) ==
  /\ disk[f].side # "bad"
  /\ disk[f].side = "field" => field
  /\ disk[f].side = "number" => \A d \in filings : d.side # "number"

Owed(c, f) ==
  /\ watcher.live /\ ~watcher.cancelled /\ watcher.cfg = c
  /\ Present(f) /\ ~TooBig(disk[f].bytes) /\ Acceptable(c, f) /\ c.owner \in may
  /\ <<c, disk[f].bytes>> \notin filed

\* A file that stays in the folder is filed, whatever failed or was blocked
\* before: no observation keeps a file away that would now be accepted.
EventuallyFiled == \A c \in Configs, f \in Files : Owed(c, f) ~> ~Owed(c, f)

\* A document holds what its file held at one moment, and the sidecar that lay
\* beside it.  The exception is a file rewritten in place between the listing
\* and the opening: its new bytes go with the sidecar listed for the old ones.
FiledAsTheyLay ==
  \A d \in filings : d.whole /\ (d.rewritten \/ <<d.file, d.bytes, d.side>> \in beside)

\* When no request is under way the scanner follows the stored settings, also
\* after a change that could not be applied; unless two reloads overlapped, a
\* failed change went back to settings that another request had stored and
\* not yet applied, a request ended before its reload, or the owner was
\* missing at the start.
NoneSaving == serving /\ Busy = {}

RunsAsSet ==
  NoneSaving /\ excuses = {} =>
    IF settings.cfg = Off THEN ~watcher.live
    ELSE watcher.live /\ ~watcher.cancelled /\ watcher.cfg = settings.cfg

=============================================================================
