# A TLA+ verification project for suchi

suchi is a self-hosted document archive: one Go process, one SQLite database, a
content-addressed file store, and a directory tree of links that shows the
archive to other programs. This directory holds TLA+ modules that model it, TLC
configurations that check them on small instances, and TLAPS proofs of most of
the properties. Paths below are relative to `src/`.

`PROJECT.json` is the index: components, runs, the source lines behind every
definition (`map`), mutants, hazards and theorems.

## 1. The system

### Parts, state and operations

| part | state | operations | code |
|---|---|---|---|
| Job dispatcher | table `jobs`; the batch it holds; a nudge token | enqueue, claim, run, finalize, retry, prune, reclaim, requeue, dismiss | `core/jobs`, `core/api/tasks.go` |
| Document intake | `documents`, `upload_idempotency`; requests in progress | upload, new version, trash, restore, purge | `core/api/documents.go`, `versions.go`, `upload_*.go`, `core/trash` |
| Content store | files named by SHA-256 | put, open, collect garbage | `core/blob`, `core/gc` |
| Watched folder | `fs_watch_observations`, settings, the running scanner | scan, file, retry, reload | `core/ingest/fswatch`, `sidecar` |
| Mailbox intake | `email_accounts` with UID cursor; running watchers | poll, import, tidy, reload, rotate tokens | `core/ingest/emailwatch`, `core/emailaccounts` |
| Post-ingest job | one job at a time; text, archive form, passwords | open, number, split, fan out a mail, read, store | `core/pipeline`, `core/api/decrypt.go` |
| Rescan | proposals per pipeline revision | detect, propose, answer, enqueue | `core/rescan` |
| Enrichment | rules, settings, proposals, dates, field revisions | classify, match, apply rules, decide, edit | `plugins/llm-classifier`, `core/automations`, `core/refile` |
| Approvals | `approval_runs`, `approval_tasks`, two kinds of jobs | start, propose, resolve, cancel, advance, time out | `core/approvals` |
| Taxonomy | names, tag tree, layouts, fields, filing tree | create, rename, merge, delete, change the tree | `core/taxonomy`, `core/jd`, `core/api` |
| Rendered view | `render_moves`, the link tree | move, reconcile, remove on purge | `core/render/view` |
| Sign-in | sessions, tokens, factors, pairing codes, setup token | log in, confirm, enrol, reset, pair, bind | `plugins/local-auth`, `plugins/oidc` |
| Access | grants, groups, members, links, views, flows | decide, grant, publish, revoke | `core/authz`, `core/api` |
| Archive files | lock, schema version, snapshots, manifest | open, migrate, adopt, back up, restore | `core/db`, `core/backup`, `core/archivelock` |

### How they interact

Everything asynchronous is a row of `jobs`. A handler that changes a document
enqueues the follow-up job in the same transaction and nudges the dispatcher,
which runs jobs one after another: post-ingest, render moves, approval advances
and sweeps, classification. API handlers, the folder watcher and the mailbox
watchers run concurrently with it and with each other. They meet in the
database, whose write pool has a single connection (`core/db/db.go`), so **one
write transaction is one step** in every module; everything a handler does
before or after its transaction (reading a body, storing a file, calling a tool,
asking a model, unlinking) is a step of its own that others may interleave with.

Files and database commit separately. A file is stored before the row that names
it, and a link is journaled before it is published; the order is what makes a
crash harmless. Garbage collection takes the archive lock, so it runs only when
no server does.

### What is hard

* State is read outside the transaction that relies on it: a claimed job, a
  version's predecessor, a projection's target, the run an advance handles, the
  code of a sign-in, the right behind a share link, the text a model was asked
  about, the tree under a tag.
* A purge deletes rows that a running job, an open upload, a projection or an
  approval run still refers to, and SQLite gives deleted row numbers out again.
* A crash can fall between any two steps: claim and result, file and row, journal
  and link, two attachments of a mail, a snapshot and its manifest.
* Clients retry with the same key; jobs are delivered again; deadlines race
  answers; documents come back from Trash; a mailbox is renumbered.
* A list is read first and acted on under a lock taken later (both supervisors).

The `hazards` of `PROJECT.json` list the places and the properties that would
catch them going wrong.

## 2. Modules

| module | models | state and actions |
|---|---|---|
| `JobOutbox` | what the outbox promises | each job's status and whether it was handled |
| `JobDispatcher` | `core/jobs/jobs.go` whole, the administrator's retry and dismissal, the purge of a document's jobs | `jobs` the table; `pc`, `held`, `cur`, `verdict`, `writes` the goroutine; `nudge`, `stopping` its channels |
| `DocumentIntake` | upload, version, receipts, Trash, purge, splitting, content store and gc | `docs`, `receipts`, `blobs`; `req` open requests; `queue`, `work` post-ingest; `up`, `now` |
| `RenderedView` | projection, journal, publication, removal, boot reconcile, purge clean-up | `journal` = `render_moves`; `tree` the directory; `rd` the projection in progress; `cleaning` what a purge must still unlink |
| `Approvals` | runner, sweep, document-change reviews, the API around them | `runs`, `tasks`, `jobs`; `work` the advance in progress; `sessions` valid credentials |
| `MailboxWatch` | poll cycle, cursor, supervisor, account requests | `row`, `watcher` (its copy of the row, step and batch), `calls`, `mutex`; `box`, `top`, `val` the server |
| `FolderWatch` | scanner, observations, supervisor, settings request | `disk` the folder; `obs`; `watcher`, `sup`, `req`, `settings` |
| `SignIn` | local and OIDC sign-in, second factor, pairing, tokens, accounts, membership | `acct`, `factor`, `codes`, `sessions`, `tokens`, `pairings`, `enrols`; `reqs` requests between check and transaction |
| `Access` | authorization in its three forms, groups, grants, share links, views, notes, mailbox authorization flows | `acct`, `member`, `grants`, `links`, `views`, `flows`, `mu`; `reqs` |
| `Enrichment` | classifier job, automations, archive matching, dates, refile, reviews, the edits of people | one document's values and revisions `doc`; `job`, `runs`, `reviews`, `conf`, `rt` |
| `PostIngest` | every route of the post-ingest job, mail fan-out, unlocking, serial numbers, rescan proposals | `docs`, `jobs`, `work`, `vault`, `calls`, `proposals`, `rel` |
| `Taxonomy` | correspondents, tags, layouts, fields, filing tree and the documents and rules that refer to them | `row`, `parent`, `uses`, `doc`, `rules`, `field`, `tree`, `flight` requests that have read and not written |
| `ArchiveLifecycle` | data-directory lock, migrations, adoption of a beta, snapshots, manifest, retention, restore | `file`, `wal`, `files`, `man`, `synced`; `proc`, `job`, `loop`, `req`, `restore` |
| `MC…` | instances | model values, symmetry, bounds |
| `JobDispatcherProofs`, `DocumentIntakeProofs`, `ApprovalsProofs`, `SignInProofs`, `AccessProofs`, `RenderedViewProofs`, `ArchiveLifecycleProofs`, `PostIngestProofs` | the theorems of §5, each about the module it is named after; also about `Enrichment` (in the first), `FolderWatch` (second), `MailboxWatch` (`SignInProofs`) and `Taxonomy` (`RenderedViewProofs`) | the inductive invariants, named in §5, and the lemmas |

Where two modules speak of one thing, one has it in full and the other only as
far as its handler sees it: `PostIngest` and `Enrichment` settle, retry and give
up jobs as `JobDispatcher` allows; a render job is an element of `queued` or
`moves` in the modules that owe one, and its execution is `RenderedView`;
`Approvals` has a review's run and tasks, `Enrichment` what its decision writes.

**JobDispatcher.** One action per step of `Run`, `claim`, `runJob` and `finalize`.
Handlers are opaque: each subscriber returns nil, an error or a terminal error.
Times are relative (`due`, `age`) so the clock needs no bound. Ids are SQLite's: the
largest plus one, so a deleted largest id is used again. The history value `serial`
tells two such jobs apart; no action reads it. `doomed` are the documents that may
be purged in a behaviour; `Starts` has archives with and without.

**DocumentIntake.** A request is two steps. `Receive` reads the body, stores the
file and, for a version, checks the predecessor first. `UploadDocument` or
`UploadNewVersion` is the transaction: receipt, then the match of bytes in the code's
order. Purging a row cascades to receipts and jobs, sets `previous_version_id` to
null and leaves `split_origin` dangling. `JobPrepareSplit` stores parts,
`JobCommitSplit` is one transaction. `CollectGarbage` needs the server down. Days are
the unit of `now`, and `Retention` is one of them.

**RenderedView.** A projection resolves its target, then `RecordPending`, `Publish`,
`RemoveOld` for each old path, `Apply`. A path has a claim key, which always folds
case, and a directory entry, which folds case on some filesystems. A link is
recognised by the blob it points to, as the code does (`proveDocumentLink`); the model
also records whose link it is, for the properties only.

**Approvals.** An advance reads the run outside its transaction (`AdvanceRead`), then
one of `AdvanceTask`, `AdvanceMove`, `AdvanceStale`, `AdvanceError`, `AdvanceFault` is
the transaction or its failure; resolving, cancelling, editing, trashing and purging
interleave. `Finish` ends the job or crashes after the commit, so the advance is
delivered again. Fields of a document are a generation number that every edit raises.

**MailboxWatch.** `Connect`, `Rotate`, `Search`, `FetchOne` per message, `Tidy`, `Mark`
are the cycle; `NextUIDCheckpoint` is where the cursor may go. The watcher works with
the copy of the row it was started with and writes the cursor by row id.
`ReloadList`, `ReloadLock`, `Drain`, `ReloadStart` are `Supervisor.Reload`.

**FolderWatch.** People rewrite files in place (`ino` stays), rename new ones over
them (`ino` changes) and lay sidecars. The scanner is `ScanOnce`, `Examine`,
`ReadSidecar`, `OpenFile`, `ReadFile`, `File`. Saving settings is store, read again,
lock, stop, start, and undo on failure. `excuses` records overlapping or interrupted
requests, after which code and settings may part (§4).

**SignIn.** Every request that relies on a password, code or session is two steps:
`Begin…` authenticates against the rows of that moment, the named action is the
transaction with its rechecks. Secrets are fresh numbers; a TOTP code is a seed and a
time step.

**Access.** `Can`, `CanDocuments` and `Visible` are the three forms of the decision,
each translated from its own code; everything else uses the one its handler uses.
`era` counts how often a right has ended, so that "revoked and granted again" can be
told from "never revoked".

**Enrichment.** One document, up to two rules, one worker. A request to the model is a
step of its own (`Classify`) between `LoadClassify` and `CommitAnswer`; revisions per
field are counted as the database triggers do. `faults` names every write that went
over a later statement of a person or came from inputs that had changed.

**PostIngest.** The job's routes are chosen by what the bytes are (`File`). A failed
run starts over; a crash leaves the row to be retried. Attachments are filed one
transaction at a time. `Boot` runs `EnsureProposals` over releases that rise and fall.

**Taxonomy.** A path is kept as what it was made from, so that a change that owes a
render job shows as a difference between `shown` and `PathOf`. Four requests read
first and write later; they are in `flight` in between.

**ArchiveLifecycle.** Two processes of three builds. A kill may come between any two
steps; a power failure also undoes what was not synced.

## 3. What is checked

Each property has a mutant in `PROJECT.json`: a plausible bug in the code that makes
TLC find it violated in that run.

| run | instance | shows |
|---|---|---|
| `jobs_core` | 2 jobs, 2 kinds (two subscribers, none), failing writes and claims; a crash or shutdown with a requeue, or a purge | claims are exclusive, done means handled, the table implements `JobOutbox`, every job keeps getting settled |
| `intake` | 2 users, 3 files and a derived form, 2 requests, 4 rows, 3 days, five budgets | versions form a chain, no row is without its bytes, each part is filed once, an answer names the bytes sent |
| `view` | 2 documents, 2 blobs, 3 paths in five archives: two paths, two spellings on either kind of filesystem, own paths; 2 edits and a crash, failed removal or I/O error | a quiet archive is rendered, a step touches only its document's link, a finished purge leaves no link |
| `approvals` | 2 runs (a definition with a reminder loop, a review), 2 documents, 1 credential, 2 attempts, 1 mishap | open tasks belong to the run's revision, no run is forgotten, a decision is never overridden, a change is written only when authorized and not over a newer edit |
| `mailbox_poll` | 2 mailboxes, 4 messages of which 2 arrive, 1 edit of the account, 1 mishap and 1 lost reload | the cursor passes only what was dealt with, the watcher matches the row, accepted mail is filed |
| `folder_watch` | 2 files, 2 contents, 3 settings, 2 requests, eight starts | a document is what lay there with the sidecar beside it, the scanner follows the settings, what may be filed is |
| `signin` | 2 accounts, 2 requests in flight, 5 requests from first boot, 2 periods | one-time secrets are honoured once, an enabled factor guards every way in, a membership takes its keys along |
| `access` | an administrator and a user, 2 documents, a group, 2 requests in flight, 2 + 2 requests | the three decisions agree, revocation is terminal, a link shows no more than its creator sees, a mailbox flow ends with the seat |
| `enrichment` | 1 document, 2 rules, 2 answers, five starts with up to 2 edits, decisions or changes | people win, an answer is stored only under what produced it, the path follows |
| `postingest` | mails, scans, encrypted files and every format, one worker, restarts over three releases | no document is forgotten, a mail is retired only when its files are filed, an administrator is asked once |
| `taxonomy` | 2 documents, 3 rows per kind, 1 rule, several starts | every change queues the renders it owes, rules follow merges, tags form a forest |
| `lifecycle` | 2 processes, 3 builds, 3 snapshots, eight starts with kills, failures and a power failure | what is listed can be restored, a beta is kept, a process serves only schemas it knows |

**Why the bounds are enough for the interesting cases.** Two jobs and a batch of two
are what it takes for one job's finalization to meet another's, and id reuse needs
two enqueues. Two documents that want one path in either spelling produce every kind
of contention; two edits give a superseded pending move. Three rows are a version
chain with a competing sibling; three days pass both retention cutoffs with a purge
after. Two revisions of a run allow a second visit to the state a late advance was
queued for. Two messages in one batch are a failure before a success; two mailboxes a
moved account. Two requests in flight are every pair of a check and a change. Three
snapshots with two kept are a retention pass after a failed one. A start with its own
budget is used instead of one large budget where two kinds of events have nothing to
say to each other. Each bound is a CONSTANT, and a guard of the environment, never of
the code. `CHECK_DEADLOCK FALSE` stands where a server with nothing to do and a
spent bound may rest.

**Symmetry** is used only in runs without liveness, over documents, blobs, slots,
users or clients that the instance treats alike.

**Fairness.** `JobDispatcher`: weak fairness of the dispatcher's step (its goroutine
is scheduled, and handlers return, which the package requires) and of time; strong
fairness of `Claim`, as the database does not refuse a claim for ever. Result writes
get no such help: the code gives up after `finalizationAttempts` and leaves the row to
the next boot, and `EventuallySettled` says exactly that. `MailboxWatch`: the ticker
keeps polling (its steps are weakly fair), a cancelled watcher drains, a request that
has committed runs its reload, and a stopped process is started again; the server's
and other clients' actions are not fair, and mishaps are bounded. `FolderWatch`: files
settle and retries come due by the clock, each file the pass has reached is looked at,
and a request runs on once begun. The other modules state no liveness.

**Refinement.** `ImplementsOutbox` is `JobOutbox!Spec` under the map from rows to job
statuses by serial, for archives in which nothing is purged. With purges it fails,
for the first reason in §4.

## 4. Where the code departs from what it says

The properties are stated so that they hold of the code; these are the cases they
leave out, each found as a counterexample of the property without its condition and
compared with the code.

* A purge during a handler frees the job's id, the next enqueue takes it, and the old
  job's result settles the new job unhandled (`core/jobs/jobs.go:344`: results are
  written by id; `core/db/migrations/0001_baseline.sql:421` has no AUTOINCREMENT;
  `core/trash/trash.go:316` deletes jobs in any state). Hence `doomed = {}` in
  `DoneOnlyIfHandled`.
* A claim journaled between a purge's commit and its unlinking keeps the purged
  document's link, against `docs/privacy.mdx:155` (`core/trash/trash.go:387`). It takes
  templates that give two documents one path; hence the condition of `PurgedLinksGone`.
* A version with the bytes of a trashed document makes that document unrestorable
  within its 30 days (`docs/privacy.mdx:154`, `core/api/versions.go:290`,
  `core/api/documents.go:471`); the watched folder restores a document after them
  (`core/ingest/fswatch/fswatch.go:322` against `core/trash/trash.go:28`).
* A document unlocked with a password that is not remembered, or not yet, is locked
  again by the very job the unlock queues (`core/api/decrypt.go:375`).
* Two overlapping moves of tags can close a cycle although "Cycles are rejected"
  (`core/api/tags.go:477`, `:511`); `TagsFormAForest` excuses exactly that (`crossed`).
  The check also looks no further than 128 ancestors (`TaxonomyAssumption`, §5).
  A custom field value is checked before its transaction and may no longer fit
  (`core/api/custom_field_values.go:61`). Numbers of deleted tags and correspondents
  come back, so an automation that named one may mean another. A layout that reads the
  serial number is not held against documents without one (`core/api/documents.go:791`).
  Saved views do not follow a merge, and their cap is counted outside the transaction
  (`core/api/saved_views.go:174`).
* Two concurrent reloads of the mailbox supervisor may leave the older list in force
  (`core/ingest/emailwatch/supervisor.go:92`); `mailbox_poll` has one request at a time,
  as the theorem supposes.
  A watcher's late cursor write undoes the reset that a changed horizon made
  (`core/emailaccounts/store.go:524`), so the run gives each source its own mailbox.
  A lost reload is counted (`NoReloadLost`).
* Overlapping or interrupted saves of the watched-folder settings may leave the scanner
  with other settings than those stored, and a failed change restores over another
  request's (`excuses` in `RunsAsSet`). A file rewritten in place between listing and
  opening is filed with the sidecar of its old bytes (`rewritten` in `FiledAsTheyLay`),
  and a sidecar that comes late is never applied.
* Two concurrent saves of the classifier's settings may leave the older in force until
  the next (`distro/app/app.go:741`). Senders and custom fields that a person sets again
  to the value they had are not protected from an answer under way; `PeopleWin` is about
  title, category, tags and language.
* When the directory cannot be synced after the manifest was replaced, the snapshot it
  lists is removed and its entry stays (`core/backup/backup.go:168`; `orphans` in
  `ListedIsRestorable`). A clock set back gives a newer snapshot an older name
  (`stepped`). Overlapping saves of backup preferences may leave the older interval.
  `Restore` takes no lock; its documentation asks for a stopped server. A restored
  database may name files collected since.
* A review accepted just before its document changed ends as a dead job in state `apply`,
  which nothing looks at again (`core/approvals/document_change.go:357`).

## 5. What is proved

For all values of the constants that satisfy the named assumptions, by TLAPS: all 30
invariants and all six action properties that the runs check, the refinement, and the
type invariants of three modules. A theorem about a property names it, so that the
run shows it on a small instance and the theorem for every instance. Each inductive
invariant was first checked by TLC on the run's instance.

| module | theorems | properties |
|---|---|---|
| `JobDispatcherProofs` | `TypeCorrect`, `ClaimsAreExclusive`, `NoRunningRowForgotten`, `DoneMeansHandled`, `OutboxImplemented` | `TypeOK`, `HeldIsRunning`, `RunningIsOwned`, `DoneOnlyIfHandled`, `ImplementsOutbox` |
| … about `Enrichment` | `EnrichPeopleWin`, `EnrichAnswerIsCurrent`, `EnrichPathFollows` | `PeopleWin`, `AnswerIsCurrent`, `PathFollows` |
| `DocumentIntakeProofs` | `IntakeTyped`, `BytesAreKept`, `RevisionsFormAChain`, `PartsAreFiledOnce`, `AnswersHoldBytes` | `TypeOK`, `NoDocumentWithoutBytes`, `FamilyIsAChain`, `PartsFiledOnce`, `AnswerHoldsBytes` |
| … about `FolderWatch` | `FolderFiledAsTheyLay`, `FolderRunsAsSet` | `FiledAsTheyLay`, `RunsAsSet` |
| `ApprovalsProofs` | `ApprovalsTyped`, `TasksAreCurrent`, `RunsAreMoved`, `DecisionsStand`, `ChangesAreAuthorized` | `TypeOK`, `OpenTaskIsCurrent`, `NoRunForgotten`, `DecisionStands`, `ChangeIsAuthorized` |
| `SignInProofs` | `SecretsHonouredOnce`, `FactorIsGuard`, `KeysEnd` | `HonouredOnce`, `FactorGuardsEntry`, `KeysEndWithMembership` |
| … about `MailboxWatch` | `MailNothingPassedOver`, `MailRunningMatchesRow` | `NothingPassedOver`, `RunningMatchesRow` |
| `AccessProofs` | `RevocationIsTerminal`, `FlowsEndWithSeat`, `LinksShowNoMore`, `DecisionsAlwaysAgree` | `RevokeIsTerminal`, `FlowEndsWithSeat`, `LinkShowsNoMore`, `DecisionsAgree` |
| `RenderedViewProofs` | `QuietIsRendered`, `PurgeLeavesNoLink`, `LinksAreTheOwners` | `RenderedWhenQuiet`, `PurgedLinksGone`, `OnlyOwnerTouchesLink` |
| … about `Taxonomy` | `TaxPathFollows`, `TaxRulesFollowMerges`, `TaxTagsFormAForest` | `PathFollows`, `RulesFollowMerges`, `TagsFormAForest` |
| `ArchiveLifecycleProofs` | `ListedAlwaysRestorable`, `BetasAreKept`, `ServesOnlyKnown` | `ListedIsRestorable`, `BetaIsKept`, `ServesWhatItKnows` |
| `PostIngestProofs` | `NoneIsForgotten`, `RetiredWhenFiled`, `RevisionsAskedOnce` | `NoneForgotten`, `RetiredOnlyWhenFiled`, `AskedOnce` |

### The arguments

**JobDispatcher.** `Typed` adds where the worker may be: while it handles, finalizes or
backs off, the current row is in the held batch, which is empty outside claim to end of
batch. `Owned`: serials are never ahead of the enqueue count, so a reused id cannot be
mistaken for the held job, and a batch holds no id twice. `doomed` never changes
(`DoomedStays`); where it is empty, `Handled` says that held rows still exist under
their serial and that a verdict "done" was earned by the current job. From these each
step is a step of `JobOutbox` or a stutter under the map from rows to statuses.

**DocumentIntake.** Receipts and queued jobs name existing rows through every purge.
Files that an open request or a running job holds are in the store, though no row
names them yet, and a server that is down has neither, so the collector cannot take
them. `Lineage` adds what rows and receipts say of one another: a revision points back in
time, a family is named after its first member, which has the family's name too while it
exists (so a new row's number cannot join an old family), and a receipt stays true of its
row until it goes with it.

**Approvals.** `LinkedRun` relates a run to its tasks and jobs: the task of the present
revision is open and every other one closed, no job is ahead of its run, a running run
without an open task has a job of its revision, and after an accepted choice there is no
deadline, no open task and no job with another trigger (`DecisionAlone`). The copy of the
run that an advance read is the run itself as long as the revisions agree (`WorkKnown`),
and a run that has written is done (`WriterIsDone`).

**SignIn.** Seeds and codes are numbers that were never given out twice (`SecretsApart`).
A spent code is dead (`SpentAreDead`): a TOTP step is not after the factor's last step,
a recovery or pairing code is no longer in its table, and an enrolment sealed with a used
seed is bound to a session that is gone. What a request in flight has authenticated
against is rechecked by its transaction, so `RequestsSound` has to promise little of it.

**Access.** A link, a shared view and a sign-in carry the eras of the rights they rest
on. Taking a right away raises its era and drops what rests on it in the same
transaction; only sign-ins are dropped later, by the holder of the flow store's mutex,
so the invariant excuses exactly those the holder is about to drop (`Doomed`). The
agreement of the three decisions needs no invariant but types.

**RenderedView.** Links are told apart by blob hash only, and documents share blobs. Every
link of an existing document lies at a path which that document claims in its journal
(`LinksClaimed`), and no two documents claim one key (`ClaimsApart`); publishing and
removing look for foreign claims in the same transaction. A journal is its applied moves
followed by the pending ones, which start where the document was last seen, so that a
crash never leaves a link behind that no claim covers. A pending move that no projection
has in hand is backed by a job, waiting or failed (`Backed`), and a projection works on
the present target unless a job will come for the new one (`RunCurrent`).

**ArchiveLifecycle.** Whoever is past opening holds the lock, so one process at a time
works on the archive (`Alone`) and what it found out stays true (`Knows`). Every entry of
the manifest is right in the directory as it is and in the one a power failure would
leave (`EntriesGood`); `JobsSound` says for each step of a snapshot what of it is in the
directory, synced and listed, and that pruning drops only what neither manifest lists.

**PostIngest.** The job the worker runs stays in the outbox until the run has settled its
row (`Holding`), whatever becomes of the row meanwhile; each of the run's exits writes a
revision, marks the row encrypted, deletes it, or leaves a job. `KeptInSight` has to
speak of rows in Trash as well, since a restore queues nothing. `Progress` says how far
the fan-out of a mail has come: every attachment before `part` has been found as a
document, was lost or was purged. `OneOpen` is what makes `Pending` the proposal to
close.

**Enrichment.** A document only grows (`Grew`): whoever says something about a field
moves that field's revision, except where the tag is already there or a rule repeats a
title of its own, which an answer leaves alone. So an answer or a
review whose base revision is still the document's knows everything that was said
(`Knows`), and one whose revision is behind is dropped by the comparison in the
transaction. `PointerInv` says that the runtimes a save has yet to install are new, so a
job that still sees the pointer it asked with was answered by that runtime. One step folds
a rule's actions, the rules of a book or an answer's fields over the document; the folds
are recursive functions on positions, and what they keep is shown by induction up to n
(`UpTo`, from the well-foundedness of the naturals).

**FolderWatch.** `LayInv`: a file keeps its bytes as long as it keeps its time of change
(`Follows`), so what the scanner listed and what it opened is what lay there beside its
sidecar, unless the file was rewritten since (`Listed`, `Opened`). `RunInv`: the holder of
the supervisor's mutex alone stops and starts; what the supervisor believes to run does
run unless its holder is stopping it (`CurrentRuns`); whoever stored the settings last
has yet to apply them or has (`LastSaverAnswers`); and without an excuse a request that
may have to go back is the only one and remembers what is running (`SoleSaver`).

**Taxonomy.** `TreeInv`: no tag is its own ancestor and no request in flight would make
it one, unless two moves crossed (`Forest`). Every step keeps the tree, joins a request
that has checked its move, or cuts parents off; only `SetTagParent` adds an edge, and a
chain that uses the new edge would have been found by the check. Ancestors are followed
for at most as many steps as there are tags. `RulesInv`: a rule names
an existing row, nothing, or a row that was deleted by name, since a merge moves rules
and rows in one transaction. `DocInv`: what documents
refer to exists, so a new row affects no path, and a change of a name, layout or filing
set queues every document whose path reads it.

**MailboxWatch.** `PassInv`: a position that a row, a watcher or a supervisor's list
carries is sound (`SoundAt`): its numbering was given by its mailbox, and under the
present one everything the source wants up to its number has been handled. A server step
raises a numbering by one or lets messages go and come at the end (`LaterThan`), which
keeps sound positions sound. `FetchAt` says of a poll under way that everything its
search found is to do, in the batch, done, failed or missing, that what is to do lies
behind the rest, and that no wanted message is left out while the batch is complete;
`MailPassing` then shows that `NextUIDCheckpoint` passes over nothing. `MatchInv`: a
request that has its list holds the settings of the row, as nobody else writes them
before it is done, and a cancelled watcher has a reload that will replace it.

### Assumptions

Each is named in the module that declares the constants, and TLC evaluates it in every
run. They say that limits are numbers and markers (`NoRow`, `NoRun`, `NoLink`, `NoBlob`…)
are not values, and further:

* `StartsAssumption` (JobDispatcher, ArchiveLifecycle, PostIngest, Taxonomy): starts are archives.
  Documents to start with have been read, wait for a password or have a job; no beta has
  been adopted yet; what documents and rules refer to exists, and no tag has a parent yet.
* `ConstantsAssumption` (DocumentIntake): a part of a batch is not itself a batch.
* `FlowAssumption` (Approvals): the definition passes `Validate`, which the code runs on
  every definition before it is used, and does not start at its end.
* `AccessAssumption`: an archive is not named like a right, as `era` indexes both.
* `FoldingAssumption` (RenderedView): paths that are one directory entry have one claim
  key, which holds because keys always fold case and entries fold at most case.
* `TaxonomyAssumption`: there are at most `MaxHops` tags (128). `SetTagParent` follows no
  more ancestors than that (`core/api/tags.go:509`), so a longer chain may hide a cycle
  from it. The filing sets the program ships do not name the Inbox.
* `EnrichmentAssumption`: a rule that asks the model has only the actions that the code
  allows such rules (`askActionKinds`), and answers are about fields a change can name.
* `FolderAssumption`: starts are folders and settings; a configuration has an owner.
* `AttachmentsAssumption` (PostIngest): attachments are files. It is a fact about
  `SelectSeq`, stated because the provers know nothing of that operator.

The two theorems about `MailboxWatch` have a hypothesis each, because the code does not
keep the property without it (§4). `MailNothingPassedOver` supposes `OwnNumberings`: each
source has a mailbox of its own and no mailbox ever has a numbering that another had, so
a late cursor write cannot be taken for a position in the new mailbox. IMAP promises
numberings to grow within one mailbox and nothing across mailboxes.
`MailRunningMatchesRow` supposes one request at a time (`Callers = {Booter}`). The run's
instance satisfies both (`HypothesesAssumption` of `MCMailboxWatch`).

### Only model-checked

The three liveness properties (`EventuallySettled`, `EventuallyFiled` of `MailboxWatch` and
of `FolderWatch`): fairness and ENABLED are outside the prover.

## 6. Plan

Modelled: all the parts of §1. Left, in this order:

1. Two sources on one mailbox, and two reloads at a time, once the code orders them.
2. An abstract specification of intake (every accepted file is filed once per owner) that
   `DocumentIntake`, `FolderWatch` and `MailboxWatch` implement.

## 7. Not modelled

Every part is listed under `components` with its reason. In short: text and wire
formats (search, prompts, MIME decoding, HTTP, templates, the browser interface);
external programs and services (OCR, IMAP servers, identity providers, language
models), whose results are free choices where a module meets them; one-shot commands
(bundle import, demo data); and append-only output (audit, events). Hashing, TOTP
arithmetic and signatures are ideal. Loss of power is modelled for the database and
its snapshots (not during a restore), and not for the content store: there a stop loses
no file operation that had finished.

## 8. Running

    tlc -workers 2 -config jobs_core.cfg MCJobDispatcher
    tlapm JobDispatcherProofs.tla

`PROJECT.json` names the module and configuration of every run; the longest run takes
about two minutes, the longest proof module about six.
