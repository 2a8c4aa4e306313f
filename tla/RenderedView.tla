---------------------------- MODULE RenderedView ----------------------------
(***************************************************************************)
(* The rendered view: the tree of symlinks that core/render/view keeps in  *)
(* step with the documents, its journal render_moves, the path claims of   *)
(* core/render/view/pathclaim, and the permanent purge of core/trash that  *)
(* removes links beside it.                                                *)
(*                                                                         *)
(* The Renderer's mutex makes one projection at a time run; between its    *)
(* steps documents are edited, trashed, restored and purged, and the       *)
(* process may die.  A step is one database transaction together with the  *)
(* file operation done inside it.  Files in the tree carry the document    *)
(* that published them as a history value; the code sees only the blob.    *)
(* The wall clock that stamps applied_at does not run backwards, so the    *)
(* latest applied move of a document is the last of its journal.           *)
(***************************************************************************)
EXTENDS Naturals, Sequences, FiniteSets

CONSTANTS
  Docs,        \* documents
  Paths,       \* rendered paths, relative to the root of the tree
  Blobs,       \* hashes in the content store
  Settings,    \* kinds of archive: the paths each document's template gives,
               \* how paths fold into keys and directory entries, and bounds
  NoPath, NoBlob, NoLink, NoDoc

ASSUME ConstantsAssumption ==
  /\ \A s \in Settings : /\ s.targets \in [Docs -> SUBSET Paths]
                         /\ s.key \in [Paths -> Paths] /\ s.entry \in [Paths -> Paths]
                         /\ s.edits \in Nat /\ s.faults \in Nat /\ s.losses \in Nat
  /\ NoPath \notin Paths /\ NoBlob \notin Blobs /\ NoDoc \notin Docs
  /\ NoLink \notin [doc: Docs, blob: Blobs]

(* No filesystem folds two paths into one entry that Key tells apart.      *)
ASSUME FoldingAssumption ==
  \A s \in Settings : \A p, q \in Paths : s.entry[p] = s.entry[q] => s.key[p] = s.key[q]

VARIABLES
  setting,   \* the archive of this behaviour
  status,    \* documents.trashed_at and the row's existence
  place,     \* the path that buildContext and the template give a document
  file,      \* the document's original and archive blob
  journal,   \* render_moves rows of each document, oldest first
  tree,      \* directory entry -> the link there
  queued,    \* documents with a render job pending
  ingest,    \* documents with a post-ingest job pending
  failed,    \* documents whose last job ended without projecting them
  rd,        \* the projection in progress
  recon,     \* documents the boot Reconcile still has to visit
  cleaning,  \* links that purges have still to remove
  edits, faults, losses

jobs == <<queued, ingest, failed>>
world == <<status, place, file, edits, losses>>
vars == <<setting, world, journal, tree, jobs, rd, recon, cleaning, faults>>

-----------------------------------------------------------------------------
(* The paths that metadata of d can produce.                               *)
Targets(d) == setting.targets[d]

(* pathclaim.Key: the folded spelling of a path.                           *)
Key(p) == setting.key[p]

(* The directory entry a path names: a filesystem that folds case has one  *)
(* for all the paths of a key.                                             *)
Entry(p) == setting.entry[p]

Entries == {Entry(p) : p \in Paths}
Projections == [path: Paths \cup {NoPath}, blob: Blobs \cup {NoBlob}]
Nothing == [path |-> NoPath, blob |-> NoBlob]
Moves == [prev: Projections, next: Projections, state: {"pending", "applied"}]
(* resolveTarget: the archive form if there is one, else the original.     *)
Target(d) ==
  [path |-> place[d],
   blob |-> IF file[d].archive = NoBlob THEN file[d].original
            ELSE file[d].archive]

Pending(d) == {n \in DOMAIN journal[d] : journal[d][n].state = "pending"}
Applied(d) == {n \in DOMAIN journal[d] : journal[d][n].state = "applied"}
IsLatest(d, n) == n \in Applied(d) /\ \A m \in Applied(d) : m <= n

(* lastAppliedProjection                                                   *)
LastApplied(d) ==
  IF Applied(d) = {} THEN Nothing
  ELSE journal[d][CHOOSE n \in Applied(d) : IsLatest(d, n)].next

(* The paths a document claims: those of its pending moves, and its latest *)
(* applied destination.                                                    *)
ClaimedPaths(d) ==
  ({journal[d][n].next.path : n \in Pending(d)}
    \cup {journal[d][n].prev.path : n \in Pending(d)}
    \cup {LastApplied(d).path}) \ {NoPath}

(* Mutant: a trashed document claims nothing.                              *)
ClaimedByLiveOther(d, p) ==
  \E e \in Docs \ {d} :
    status[e] = "live" /\ \E q \in ClaimedPaths(e) : Key(q) = Key(p)

(* Trashed documents keep their claims, so that a restore finds no second  *)
(* owner.                                                                  *)
ClaimedByOther(d, p) ==
  \E e \in Docs \ {d} : \E q \in ClaimedPaths(e) : Key(q) = Key(p)

(* The hashes that prove a link at path p to be document d's own: those of *)
(* the document and those the journal has for that very path.              *)
JournalHashes(d, p) ==
  {journal[d][n].next.blob :
     n \in {m \in DOMAIN journal[d] : journal[d][m].next.path = p}}
  \cup {journal[d][n].prev.blob :
     n \in {m \in DOMAIN journal[d] : journal[d][m].prev.path = p}}

OwnHashes(d, p) ==
  IF status[d] = "purged" THEN {}
  ELSE ({file[d].original, file[d].archive} \cup JournalHashes(d, p)) \ {NoBlob}

LinkAt(p) == tree[Entry(p)]
ProvedOwn(d, p) == LinkAt(p) # NoLink /\ LinkAt(p).blob \in OwnHashes(d, p)

Idle == [at |-> "idle", doc |-> NoDoc, job |-> "none", phase |-> "none", moves |-> {},
         cur |-> Nothing, prev |-> Nothing, todo |-> {}]

(* Every document starts uploaded, with its post-ingest job.               *)
Init ==
  /\ setting \in Settings
  /\ status = [d \in Docs |-> "live"]
  /\ place \in [Docs -> Paths] /\ \A d \in Docs : place[d] \in Targets(d)
  /\ file \in [Docs -> [original: Blobs, archive: {NoBlob}]]
  /\ journal = [d \in Docs |-> <<>>]
  /\ tree = [e \in Entries |-> NoLink]
  /\ queued = {} /\ ingest = Docs /\ failed = {}
  /\ rd = Idle /\ recon = {} /\ cleaning = {}
  /\ edits = 0 /\ faults = 0 /\ losses = 0

-----------------------------------------------------------------------------
(* Documents change under the renderer.  An edit commits with its render   *)
(* job; EnqueueMove queues none for a trashed document, restoring does.    *)

EnqueueMove(d) == queued' = IF status[d] = "live" THEN queued \cup {d} ELSE queued

(* A change of metadata that the path is made of.                          *)
Edit(d) ==
  /\ status[d] # "purged"
  /\ edits < setting.edits
  /\ edits' = edits + 1
  /\ \E p \in Targets(d) : place' = [place EXCEPT ![d] = p]
  /\ EnqueueMove(d)
  /\ UNCHANGED <<status, file, journal, tree, ingest, failed, rd, recon, cleaning,
                 faults, losses>>

(* A rescan queues the post-ingest job again.                              *)
Rescan(d) ==
  /\ status[d] = "live"
  /\ edits < setting.edits
  /\ edits' = edits + 1
  /\ ingest' = ingest \cup {d}
  /\ UNCHANGED <<status, place, file, journal, tree, queued, failed, rd, recon,
                 cleaning, faults, losses>>

Trash(d) ==
  /\ status[d] = "live"
  /\ edits < setting.edits
  /\ edits' = edits + 1
  /\ status' = [status EXCEPT ![d] = "trashed"]
  /\ UNCHANGED <<place, file, journal, tree, jobs, rd, recon, cleaning, faults,
                 losses>>

Restore(d) ==
  /\ status[d] = "trashed"
  /\ status' = [status EXCEPT ![d] = "live"]
  /\ queued' = queued \cup {d}
  /\ UNCHANGED <<place, file, journal, tree, ingest, failed, rd, recon, cleaning,
                 edits, faults, losses>>

(* Mutant: the snapshot has the latest applied path only.                  *)
CleanupOfLatest(d) ==
  {[path |-> p, hashes |-> OwnHashes(d, p)] :
     p \in {LastApplied(d).path} \ {NoPath}}

(* The snapshot of a purge: every path the document claims, with every     *)
(* hash a link of the document may carry there.                            *)
Cleanup(d) ==
  {[path |-> p, hashes |-> OwnHashes(d, p)] : p \in ClaimedPaths(d)}

(* The purge transaction: the row goes, and its journal and jobs with it.  *)
Purge(d) ==
  /\ status[d] = "trashed"
  /\ status' = [status EXCEPT ![d] = "purged"]
  /\ cleaning' = cleaning \cup Cleanup(d)
  /\ journal' = [journal EXCEPT ![d] = <<>>]
  /\ queued' = queued \ {d} /\ ingest' = ingest \ {d} /\ failed' = failed \ {d}
  /\ UNCHANGED <<place, file, tree, rd, recon, edits, faults, losses>>

(* Removal is refused while any remaining document claims the path.        *)
CleanupRefused(p) == ClaimedByOther(NoDoc, p)

(* removeRenderedLink, for one path of the snapshot; a foreign link and an *)
(* absent one stay as they are.                                            *)
RemoveRenderedLink(c) ==
  /\ c \in cleaning
  /\ cleaning' = cleaning \ {c}
  /\ tree' = IF /\ ~CleanupRefused(c.path)
                /\ LinkAt(c.path) # NoLink
                /\ LinkAt(c.path).blob \in c.hashes
             THEN [tree EXCEPT ![Entry(c.path)] = NoLink]
             ELSE tree
  /\ UNCHANGED <<world, journal, jobs, rd, recon, faults>>

(* The unlink or its transaction fails; the failure is only counted.       *)
RemoveRenderedLinkFails(c) ==
  /\ c \in cleaning
  /\ losses < setting.losses
  /\ losses' = losses + 1
  /\ cleaning' = cleaning \ {c}
  /\ UNCHANGED <<status, place, file, journal, tree, jobs, rd, recon, edits,
                 faults>>

-----------------------------------------------------------------------------
(* One projection: Move under the mutex, for a render job or at boot.      *)

(* reconcileDocument reads the pending moves; without any, a job goes on   *)
(* to project and the boot pass to the next document.                      *)
Begin(d, job) ==
  rd' = [Idle EXCEPT !.doc = d, !.job = job, !.moves = Pending(d),
           !.at = IF Pending(d) # {} THEN "finish" ELSE "project",
           !.phase = IF Pending(d) # {} THEN "recover" ELSE "project"]

CanRunJobs == rd.at = "idle" /\ recon = {}

Move(d) ==
  /\ CanRunJobs
  /\ d \in queued
  /\ queued' = queued \ {d} /\ failed' = failed \ {d}
  /\ Begin(d, "render")
  /\ UNCHANGED <<world, journal, tree, ingest, recon, cleaning, faults>>

Reconcile(d) ==
  /\ rd.at = "idle" /\ d \in recon
  /\ recon' = recon \ {d}
  /\ IF Pending(d) # {} THEN Begin(d, "boot") ELSE UNCHANGED rd
  /\ UNCHANGED <<world, journal, tree, jobs, cleaning, faults>>

Live(d) == status[d] = "live"

(* The post-ingest job reads the document, ...                             *)
LoadDoc(d) ==
  /\ CanRunJobs
  /\ d \in ingest
  /\ ingest' = ingest \ {d}
  /\ IF Live(d)
     THEN /\ rd' = [Idle EXCEPT !.doc = d, !.job = "ingest", !.at = "save"]
          /\ failed' = failed \ {d}
     ELSE failed' = failed \cup {d} /\ UNCHANGED rd
  /\ UNCHANGED <<world, journal, tree, queued, recon, cleaning, faults>>

(* ... writes what it extracted (an archive form, or the title and date of *)
(* an email) without a render job of its own, and goes on to Render.       *)
UpdateDoc ==
  /\ rd.at = "save" /\ status[rd.doc] # "purged"
  /\ \/ /\ \E a \in Blobs \cup {NoBlob} :
             file' = [file EXCEPT ![rd.doc].archive = a]
        /\ UNCHANGED place
     \/ /\ \E p \in Targets(rd.doc) : place' = [place EXCEPT ![rd.doc] = p]
        /\ UNCHANGED file
  /\ Begin(rd.doc, "ingest")
  /\ UNCHANGED <<status, journal, tree, jobs, recon, cleaning, edits, faults,
                 losses>>

(* A file whose password is not known is not rendered.                     *)
MarkEncrypted ==
  /\ rd.at = "save" /\ status[rd.doc] # "purged"
  /\ rd' = Idle
  /\ failed' = failed \cup {rd.doc}
  /\ UNCHANGED <<world, journal, tree, queued, ingest, recon, cleaning, faults>>

(* project: nothing to do but refresh the link when the target is the last *)
(* applied one.                                                            *)
Project ==
  /\ rd.at = "project" /\ Live(rd.doc)
  /\ LET t == Target(rd.doc)  l == LastApplied(rd.doc)
     IN  rd' = [rd EXCEPT !.cur = t, !.prev = l,
                          !.at = IF l = t THEN "refresh" ELSE "record"]
  /\ UNCHANGED <<world, journal, tree, jobs, recon, cleaning, faults>>

(* What recordPending's transaction requires: the path is not claimed by   *)
(* another document, and the document's row is there (the foreign key).    *)
MayClaim(d, p) == status[d] # "purged" /\ ~ClaimedByOther(d, p)

(* recordPending, in project and for a superseded target.                  *)
RecordPending ==
  /\ rd.at \in {"record", "supersede"}
  /\ MayClaim(rd.doc, rd.cur.path)
  /\ journal' = [journal EXCEPT ![rd.doc] = Append(@,
       [prev |-> rd.prev, next |-> rd.cur, state |-> "pending"])]
  /\ rd' = [rd EXCEPT !.moves = @ \cup {Len(journal[rd.doc]) + 1},
                      !.at = IF rd.at = "record" THEN "finish" ELSE "publish"]
  /\ UNCHANGED <<world, tree, jobs, recon, cleaning, faults>>

(* finishPending resolves the target again; when it is not the latest      *)
(* journaled one it is journaled first.                                    *)
Finish ==
  /\ rd.at = "finish" /\ Live(rd.doc) /\ rd.moves \subseteq DOMAIN journal[rd.doc]
  /\ \E n \in rd.moves :
       /\ \A m \in rd.moves : m <= n
       /\ LET latest == journal[rd.doc][n].next  t == Target(rd.doc)
          IN  rd' = [rd EXCEPT !.cur = t, !.prev = latest,
                       !.at = IF latest = t THEN "publish" ELSE "supersede"]
  /\ UNCHANGED <<world, journal, tree, jobs, recon, cleaning, faults>>

(* publishDocumentLink in one transaction: live, unclaimed by others, and  *)
(* whatever is there already proved to be the document's own link.         *)
MayPublish(d, p) ==
  /\ Live(d)
  /\ ~ClaimedByOther(d, p)
  /\ LinkAt(p) = NoLink \/ ProvedOwn(d, p)

OldPaths ==
  {journal[rd.doc][n].prev.path : n \in rd.moves}
  \cup {journal[rd.doc][n].next.path : n \in rd.moves}

Publish ==
  /\ rd.at \in {"publish", "refresh"}
  /\ MayPublish(rd.doc, rd.cur.path)
  /\ rd.moves \subseteq DOMAIN journal[rd.doc]
  /\ tree' = [tree EXCEPT ![Entry(rd.cur.path)] =
                [doc |-> rd.doc, blob |-> rd.cur.blob]]
  /\ rd' = IF rd.at = "refresh" THEN Idle
           ELSE [rd EXCEPT !.at = "remove",
                           !.todo = OldPaths \ {NoPath, rd.cur.path}]
  /\ UNCHANGED <<world, journal, jobs, recon, cleaning, faults>>

(* Mutant: a case-only rename removes the old spelling.                    *)
NeverSameEntry(p, q) == FALSE

(* sameEntry: two spellings of one directory entry.                        *)
SameEntry(p, q) == Key(p) = Key(q) /\ Entry(p) = Entry(q) /\ LinkAt(q) # NoLink

(* An old path is left alone when it is the entry just published, when     *)
(* another document claims it, or when nothing is there.                   *)
Skip(p) ==
  SameEntry(p, rd.cur.path) \/ ClaimedByOther(rd.doc, p) \/ LinkAt(p) = NoLink

(* removeDocumentLink for one of the old paths.                            *)
RemoveOld(p) ==
  /\ rd.at = "remove" /\ p \in rd.todo
  /\ Skip(p) \/ ProvedOwn(rd.doc, p)
  /\ tree' = IF Skip(p) THEN tree ELSE [tree EXCEPT ![Entry(p)] = NoLink]
  /\ rd' = [rd EXCEPT !.todo = @ \ {p}]
  /\ UNCHANGED <<world, journal, jobs, recon, cleaning, faults>>

(* The closing transaction of finishPending: all the moves are applied,    *)
(* with the current target; purged rows are not there to update.           *)
Apply ==
  /\ rd.at = "remove" /\ rd.todo = {}
  /\ journal' = [journal EXCEPT ![rd.doc] =
       [n \in DOMAIN @ |-> IF n \in rd.moves
          THEN [@[n] EXCEPT !.next = rd.cur, !.state = "applied"] ELSE @[n]]]
  /\ rd' = IF rd.phase = "recover" /\ rd.job # "boot"
           THEN [Idle EXCEPT !.doc = rd.doc, !.job = rd.job,
                             !.phase = "project", !.at = "project"]
           ELSE Idle
  /\ UNCHANGED <<world, tree, jobs, recon, cleaning, faults>>

(* The next step returns an error.                                         *)
Refused ==
  CASE rd.at = "save"                    -> status[rd.doc] = "purged"
    [] rd.at \in {"project", "finish"}   -> ~Live(rd.doc)
    [] rd.at \in {"record", "supersede"} -> ~MayClaim(rd.doc, rd.cur.path)
    [] rd.at \in {"publish", "refresh"}  -> ~MayPublish(rd.doc, rd.cur.path)
    [] rd.at = "remove" ->
         \E p \in rd.todo : ~Skip(p) /\ ~ProvedOwn(rd.doc, p)
    [] OTHER -> FALSE

(* An error of Render is only logged, by the post-ingest job as by the     *)
(* boot pass; any other is returned to the dispatcher, which retries the   *)
(* job or gives it up.                                                     *)
GiveUp ==
  /\ rd' = Idle
  /\ IF rd.job = "boot" \/ status[rd.doc] = "purged" THEN UNCHANGED jobs
     ELSE \/ failed' = failed \cup {rd.doc} /\ UNCHANGED <<queued, ingest>>
          \/ /\ rd.job = "render"
             /\ queued' = queued \cup {rd.doc} /\ UNCHANGED <<ingest, failed>>
          \/ /\ rd.at = "save"
             /\ ingest' = ingest \cup {rd.doc} /\ UNCHANGED <<queued, failed>>
  /\ UNCHANGED <<world, journal, tree, recon, cleaning>>

Refuse == Refused /\ GiveUp /\ UNCHANGED faults

Fault ==
  /\ rd.at # "idle"
  /\ faults < setting.faults
  /\ faults' = faults + 1
  /\ GiveUp

(* The process dies: the projection and the removals in memory are gone,   *)
(* the running job is queued again by the boot reclamation, and the next   *)
(* process reconciles before it runs jobs.                                 *)
Orphan(job) == {d \in Docs : d = rd.doc /\ rd.job = job /\ status[d] # "purged"}

Crash ==
  /\ losses < setting.losses
  /\ losses' = losses + 1
  /\ rd' = Idle
  /\ cleaning' = {}
  /\ queued' = queued \cup Orphan("render")
  /\ ingest' = ingest \cup Orphan("ingest")
  /\ recon' = {d \in Docs : Pending(d) # {}}
  /\ UNCHANGED <<status, place, file, journal, tree, failed, edits, faults>>

-----------------------------------------------------------------------------
Renderer ==
  \/ \E d \in Docs : Move(d) \/ Reconcile(d) \/ LoadDoc(d)
  \/ UpdateDoc \/ MarkEncrypted
  \/ Project \/ RecordPending \/ Finish \/ Publish \/ Apply
  \/ \E p \in rd.todo : RemoveOld(p)
  \/ Refuse \/ Fault

Environment ==
  \/ \E d \in Docs : Edit(d) \/ Rescan(d) \/ Trash(d) \/ Restore(d) \/ Purge(d)
  \/ \E c \in cleaning : RemoveRenderedLink(c) \/ RemoveRenderedLinkFails(c)
  \/ Crash

Next == (Renderer \/ Environment) /\ UNCHANGED setting

Spec == Init /\ [][Next]_vars

-----------------------------------------------------------------------------
(* A live document with no job outstanding, whose last job did not fail,   *)
(* is rendered where its metadata say, with its current bytes: "a          *)
(* committed email and its rendered projection can never diverge           *)
(* permanently" (subscriber.go), also for what the post-ingest job writes  *)
(* without a render job.                                                   *)
RenderedWhenQuiet ==
  \A d \in Docs :
    Live(d) /\ d \notin queued \cup ingest \cup failed /\ rd.doc # d =>
      LinkAt(place[d]) = [doc |-> d, blob |-> Target(d).blob]

(* Once a purge has cleaned up and nothing failed meanwhile, no link of    *)
(* the purged document is left: "A purge ... removes rendered files"       *)
(* (docs/privacy.mdx, core/trash cleanupRendered).  Where templates give   *)
(* two documents one path this is not so: a claim journaled between the    *)
(* purge's commit and its unlink keeps the link.                           *)
PurgedLinksGone ==
  /\ losses = 0 /\ cleaning = {}
  /\ \A d, e \in Docs : d # e =>
       \A p \in Targets(d), q \in Targets(e) : Key(p) # Key(q)
  => \A e \in Entries : tree[e] # NoLink => status[tree[e].doc] # "purged"

(* A link of a document that still exists is replaced or removed only by   *)
(* that document's own projection, although links are recognised by blob   *)
(* hash and documents share blobs (publishDocumentLink,                    *)
(* removeDocumentLink, removeRenderedLink).                                *)
OnlyOwnerTouchesLink ==
  [][\A e \in Entries :
       tree[e] # NoLink /\ status[tree[e].doc] # "purged"
         /\ tree'[e] # tree[e] => rd.doc = tree[e].doc]_vars

=============================================================================
