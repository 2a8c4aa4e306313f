--------------------------- MODULE DocumentIntake ---------------------------
(***************************************************************************)
(* How documents enter and leave the archive: POST /api/documents with its *)
(* Idempotency-Key receipts, POST .../versions/, the watched folder, the   *)
(* post-ingest job that splits a scanned batch or stores a derived archive *)
(* copy, Trash, the permanent purge, and the offline garbage collector of  *)
(* the content store.                                                      *)
(*                                                                         *)
(* A request puts its bytes into the content store and only then opens the *)
(* write transaction; the two halves are two steps here, and everything    *)
(* else may happen between them.  SQLite has one writer, so a transaction  *)
(* is one step.  A client that got no answer sends the same upload again   *)
(* in another slot.  The server may die between any two steps.             *)
(***************************************************************************)
EXTENDS Naturals, Sequences, FiniteSets

CONSTANTS
  Users,      \* people with a role that may write
  Shares,     \* <<u, o>>: u has view and change grants on o's documents
  Blobs,      \* SHA-256 hashes
  Segments,   \* Segments[b]: the parts the separator pages cut b into
  Archives,   \* Archives[b]: hashes OCR can give the archive form of b
  Uploaded,   \* files that clients upload
  Dropped,    \* files that people put into the watched folder
  Keys,       \* Idempotency-Key values
  Slots,      \* upload requests a client may have open
  Retention,  \* trash.Retention and uploadIdempotencyRetention, 30 days each
  MaxDocs,    \* bound: rows ever inserted
  MaxNow,     \* bound: the clock
  Bounds,     \* bounds: how much of each kind of event there may be
  NoRow, NoBlob, NoKey, NoReceipt, NoUser

Ids == 1..MaxDocs

(* Uploads with a key, of files that are not split and of scans, files put *)
(* into the watched folder, edits, jobs and stops of the server.           *)
Kinds == {"keyed", "uploads", "scans", "drops", "edits", "jobs", "stops"}

ASSUME ConstantsAssumption ==
  /\ Shares \subseteq Users \X Users
  /\ Segments \in [Blobs -> Seq(Blobs)]
  /\ \A b \in Blobs : \A i \in DOMAIN Segments[b] : Segments[Segments[b][i]] = <<>>
  /\ Archives \in [Blobs -> SUBSET Blobs]
  /\ Uploaded \subseteq Blobs /\ Dropped \subseteq Blobs
  /\ NoBlob \notin Blobs /\ NoKey \notin Keys /\ NoUser \notin Users
  /\ Bounds \subseteq [Kinds -> Nat]
  /\ Retention \in Nat /\ MaxDocs \in Nat /\ MaxNow \in Nat \ {0}

VARIABLES
  docs,      \* the documents table
  lastId,    \* its AUTOINCREMENT counter
  receipts,  \* the upload_idempotency table
  blobs,     \* files of the content store
  req,       \* upload requests and, once answered, what the client was told
  folder,    \* files in the watched folder not yet observed
  queue,     \* documents with an open post-ingest job
  work,      \* the post-ingest job that is running
  up,        \* the server holds the archive lock
  now,       \* the wall clock, in days
  left       \* how much of each bound is left

rows == <<docs, lastId>>
vars == <<docs, lastId, receipts, blobs, req, folder, queue, work, up, now, left>>

-----------------------------------------------------------------------------
MaybeId == Ids \cup {0}
Indexes == UNION {DOMAIN Segments[b] : b \in Blobs}

(* trashed is 0 in a live row, else the day it was trashed.  family stands *)
(* for version_family_key: the id of the row the key was made for.         *)
Rows == [owner: Users, blob: Blobs, archive: Blobs \cup {NoBlob},
         trashed: 0..MaxNow, prev: MaybeId, family: MaybeId,
         origin: MaybeId, index: Indexes \cup {0}]

ASSUME RowAssumption == NoRow \notin Rows

Receipts == [op: {"document", "version"}, prev: MaybeId, blob: Blobs,
             doc: Ids, at: 0..MaxNow]

Codes == {"none", "ok", "replayed", "idempotency_conflict",
          "split_origin_children_trashed", "version_head_changed",
          "version_predecessor_changed", "version_target_unavailable",
          "duplicate_version_blob"}

Requests == [at: {"idle", "stored", "answered"}, user: Users \cup {NoUser},
             op: {"document", "version"}, prev: MaybeId,
             blob: Blobs \cup {NoBlob}, key: Keys \cup {NoKey},
             code: Codes, doc: MaybeId, when: 0..MaxNow]

Quiet == [at |-> "idle", user |-> NoUser, op |-> "document", prev |-> 0,
          blob |-> NoBlob, key |-> NoKey, code |-> "none", doc |-> 0, when |-> 0]

NoWork == [at |-> "idle", doc |-> 0, made |-> {}, archive |-> NoBlob]

Exists(d) == d \in Ids /\ docs[d] # NoRow
Live(d) == Exists(d) /\ docs[d].trashed = 0
Trashed(d) == Exists(d) /\ docs[d].trashed # 0

(* trashed_at > now - trash.Retention                                      *)
Recoverable(d) == Trashed(d) /\ docs[d].trashed + Retention > now

Children(d) == {c \in Ids : Exists(c) /\ docs[c].origin = d}

OwnedCopies(o, b) == {d \in Ids : Exists(d) /\ docs[d].owner = o /\ docs[d].blob = b}
LiveCopies(o, b) == {d \in OwnedCopies(o, b) : Live(d)}
Family(k) == {d \in Ids : Exists(d) /\ docs[d].family = k}

(* ORDER BY trashed_at DESC LIMIT 1; rows of the same second are tied.     *)
LastTrashed(S) == {d \in S : \A e \in S : docs[e].trashed <= docs[d].trashed}

CanChange(u, d) == docs[d].owner = u \/ <<u, docs[d].owner>> \in Shares

NewRow(o, b) == [owner |-> o, blob |-> b, archive |-> NoBlob, trashed |-> 0,
                 prev |-> 0, family |-> 0, origin |-> 0, index |-> 0]

Init ==
  /\ docs = [d \in Ids |-> NoRow] /\ lastId = 0
  /\ receipts = [p \in Users \X Keys |-> NoReceipt]
  /\ blobs = {}
  /\ req = [r \in Slots |-> Quiet]
  /\ folder = {}
  /\ queue = {} /\ work = NoWork
  /\ up = TRUE /\ now = 1
  /\ left \in Bounds

Spend(what) ==
  left[what] > 0 /\ left' = [left EXCEPT ![what] = @ - 1]

-----------------------------------------------------------------------------
(* Receipts.                                                               *)

(* The delete of receipts past their retention that every keyed load does. *)
KeptReceipts ==
  [p \in Users \X Keys |->
     IF receipts[p] # NoReceipt /\ receipts[p].at + Retention < now
     THEN NoReceipt ELSE receipts[p]]

LoadReceipt(q) == IF q.key = NoKey THEN NoReceipt ELSE KeptReceipts[<<q.user, q.key>>]

(* Mutant: the fingerprint is not compared.                                *)
FingerprintUnchecked(q, s) == s.op = q.op /\ s.prev = q.prev

(* buildUploadFingerprint compared, and the operation and predecessor.     *)
SameFingerprint(q, s) == s.op = q.op /\ s.prev = q.prev /\ s.blob = q.blob

StoreReceipt(q, d) ==
  receipts' = IF q.key = NoKey THEN receipts
              ELSE [KeptReceipts EXCEPT ![<<q.user, q.key>>] =
                      [op |-> q.op, prev |-> q.prev, blob |-> q.blob,
                       doc |-> d, at |-> now]]

Answer(r, code, d) ==
  req' = [req EXCEPT ![r] = [@ EXCEPT !.at = "answered", !.code = code,
                                      !.doc = d, !.when = now]]

(* A refusal rolls the transaction back.                                   *)
Refuse(r, code) ==
  /\ Answer(r, code, 0)
  /\ UNCHANGED <<docs, lastId, receipts, blobs, folder, queue, work, up, now, left>>

(* The stored response is sent again.                                      *)
Replay(r) ==
  /\ Answer(r, "replayed", LoadReceipt(req[r]).doc)
  /\ receipts' = KeptReceipts
  /\ UNCHANGED <<docs, lastId, blobs, folder, queue, work, up, now, left>>

-----------------------------------------------------------------------------
(* Where arriving bytes b of owner o end up, in the order the transaction  *)
(* looks: a batch that was split keeps its origin retired, live bytes are  *)
(* the document already there, trashed ones come back, else a row is made. *)

SplitOrigins(o, b) == {d \in OwnedCopies(o, b) : Trashed(d) /\ Children(d) # {}}

Outcomes(o, b, restorable) ==
  IF SplitOrigins(o, b) # {}
  THEN [kind: {"split"}, doc: LastTrashed(SplitOrigins(o, b))]
  ELSE IF LiveCopies(o, b) # {} THEN [kind: {"live"}, doc: LiveCopies(o, b)]
  ELSE IF restorable # {} THEN [kind: {"restored"}, doc: LastTrashed(restorable)]
  ELSE [kind: {"created"}, doc: {lastId + 1}]

ApplyOutcome(o, b, out) ==
  CASE out.kind = "created" ->
         /\ lastId < MaxDocs
         /\ docs' = [docs EXCEPT ![out.doc] = NewRow(o, b)]
         /\ lastId' = out.doc
         /\ queue' = queue \cup {out.doc}
    [] out.kind = "restored" ->
         /\ docs' = [docs EXCEPT ![out.doc].trashed = 0]
         /\ UNCHANGED <<lastId, queue>>
    [] OTHER -> UNCHANGED <<docs, lastId, queue>>

-----------------------------------------------------------------------------
(* Uploads.                                                                *)

Upload(u, b, k, p) ==
  [at |-> "stored", user |-> u, op |-> IF p = 0 THEN "document" ELSE "version",
   prev |-> p, blob |-> b, key |-> k, code |-> "none", doc |-> 0, when |-> 0]

UploadKind(b, k) ==
  IF k # NoKey THEN "keyed" ELSE IF Segments[b] = <<>> THEN "uploads" ELSE "scans"

(* The handler up to its transaction: a version is refused here when its   *)
(* predecessor is not live; the body goes into the content store.          *)
Receive(r) ==
  /\ up /\ req[r].at # "stored"
  /\ \E u \in Users, b \in Uploaded, k \in Keys \cup {NoKey}, p \in MaybeId :
       /\ Spend(UploadKind(b, k))
       /\ p = 0 \/ (Live(p) /\ CanChange(u, p))
       /\ req' = [req EXCEPT ![r] = Upload(u, b, k, p)]
       /\ blobs' = blobs \cup {b}
  /\ UNCHANGED <<docs, lastId, receipts, folder, queue, work, up, now>>

Ready(r, op) == up /\ req[r].at = "stored" /\ req[r].op = op

(* The transaction of UploadDocument.                                      *)
UploadDocument(r) ==
  LET q == req[r]
      s == LoadReceipt(q)
      restorable == {d \in OwnedCopies(q.user, q.blob) : Recoverable(d)}
      PartTrashed(out) ==
        out.kind = "split" /\ \E c \in Children(out.doc) : Trashed(c)
  IN /\ Ready(r, "document")
     /\ \/ s # NoReceipt /\ ~SameFingerprint(q, s) /\ Refuse(r, "idempotency_conflict")
        \/ s # NoReceipt /\ SameFingerprint(q, s) /\ Replay(r)
        \/ /\ s = NoReceipt
           /\ \E out \in Outcomes(q.user, q.blob, restorable) :
                \/ /\ PartTrashed(out)
                   /\ Refuse(r, "split_origin_children_trashed")
                \/ /\ ~PartTrashed(out)
                   /\ ApplyOutcome(q.user, q.blob, out)
                   /\ StoreReceipt(q, out.doc)
                   /\ Answer(r, "ok", out.doc)
                   /\ UNCHANGED <<blobs, folder, work, up, now, left>>

(* Mutant: the head is looked for among the live revisions.                *)
HeadOfLive(p) ==
  docs[p].family = 0 \/ \A d \in Family(docs[p].family) : Live(d) => d <= p

(* The predecessor is the newest member of its family, trashed ones count. *)
IsHead(p) == docs[p].family = 0 \/ \A d \in Family(docs[p].family) : d <= p

(* The insert of a version, the key of a family begun with it, its job.    *)
InsertVersion(q) ==
  LET p == q.prev
      o == docs[p].owner
      k == IF docs[p].family = 0 THEN p ELSE docs[p].family
      n == lastId + 1
  IN /\ n \in Ids
     /\ docs' = [docs EXCEPT ![p].family = k,
                             ![n] = [NewRow(o, q.blob) EXCEPT !.prev = p, !.family = k]]
     /\ lastId' = n
     /\ queue' = queue \cup {n}

(* Versions a keyed retry is recovered from once its receipt has expired.  *)
EarlierResults(q) ==
  {d \in OwnedCopies(docs[q.prev].owner, q.blob) : docs[d].prev = q.prev}

(* ORDER BY (trashed_at IS NULL) DESC, id LIMIT 1                          *)
FirstResult(S) ==
  LET best == IF \E d \in S : Live(d) THEN {d \in S : Live(d)} ELSE S
  IN CHOOSE d \in best : \A e \in best : d <= e

(* The transaction of UploadNewVersion.                                    *)
UploadNewVersion(r) ==
  LET q == req[r]
      s == LoadReceipt(q)
      Recovers == q.key # NoKey /\ EarlierResults(q) # {}
      Fresh == s = NoReceipt /\ ~Recovers
      d == IF s # NoReceipt THEN s.doc ELSE FirstResult(EarlierResults(q))
  IN /\ Ready(r, "version")
     /\ \/ ~Live(q.prev) /\ Refuse(r, "version_predecessor_changed")
        \/ /\ Live(q.prev)
           /\ \/ s # NoReceipt /\ ~SameFingerprint(q, s) /\ Refuse(r, "idempotency_conflict")
              \/ /\ \/ s # NoReceipt /\ SameFingerprint(q, s)
                    \/ s = NoReceipt /\ Recovers
                 /\ ~Live(d)
                 /\ Refuse(r, "version_target_unavailable")
              \/ s # NoReceipt /\ SameFingerprint(q, s) /\ Live(d) /\ Replay(r)
              \/ /\ s = NoReceipt /\ Recovers /\ Live(d)
                 /\ StoreReceipt(q, d)
                 /\ Answer(r, "replayed", d)
                 /\ UNCHANGED <<docs, lastId, blobs, folder, queue, work, up, now, left>>
              \/ Fresh /\ ~IsHead(q.prev) /\ Refuse(r, "version_head_changed")
              \/ /\ Fresh /\ IsHead(q.prev)
                 /\ LiveCopies(docs[q.prev].owner, q.blob) # {}
                 /\ Refuse(r, "duplicate_version_blob")
              \/ /\ Fresh /\ IsHead(q.prev)
                 /\ LiveCopies(docs[q.prev].owner, q.blob) = {}
                 /\ InsertVersion(q)
                 /\ StoreReceipt(q, lastId + 1)
                 /\ Answer(r, "ok", lastId + 1)
                 /\ UNCHANGED <<blobs, folder, work, up, now, left>>

(* A file appears in the watched folder.                                   *)
DropFile(b) ==
  /\ Spend("drops")
  /\ b \in Dropped \ folder /\ folder' = folder \cup {b}
  /\ UNCHANGED <<docs, lastId, receipts, blobs, req, queue, work, up, now>>

(* The watched folder's owner u: a file is stored and its transaction run. *)
(* Trash is searched without regard to the retention.                      *)
WatchIngest(u, b) ==
  LET restorable == {d \in OwnedCopies(u, b) : Trashed(d)}
  IN /\ up /\ b \in folder
     /\ \E out \in Outcomes(u, b, restorable) : ApplyOutcome(u, b, out)
     /\ folder' = folder \ {b}
     /\ blobs' = blobs \cup {b}
     /\ UNCHANGED <<receipts, req, work, up, now, left>>

-----------------------------------------------------------------------------
(* Trash.                                                                  *)

SoftDelete(d) ==
  /\ Spend("edits")
  /\ up /\ Live(d)
  /\ docs' = [docs EXCEPT ![d].trashed = now]
  /\ UNCHANGED <<lastId, receipts, blobs, req, folder, queue, work, up, now>>

(* The unique index on live (owner, original_blob) fails the update when   *)
(* the same bytes are live in another row.                                 *)
RestoreDocument(d) ==
  /\ Spend("edits")
  /\ up /\ Recoverable(d)
  /\ LiveCopies(docs[d].owner, docs[d].blob) = {}
  /\ docs' = [docs EXCEPT ![d].trashed = 0]
  /\ UNCHANGED <<lastId, receipts, blobs, req, folder, queue, work, up, now>>

(* The delete of trashed rows S: their jobs go, receipts cascade, and      *)
(* previous_version_id of a successor is set null.  split_origin_id stays. *)
PurgeRows(S) ==
  /\ docs' = [d \in Ids |->
                IF d \in S \/ docs[d] = NoRow THEN NoRow
                ELSE IF docs[d].prev \in S THEN [docs[d] EXCEPT !.prev = 0]
                ELSE docs[d]]
  /\ receipts' = [p \in Users \X Keys |->
                    IF receipts[p] # NoReceipt /\ receipts[p].doc \in S
                    THEN NoReceipt ELSE receipts[p]]
  /\ queue' = queue \ S
  /\ UNCHANGED <<lastId, blobs, req, folder, work, up, now, left>>

PurgeOne(d) == up /\ Trashed(d) /\ PurgeRows({d})

(* The daily sweep.                                                        *)
PurgeExpired ==
  LET S == {d \in Ids : Trashed(d) /\ ~Recoverable(d)}
  IN up /\ S # {} /\ PurgeRows(S)

-----------------------------------------------------------------------------
(* The post-ingest job.                                                    *)

Parts(d) == DOMAIN Segments[docs[d].blob]
SplitIndexes(d) == {docs[c].index : c \in Children(d)}

IsBatch(d) == Parts(d) # {}

Rescan(d) ==
  /\ Spend("edits")
  /\ up /\ Live(d)
  /\ queue' = queue \cup {d}
  /\ UNCHANGED <<docs, lastId, receipts, blobs, req, folder, work, up, now>>

(* completedFanout: the batch was split already; or loadDoc refuses the    *)
(* trashed document and the job fails until it is given up.                *)
JobWithoutWork(d) ==
  /\ up /\ work.at = "idle" /\ d \in queue
  /\ Trashed(d)
  /\ queue' = queue \ {d}
  /\ UNCHANGED <<docs, lastId, receipts, blobs, req, folder, work, up, now, left>>

(* Mutant: a part in Trash counts as missing.                              *)
MissingLive(d) ==
  Parts(d) \ {docs[c].index : c \in {e \in Children(d) : Live(e)}}

(* The parts loadExistingSplitIndexes has no child for.                    *)
MissingParts(d) == Parts(d) \ SplitIndexes(d)

(* fanOutPlan up to its transaction: the missing parts are stored.         *)
JobPrepareSplit(d) ==
  /\ Spend("jobs")
  /\ up /\ work.at = "idle" /\ d \in queue
  /\ Live(d) /\ IsBatch(d)
  /\ LET missing == MissingParts(d)
     IN /\ blobs' = blobs \cup {Segments[docs[d].blob][i] : i \in missing}
        /\ work' = [NoWork EXCEPT !.at = "split", !.doc = d, !.made = missing]
  /\ UNCHANGED <<docs, lastId, receipts, req, folder, queue, up, now>>

(* The transaction of fanOutPlan: a row for every missing part, and the    *)
(* combined document into Trash.  It fails when a part is live elsewhere.  *)
JobCommitSplit ==
  LET d == work.doc
      o == docs[d].owner
      part == Segments[docs[d].blob]
      missing == MissingParts(d)
      id == [i \in missing |-> lastId + Cardinality({j \in missing : j <= i})]
      child(c) == CHOOSE i \in missing : id[i] = c
      made == {id[i] : i \in missing}
  IN /\ up /\ work.at = "split" /\ Live(d)
     /\ missing \subseteq work.made
     /\ \A i \in missing : LiveCopies(o, part[i]) = {}
     /\ \A i, j \in missing : part[i] = part[j] => i = j
     /\ lastId + Cardinality(missing) <= MaxDocs
     /\ docs' = [c \in Ids |->
                   IF c \in made
                   THEN [NewRow(o, part[child(c)]) EXCEPT !.origin = d, !.index = child(c)]
                   ELSE IF c = d THEN [docs[d] EXCEPT !.trashed = now]
                   ELSE docs[c]]
     /\ lastId' = lastId + Cardinality(missing)
     /\ queue' = (queue \ {d}) \cup made
     /\ work' = NoWork
     /\ UNCHANGED <<receipts, blobs, req, folder, up, now, left>>

(* Content and, if OCR made one, the archive form, stored before the row.  *)
(* Decrypted copies and thumbnails are stored and recorded the same way.   *)
JobDerive(d) ==
  /\ Spend("jobs")
  /\ up /\ work.at = "idle" /\ d \in queue
  /\ Live(d) /\ ~IsBatch(d)
  /\ \E a \in Archives[docs[d].blob] \cup {NoBlob} :
       /\ blobs' = blobs \cup ({a} \ {NoBlob})
       /\ work' = [NoWork EXCEPT !.at = "derive", !.doc = d, !.archive = a]
  /\ UNCHANGED <<docs, lastId, receipts, req, folder, queue, up, now>>

(* updateDoc; a row purged meanwhile is not there to be updated.           *)
JobUpdateDoc ==
  /\ up /\ work.at = "derive"
  /\ docs' = IF Exists(work.doc)
             THEN [docs EXCEPT ![work.doc].archive = work.archive] ELSE docs
  /\ queue' = queue \ {work.doc}
  /\ work' = NoWork
  /\ UNCHANGED <<lastId, receipts, blobs, req, folder, up, now, left>>

(* Any step of the job fails; it is tried again or given up.               *)
JobFail ==
  /\ up /\ work.at # "idle"
  /\ queue' \in {queue, queue \ {work.doc}}
  /\ work' = NoWork
  /\ UNCHANGED <<docs, lastId, receipts, blobs, req, folder, up, now, left>>

-----------------------------------------------------------------------------
(* The process, the collector and the clock.                               *)

(* Requests that were open are lost; rows and stored files are not.        *)
Stop ==
  /\ Spend("stops")
  /\ up /\ up' = FALSE
  /\ req' = [r \in Slots |-> IF req[r].at = "stored" THEN Quiet ELSE req[r]]
  /\ work' = NoWork
  /\ UNCHANGED <<docs, lastId, receipts, blobs, folder, queue, now>>

Start ==
  /\ ~up /\ up' = TRUE
  /\ UNCHANGED <<docs, lastId, receipts, blobs, req, folder, queue, work, now, left>>

(* Mutant: derived files are forgotten.                                    *)
ReferencesOriginals == {docs[d].blob : d \in {e \in Ids : Exists(e)}}

(* CollectReferences                                                       *)
References ==
  UNION {{docs[d].blob, docs[d].archive} : d \in {e \in Ids : Exists(e)}}

(* suchi gc --apply: opening the database takes the archive lock, so the   *)
(* server is not running.  Unreferenced files within the grace period, or  *)
(* whose removal fails, stay.                                              *)
CollectGarbage ==
  /\ ~up
  /\ \E S \in SUBSET (blobs \ References) : S # {} /\ blobs' = blobs \ S
  /\ UNCHANGED <<docs, lastId, receipts, req, folder, queue, work, up, now, left>>

Tick ==
  /\ now < MaxNow /\ now' = now + 1
  /\ UNCHANGED <<docs, lastId, receipts, blobs, req, folder, queue, work, up, left>>

Next ==
  \/ \E r \in Slots : Receive(r) \/ UploadDocument(r) \/ UploadNewVersion(r)
  \/ \E b \in Dropped : DropFile(b) \/ \E u \in Users : WatchIngest(u, b)
  \/ \E d \in Ids : SoftDelete(d) \/ RestoreDocument(d) \/ PurgeOne(d)
  \/ PurgeExpired
  \/ \E d \in Ids : Rescan(d) \/ JobWithoutWork(d)
  \/ \E d \in Ids : JobPrepareSplit(d) \/ JobDerive(d)
  \/ JobCommitSplit \/ JobUpdateDoc \/ JobFail
  \/ Stop \/ Start \/ CollectGarbage \/ Tick

Spec == Init /\ [][Next]_vars

-----------------------------------------------------------------------------
(* Rows, receipts and requests have their types; a receipt names a row     *)
(* that exists (upload_idempotency.document_id cascades), a job too, and   *)
(* no id beyond the counter is in use.                                     *)
TypeOK ==
  /\ docs \in [Ids -> Rows \cup {NoRow}] /\ lastId \in MaybeId
  /\ receipts \in [Users \X Keys -> Receipts \cup {NoReceipt}]
  /\ blobs \subseteq Blobs /\ folder \subseteq Blobs
  /\ req \in [Slots -> Requests]
  /\ queue \subseteq {d \in Ids : Exists(d)}
  /\ work \in [at: {"idle", "split", "derive"}, doc: MaybeId,
               made: SUBSET Indexes, archive: Blobs \cup {NoBlob}]
  /\ up \in BOOLEAN /\ now \in 1..MaxNow
  /\ left \in [Kinds -> Nat]
  /\ \A d \in Ids : Exists(d) => d <= lastId
  /\ \A p \in Users \X Keys : receipts[p] # NoReceipt => Exists(receipts[p].doc)

(* Every document, in Trash or not, has its original and its archive file  *)
(* in the content store, whatever crashed between a Put and the row and    *)
(* whatever gc has collected (core/gc/gc.go CollectReferences).            *)
NoDocumentWithoutBytes ==
  \A d \in Ids : Exists(d) =>
    /\ docs[d].blob \in blobs
    /\ docs[d].archive \in blobs \cup {NoBlob}

(* The revisions of a document are one chain: each points at the revision  *)
(* just before it, or at none when that one was purged; concurrent version *)
(* uploads, trashed heads and restores make no sibling branches.           *)
FamilyIsAChain ==
  \A d, e \in Ids :
    /\ Exists(d) /\ Exists(e) /\ d < e /\ docs[d].family # 0
    /\ docs[d].family = docs[e].family
    => docs[e].prev = 0 \/ docs[e].prev >= d

(* A part of a split batch is filed once: retries, restores of the batch   *)
(* and rescans never make a second document for it, so that the unique     *)
(* index on (split_origin_id, split_index) never fails the transaction.    *)
PartsFiledOnce ==
  \A c, e \in Ids :
    /\ Exists(c) /\ Exists(e) /\ docs[c].origin # 0
    /\ docs[c].origin = docs[e].origin /\ docs[c].index = docs[e].index
    => c = e

Answered(r) == req[r].at = "stored" /\ req'[r].at = "answered"

(* An upload answered with success names a document that exists and holds  *)
(* the very bytes sent, belongs to the uploader or, for a version, follows *)
(* the predecessor asked for and is live.  Receipts, deduplication and     *)
(* recovery of late retries may not confuse two uploads.                   *)
AnswerHoldsBytes ==
  [][\A r \in Slots : Answered(r) /\ req'[r].code \in {"ok", "replayed"} =>
       LET d == req'[r].doc IN
         /\ docs'[d] # NoRow /\ docs'[d].blob = req[r].blob
         /\ req[r].op = "document" => docs'[d].owner = req[r].user
         /\ req[r].op = "version" =>
              docs'[d].prev = req[r].prev /\ docs'[d].trashed = 0]_vars

=============================================================================
