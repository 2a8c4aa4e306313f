----------------------------- MODULE PostIngest -----------------------------
(***************************************************************************)
(* The job that reads a new document: core/pipeline/postingest.  It opens  *)
(* encrypted PDFs with the passwords the archive has learned (core/api/    *)
(* decrypt.go), takes the archive serial number off a scanned label, files *)
(* the attachments of a mail, and stores the text.  Around it: people who  *)
(* unlock, number, trash and restore documents while the job's tools run,  *)
(* and the rescan proposals (core/rescan) that send documents through the  *)
(* job again after an upgrade.                                             *)
(*                                                                         *)
(* The dispatcher has one worker.  A tool takes long, so everything read   *)
(* before it may be stale after it; a failed run starts over from its      *)
(* first step.  Batches of several documents in one file are modelled in   *)
(* DocumentIntake, what follows the stored text in Enrichment.             *)
(***************************************************************************)
EXTENDS Naturals, FiniteSets, Sequences, SequencesExt

CONSTANTS
  Ids,        \* 1..n: document ids
  JobIds,     \* 1..n: jobs not yet settled
  File,       \* what bytes are: [bytes -> [what, pw, scan, native, mid, parts, inline]]
  Users,
  Kinds,      \* pipeline revisions that may lag: "content", "llm"
  Sample,     \* how many documents approve_sample takes
  Attempts,   \* runs of a job before it is given up
  Starts      \* what the archive is like at the start

None == 0

ASSUME PostIngestAssumption ==
  /\ Sample \in Nat /\ Attempts \in Nat \ {0}
  /\ Ids \subseteq Nat \ {None} /\ "content" \in Kinds

VARIABLES
  docs,      \* [Ids -> row of documents]
  jobs,      \* post-ingest rows of jobs that are pending, running or dead
  work,      \* what the worker is doing
  vault,     \* decryption_passwords: [owner, pw]
  file,      \* passwords in the operator's file
  calls,     \* unlock requests between two of their steps
  proposals, \* runs of rescan-proposal, in order: [kind, ver, choice, run]
  booting,   \* kinds EnsureProposals has still to look at
  rel,       \* the release: its revisions now, those it recommends, and the releases to come
  opts,      \* labels are read; there is a pre-consume script; the OCR engine
  lost,      \* attachments whose filing failed, with a line in the log, and bytes people purged
  left       \* how much of each kind of event may still come

people == <<vault, file, calls>>
rescans == <<proposals, booting, rel>>
vars == <<docs, jobs, work, people, rescans, opts, lost, left>>

NoJob == [n |-> 0, doc |-> None, files |-> FALSE, tries |-> 0, st |-> "done"]
Idle == [at |-> "idle", job |-> NoJob, doc |-> None, seen |-> "", tried |-> {}, pre |-> FALSE,
         part |-> 0, made |-> 0, other |-> None]

Up == booting = <<>>

Spend(what) ==
  /\ left[what] > 0
  /\ left' = [left EXCEPT ![what] = @ - 1]

Live(d) == docs[d].st = "live"
Row(d) == docs[d].st \in {"live", "trashed"}
Kind(d) == File[docs[d].bytes]

\* documents_owner_original_blob: live documents of one owner have different bytes.
Copies(b, owner) == {d \in Ids : Live(d) /\ docs[d].bytes = b /\ docs[d].owner = owner}

FreeId == CHOOSE d \in Ids : docs[d].st = "none"
HasRoom(n) == Cardinality({d \in Ids : docs[d].st = "none"}) >= n

-----------------------------------------------------------------------------
(* The outbox, as far as this handler sees it.  JobDispatcher has it all.  *)

FreeJob(js) == CHOOSE n \in JobIds : n # work.job.n /\ \A j \in js : j.n # n
NewJob(n, d, files) == [n |-> n, doc |-> d, files |-> files, tries |-> Attempts, st |-> "pending"]
Enqueue(js, d, files) == js \cup {NewJob(FreeJob(js), d, files)}
\* One job for each document, in one batch.
EnqueueAll(js, ds) ==
  LET n == CHOOSE f \in [ds -> JobIds] : /\ \A d, e \in ds : f[d] = f[e] => d = e
                                        /\ \A d \in ds, j \in js : j.n # f[d]
  IN  js \cup {NewJob(n[d], d, FALSE) : d \in ds}
JobRoom(n) == Cardinality(JobIds) - Cardinality(jobs) > n

Running == work.at # "idle"

\* The handler returned nil, an error to retry, or a terminal error.
\* A purge may have deleted the row meanwhile: then nothing is updated.
Settle(st) ==
  /\ jobs' = (jobs \ {work.job}) \cup
       (IF work.job \in jobs /\ st # "done"
        THEN {[work.job EXCEPT !.tries = @ - 1, !.st = st]} ELSE {})
  /\ work' = Idle

Finish == Settle("done")
Retry == Settle(IF work.job.tries = 1 THEN "dead" ELSE "pending")
GiveUp == Settle("dead")

At(step) == Up /\ work.at = step
Goto(step) == work' = [work EXCEPT !.at = step]

-----------------------------------------------------------------------------
(* Handle, up to the bytes.                                                *)

\* completedFanout concerns batches only.
Begin(j) ==
  /\ Up /\ ~Running /\ j.st = "pending"
  /\ LET mine == [j EXCEPT !.st = "running"]
     IN /\ jobs' = (jobs \ {j}) \cup {mine}
        /\ work' = [Idle EXCEPT !.at = IF opts.asn THEN "preflight" ELSE "load",
                                !.job = mine, !.doc = j.doc]
  /\ UNCHANGED <<docs, people, rescans, opts, lost, left>>

\* Learned passwords of the document's owner, then the operator's file.
gatherDecryptCandidates(d) ==
  {v.pw : v \in {x \in vault : x.owner = docs[d].owner}} \cup file

loadOwnerID(d) == docs[d].owner

NeedsPassword(d, tried) == Kind(d).pw # None /\ Kind(d).pw \notin tried

\* ASN preflight: before anything is written, the accepted bytes are opened and scanned.
Preflight ==
  /\ At("preflight")
  /\ IF ~Live(work.doc) THEN Retry
     ELSE /\ work' = [work EXCEPT !.tried = gatherDecryptCandidates(work.doc),
                                  !.at = IF Kind(work.doc).what = "pdf" THEN "scan" ELSE "load"]
          /\ UNCHANGED jobs
  /\ UNCHANGED <<docs, people, rescans, opts, lost, left>>

\* Not bound to the state the tool ran against.
markEncrypted(d) ==
  docs' = IF Row(d) THEN [docs EXCEPT ![d].enc = "encrypted"] ELSE docs

\* asnHolder: live, trashed or replaced, whoever holds the number keeps it.
asnHolder(n, d) == {e \in Ids \ {d} : Row(e) /\ docs[e].asn = n}

\* assignScannedASNTx: what the label does to the row, or the job is given up.
assignScannedASN(d, n) ==
  IF docs[d].asn # None THEN (IF docs[d].asn = n THEN "kept" ELSE "terminal")
  ELSE IF docs[d].newer \/ asnHolder(n, d) # {} THEN "terminal"
  ELSE "assigned"

\* preflightPDF after qpdf and the scan: state, password use and number in one transaction.
CommitPreflight ==
  /\ At("scan")
  /\ LET d == work.doc
         n == Kind(d).scan
         set == assignScannedASN(d, n)
         open == [docs[d] EXCEPT !.enc = IF Kind(d).pw # None THEN "decrypted" ELSE @,
                                 !.plain = @ \/ Kind(d).pw # None]
     IN IF NeedsPassword(d, work.tried) THEN markEncrypted(d) /\ Finish
        ELSE IF ~Live(d) THEN UNCHANGED docs /\ Retry
        ELSE IF n # None /\ set = "terminal" THEN UNCHANGED docs /\ GiveUp
        ELSE /\ docs' = [docs EXCEPT ![d] = IF n # None /\ set = "assigned"
                                            THEN [open EXCEPT !.asn = n] ELSE open]
             /\ work' = [work EXCEPT !.at = "load", !.pre = TRUE]
             /\ UNCHANGED jobs
  /\ UNCHANGED <<people, rescans, opts, lost, left>>

\* Consumption automations, the row, the bytes; a better MIME type is written to a live row only.
LoadDoc ==
  /\ At("load")
  /\ IF ~work.pre /\ ~Live(work.doc) THEN Retry
     ELSE /\ work' = [work EXCEPT !.seen = docs[work.doc].text,
                                  !.at = IF opts.hook THEN "hook" ELSE "route"]
          /\ UNCHANGED jobs
  /\ UNCHANGED <<docs, people, rescans, opts, lost, left>>

\* The script may be missing or fail, rewrite the body, name tags and fields, or both.
hookOutcomes == [body : BOOLEAN, fields : BOOLEAN]

\* The pre-consume script's tags and fields, in one transaction whose failure is only logged;
\* a rewritten body makes the scan of the accepted bytes void.
PreConsume(rewritten, stored) ==
  /\ At("hook") /\ [body |-> rewritten, fields |-> stored] \in hookOutcomes
  /\ docs' = IF stored /\ Row(work.doc) THEN [docs EXCEPT ![work.doc].hooked = TRUE] ELSE docs
  /\ work' = [work EXCEPT !.at = "route", !.pre = @ /\ ~rewritten]
  /\ UNCHANGED <<jobs, people, rescans, opts, lost, left>>

\* msgconvert turns an Outlook message into a mail, or is skipped.
convertMSG == {"mail", "text"}

\* The routes of Handle by format.
Route ==
  /\ At("route")
  /\ \E msg \in convertMSG :
     Goto(CASE Kind(work.doc).what = "mail" -> "mail"
            [] Kind(work.doc).what = "msg" -> msg
            [] Kind(work.doc).what = "pdf" -> IF work.pre THEN "text" ELSE "gather"
            [] OTHER -> "text")
  /\ UNCHANGED <<docs, jobs, people, rescans, opts, lost, left>>

-----------------------------------------------------------------------------
(* PDFs and other files.                                                   *)

GatherCandidates ==
  /\ At("gather")
  /\ work' = [work EXCEPT !.at = "open", !.tried = gatherDecryptCandidates(work.doc)]
  /\ UNCHANGED <<docs, jobs, people, rescans, opts, lost, left>>

\* qpdf with the candidates.  recordDecrypted's failure is only logged.
OpenPDF(recorded) ==
  /\ At("open")
  /\ LET d == work.doc
     IN IF NeedsPassword(d, work.tried) THEN markEncrypted(d) /\ Finish
        ELSE /\ docs' = IF Kind(d).pw # None /\ recorded /\ Row(d)
                        THEN [docs EXCEPT ![d].enc = "decrypted", ![d].plain = TRUE] ELSE docs
             /\ Goto("text") /\ UNCHANGED jobs
  /\ UNCHANGED <<people, rescans, opts, lost, left>>

\* What the tools find.  Each is skipped when it is not installed or cannot read the file;
\* a timeout or too much text is an error (ToolFails).
Skipped == ""
tesseract == {"server", Skipped}
ocrmypdf == {"server", Skipped}
runOCR == IF opts.engine = "tesseract" THEN tesseract ELSE ocrmypdf
djvu == {"server", Skipped}
anydoc == {"server", Skipped}
imgpdf == {"wrapped", Skipped}

\* A picture: OCR of the PDF it is wrapped in; without one, its barcodes.
imageText == IF "wrapped" \in imgpdf THEN runOCR \cup {Skipped} ELSE {Skipped}

\* pdf-inspector: the text the file itself has.
hasText(d) == IF Kind(d).native THEN {TRUE, FALSE} ELSE {FALSE}

\* Text of its own; the device's, if none; OCR otherwise.
pdfText(d, seen) ==
  UNION {IF own THEN {"server"} ELSE IF seen = "device" THEN {"device"} ELSE runOCR : own \in hasText(d)}

Texts(d, seen) ==
  CASE Kind(d).what = "pdf" -> pdfText(d, seen)
    [] Kind(d).what = "image" -> imageText
    [] Kind(d).what = "djvu" -> djvu
    [] Kind(d).what = "office" -> anydoc
    [] Kind(d).what = "text" -> {"server"}
    [] OTHER -> {Skipped}

\* updateDocWithSource: whatever the row has become; nothing found does not erase device text.
updateDoc(d, text) ==
  docs' = IF ~Row(d) THEN docs
          ELSE [docs EXCEPT ![d].text = IF text = "" /\ @ = "device" THEN @ ELSE text,
                            ![d].ver["content"] = rel.now]

StoreText ==
  /\ At("text")
  /\ \E t \in Texts(work.doc, work.seen) : updateDoc(work.doc, t)
  /\ Goto(IF Kind(work.doc).what = "pdf" THEN "invoice" ELSE "after")
  /\ UNCHANGED <<jobs, people, rescans, opts, lost, left>>

\* An invoice embedded in a PDF; reading it may be skipped.
embedded(d) == IF Kind(d).what = "pdf" /\ Kind(d).native THEN {TRUE, FALSE} ELSE {FALSE}

\* zugferd.Apply: the invoice's fields replace whatever values they had; a failure is only logged.
StoreInvoice(stored) ==
  /\ At("invoice")
  /\ stored => TRUE \in embedded(work.doc)
  /\ docs' = IF stored /\ Row(work.doc) THEN [docs EXCEPT ![work.doc].invoice = TRUE] ELSE docs
  /\ Goto("after")
  /\ UNCHANGED <<jobs, people, rescans, opts, lost, left>>

\* postContentSteps and the thumbnail.
After ==
  /\ At("after")
  /\ Finish
  /\ UNCHANGED <<docs, people, rescans, opts, lost, left>>

\* A tool, the disk or the database fails: the run ends with an error.
ToolFails ==
  /\ Up /\ Running /\ Spend("tool")
  /\ Retry
  /\ UNCHANGED <<docs, people, rescans, opts, lost>>

-----------------------------------------------------------------------------
(* Mail: handleEmail.                                                      *)

SameMessage(d) ==
  {e \in Ids \ {d} : /\ Live(e) /\ docs[e].mid = Kind(d).mid
                     /\ docs[e].owner = loadOwnerID(d)}

\* The header is read before the duplicate is looked for; an unreadable mail is stored without text.
ParseMail(readable) ==
  /\ At("mail")
  /\ LET d == work.doc
     IN IF ~readable
        THEN Spend("bad") /\ updateDoc(d, "") /\ Goto("after")
        ELSE /\ IF Row(d) /\ Kind(d).mid # None /\ SameMessage(d) # {}
                THEN \E e \in SameMessage(d) :
                       work' = [work EXCEPT !.at = "duplicate", !.other = e]
                ELSE Goto("parent")
             /\ UNCHANGED <<docs, left>>
  /\ UNCHANGED <<jobs, people, rescans, opts, lost>>

\* CopySources to the message already there: fails when that row is gone.
CopySources ==
  /\ At("duplicate")
  /\ IF Row(work.other) THEN Goto("drop") /\ UNCHANGED jobs ELSE Retry
  /\ UNCHANGED <<docs, people, rescans, opts, lost, left>>

Deleted(ds, d) == [e \in Ids |-> IF e = d THEN [ds[e] EXCEPT !.st = "gone", !.parent = None]
                                 ELSE IF ds[e].parent = d THEN [ds[e] EXCEPT !.parent = None]
                                 ELSE ds[e]]

\* deleteEmailStagingParent: the row goes for good, no trash keeps it; its other jobs stay.
deleteEmailStagingParent ==
  /\ At("drop")
  /\ docs' = Deleted(docs, work.doc)
  /\ Finish
  /\ UNCHANGED <<people, rescans, opts, lost, left>>

\* updateEmailParent: text, date and Message-ID; a title people gave stays.
UpdateEmailParent ==
  /\ At("parent")
  /\ IF ~Row(work.doc) THEN UNCHANGED docs /\ Retry
     ELSE /\ docs' = [docs EXCEPT ![work.doc].text = "server", ![work.doc].mid = Kind(work.doc).mid,
                                  ![work.doc].ver["content"] = rel.now]
          /\ work' = [work EXCEPT !.at = "fan", !.part = 1, !.made = 0]
          /\ UNCHANGED jobs
  /\ UNCHANGED <<people, rescans, opts, lost, left>>

\* walkPart: pictures shown inside the message are not attachments.
Attachments(b) == SelectSeq(File[b].parts, LAMBDA p : p \notin File[b].inline)
Parts == Attachments(docs[work.doc].bytes)

\* Attachments are files as well.
ASSUME AttachmentsAssumption == \A b \in DOMAIN File : Attachments(b) \in Seq(DOMAIN File)

\* createEmailAttachmentChild: bytes, row, sources and job of one attachment.
Child(b) ==
  [docs[work.doc] EXCEPT !.st = "live", !.bytes = b, !.enc = "plain", !.plain = FALSE, !.text = "",
     !.asn = None, !.mid = None, !.newer = FALSE, !.hooked = FALSE, !.invoice = FALSE,
     !.ver = [k \in Kinds |-> 0], !.parent = IF work.job.files THEN None ELSE work.doc]

CreateAttachment ==
  /\ At("fan") /\ work.part <= Len(Parts)
  /\ LET b == Parts[work.part]
     IN IF ~Row(work.doc) \/ Copies(b, docs[work.doc].owner) # {}
        THEN UNCHANGED <<docs, jobs>> /\ work' = [work EXCEPT !.part = @ + 1]
        ELSE /\ HasRoom(1) /\ JobRoom(1)
             /\ docs' = [docs EXCEPT ![FreeId] = Child(b)]
             /\ jobs' = Enqueue(jobs, FreeId, FALSE)
             /\ work' = [work EXCEPT !.part = @ + 1, !.made = @ + 1]
  /\ UNCHANGED <<people, rescans, opts, lost, left>>

\* The bytes or the row cannot be written: one line in the log, and on to the next.
AttachmentFails ==
  /\ At("fan") /\ work.part <= Len(Parts) /\ Spend("tool")
  /\ lost' = lost \cup {Parts[work.part]}
  /\ work' = [work EXCEPT !.part = @ + 1]
  /\ UNCHANGED <<docs, jobs, people, rescans, opts>>

\* Mutant: it goes as soon as the first file is there.
FanDoneEarly ==
  /\ At("fan") /\ (work.part > Len(Parts) \/ (work.job.files /\ work.made > 0))
  /\ Goto(IF work.job.files /\ work.made > 0 THEN "drop" ELSE "after")
  /\ UNCHANGED <<docs, jobs, people, rescans, opts, lost, left>>

\* A mail of which only the files were wanted goes once something was filed.
FanDone ==
  /\ At("fan") /\ work.part > Len(Parts)
  /\ Goto(IF work.job.files /\ work.made > 0 THEN "drop" ELSE "after")
  /\ UNCHANGED <<docs, jobs, people, rescans, opts, lost, left>>

-----------------------------------------------------------------------------
(* People.                                                                 *)

\* An upload, a mail or a watched file: DocumentIntake has the ways in.
Arrive(b, owner, files) ==
  /\ Up /\ Spend("arrive") /\ HasRoom(1) /\ JobRoom(1) /\ Copies(b, owner) = {}
  /\ docs' = [docs EXCEPT ![FreeId] = [@ EXCEPT !.st = "live", !.bytes = b, !.owner = owner]]
  /\ jobs' = Enqueue(jobs, FreeId, files)
  /\ UNCHANGED <<work, people, rescans, opts, lost>>

Trash(d) ==
  /\ Up /\ Live(d) /\ Spend("trash")
  /\ docs' = [docs EXCEPT ![d].st = "trashed"]
  /\ UNCHANGED <<jobs, work, people, rescans, opts, lost>>

Restore(d) ==
  /\ Up /\ docs[d].st = "trashed" /\ Copies(docs[d].bytes, docs[d].owner) = {}
  /\ docs' = [docs EXCEPT ![d].st = "live"]
  /\ UNCHANGED <<jobs, work, people, rescans, opts, lost, left>>

Purge(d) ==
  /\ Up /\ docs[d].st = "trashed" /\ Spend("purge")
  /\ docs' = Deleted(docs, d)
  /\ jobs' = {j \in jobs : j.doc # d}
  /\ lost' = lost \cup {docs[d].bytes}
  /\ UNCHANGED <<work, people, rescans, opts>>

\* PATCH archive_serial_number: to a free number, on a current version; or to none.
PatchASN(d, n) ==
  /\ Up /\ Row(d) /\ Spend("asn") /\ docs[d].asn # n
  /\ n # None => Live(d) /\ ~docs[d].newer /\ {e \in Ids \ {d} : Row(e) /\ docs[e].asn = n} = {}
  /\ docs' = [docs EXCEPT ![d].asn = n]
  /\ UNCHANGED <<jobs, work, people, rescans, opts, lost>>

\* The bulk action and the command: any live document, waiting for a password or not.
Rescan(d) ==
  /\ Up /\ Live(d) /\ Spend("rescan") /\ JobRoom(1)
  /\ jobs' = Enqueue(jobs, d, FALSE)
  /\ UNCHANGED <<docs, work, people, rescans, opts, lost>>

\* DecryptBatch: todo in order; the password is kept at the end if asked to.
StartDecrypt(ds, pw, who, batch, remember) ==
  /\ Up /\ Spend("unlock")
  /\ \E d \in Range(ds) : Live(d) /\ docs[d].enc = "encrypted"
  /\ \A d \in Range(ds) : Row(d)
  /\ calls' = calls \cup {[todo |-> ds, pw |-> pw, who |-> who, batch |-> batch,
                           remember |-> remember, opened |-> FALSE]}
  /\ UNCHANGED <<docs, jobs, work, vault, file, rescans, opts, lost>>

\* DecryptDocument: the same for one document.
DecryptDocument(d, pw, who, remember) == StartDecrypt(<<d>>, pw, who, FALSE, remember)

\* Mutant: the document is open, but no job reads it.
AttemptDecryptOnly(c) ==
  /\ Up /\ c \in calls /\ c.todo # <<>>
  /\ LET d == Head(c.todo)
         ok == Live(d) /\ docs[d].enc = "encrypted" /\ Kind(d).pw = c.pw
     IN docs' = IF ok THEN [docs EXCEPT ![d].enc = "decrypted", ![d].plain = TRUE] ELSE docs
  /\ calls' = calls \ {c}
  /\ UNCHANGED <<jobs, work, vault, file, rescans, opts, lost, left>>

\* attemptDecrypt after qpdf; the document must still wait for its password.
AttemptDecrypt(c) ==
  /\ Up /\ c \in calls /\ c.todo # <<>> /\ JobRoom(1)
  /\ LET d == Head(c.todo)
         ok == Live(d) /\ docs[d].enc = "encrypted" /\ Kind(d).pw = c.pw
         next == [c EXCEPT !.todo = Tail(@), !.opened = @ \/ ok,
                           !.who = IF c.batch THEN @ ELSE docs[d].owner]
     IN /\ IF ok THEN /\ docs' = [docs EXCEPT ![d].enc = "decrypted", ![d].plain = TRUE]
                      /\ jobs' = Enqueue(jobs, d, FALSE)
                 ELSE UNCHANGED <<docs, jobs>>
        /\ calls' = (calls \ {c}) \cup
             (IF next.todo # <<>> \/ (next.opened /\ next.remember) THEN {next} ELSE {})
  /\ UNCHANGED <<work, vault, file, rescans, opts, lost, left>>

\* rememberPassword, a transaction of its own: the owner's for one document, the caller's for a batch.
RememberPassword(c) ==
  /\ Up /\ c \in calls /\ c.todo = <<>>
  /\ vault' = vault \cup {[owner |-> c.who, pw |-> c.pw]}
  /\ calls' = calls \ {c}
  /\ UNCHANGED <<docs, jobs, work, file, rescans, opts, lost, left>>

DeleteDecryptionPassword(v) ==
  /\ Up /\ v \in vault /\ Spend("forget")
  /\ vault' = vault \ {v}
  /\ UNCHANGED <<docs, jobs, work, file, calls, rescans, opts, lost>>

\* loadPasswordsFile reads it anew on every run.
EditPasswordsFile(pw) ==
  /\ Up /\ pw \notin file /\ Spend("file")
  /\ file' = file \cup {pw}
  /\ UNCHANGED <<docs, jobs, work, vault, calls, rescans, opts, lost>>

-----------------------------------------------------------------------------
(* Rescan proposals.                                                       *)

Minimum(k) == IF k = "llm" THEN 1 ELSE 0

\* staleColumn with runnableDocumentWhere.
Selected(k, v) ==
  {d \in Ids : Live(d) /\ docs[d].ver[k] < v /\ docs[d].ver[k] >= Minimum(k) /\ docs[d].enc # "encrypted"}

\* proposalWhere: and no job of it is unfinished.
Stale(k, v) == {d \in Selected(k, v) : \A j \in jobs : j.doc # d}

Open(p) == p.run = "running"

\* findPendingRun: the latest.
Pending(k) ==
  LET at == {i \in DOMAIN proposals : Open(proposals[i]) /\ proposals[i].kind = k}
  IN IF at = {} THEN None ELSE CHOOSE i \in at : \A j \in at : j <= i

\* Mutant: only a dismissal whose run has finished counts.
DismissedAndDone(k, v, i) ==
  /\ \E j \in DOMAIN proposals : /\ proposals[j].kind = k /\ proposals[j].ver = v
                                 /\ proposals[j].choice = "dismiss" /\ proposals[j].run = "done"
  /\ i # None => proposals[i].choice \notin {"approve_all", "approve_sample"}

\* Some run of this kind and revision was dismissed, and the pending one is not approved.
Dismissed(k, v, i) ==
  /\ \E j \in DOMAIN proposals : /\ proposals[j].kind = k /\ proposals[j].ver = v
                                 /\ proposals[j].choice = "dismiss"
  /\ i # None => proposals[i].choice \notin {"approve_all", "approve_sample"}

Cancelled(ps, i) == [ps EXCEPT ![i].run = "cancelled"]
Proposed(ps, k, v) == Append(ps, [kind |-> k, ver |-> v, choice |-> "none", run |-> "running"])

\* reconcile: cancel what is obsolete, leave what is open, or ask.
reconcile(k, v) ==
  LET i == Pending(k)
      older == i # None /\ proposals[i].ver < v
      kept == IF older THEN None ELSE i
      base == IF older THEN Cancelled(proposals, i) ELSE proposals
  IN IF i # None /\ proposals[i].ver > v THEN proposals
     ELSE IF Stale(k, v) = {} THEN (IF i = None THEN proposals ELSE Cancelled(proposals, i))
     ELSE IF Dismissed(k, v, kept) THEN (IF kept = None THEN base ELSE Cancelled(base, kept))
     ELSE IF kept # None THEN base
     ELSE Proposed(base, k, v)

\* A crash or an upgrade.  Running jobs are pending again, requests are gone.
Boot(next) ==
  /\ Spend("boot") /\ next.now >= rel.now
  /\ rel' = [rel EXCEPT !.now = next.now, !.rec = next.rec]
  /\ booting' = SetToSeq(Kinds)
  /\ jobs' = {[j EXCEPT !.st = IF @ = "running" THEN "pending" ELSE @] : j \in jobs}
  /\ work' = Idle /\ calls' = {}
  /\ UNCHANGED <<docs, vault, file, proposals, opts, lost>>

\* EnsureProposals, before the dispatcher and the server start; no recommendation changes nothing.
EnsureProposals ==
  /\ ~Up
  /\ proposals' = IF rel.rec[Head(booting)] = 0 THEN proposals
                  ELSE reconcile(Head(booting), rel.rec[Head(booting)])
  /\ booting' = Tail(booting)
  /\ UNCHANGED <<docs, jobs, work, people, rel, opts, lost, left>>

\* An administrator answers: the run goes on in a job of its own.
Resolve(i, choice) ==
  /\ Up /\ Open(proposals[i]) /\ proposals[i].choice = "none"
  /\ proposals' = [proposals EXCEPT ![i].choice = choice]
  /\ UNCHANGED <<docs, jobs, work, people, booting, rel, opts, lost, left>>

\* The engine reaches end or the rescan_enqueue handler: selection and jobs in one batch.
Advance(i) ==
  LET p == proposals[i]
      all == Selected(p.kind, p.ver)
  IN /\ Up /\ ~Running /\ Open(p) /\ p.choice # "none"
     /\ \E picked \in SUBSET all :
          /\ p.choice = "approve_all" => picked = all
          /\ p.choice = "approve_sample" =>
               Cardinality(picked) = (IF Cardinality(all) < Sample THEN Cardinality(all) ELSE Sample)
          /\ p.choice = "dismiss" => picked = {}
          /\ JobRoom(Cardinality(picked))
          /\ jobs' = EnqueueAll(jobs, picked)
     /\ proposals' = [proposals EXCEPT ![i].run = "done"]
     /\ UNCHANGED <<docs, work, people, booting, rel, opts, lost, left>>

\* The classifier stamps its revision (Enrichment).
Classified(d) ==
  /\ Up /\ ~Running /\ "llm" \in Kinds /\ Live(d) /\ docs[d].text # "" /\ docs[d].ver["llm"] < rel.now
  /\ Spend("classify")
  /\ docs' = [docs EXCEPT ![d].ver["llm"] = rel.now]
  /\ UNCHANGED <<jobs, work, people, rescans, opts, lost>>

-----------------------------------------------------------------------------
Blank == [st |-> "none", bytes |-> None, owner |-> None, enc |-> "plain", plain |-> FALSE,
          text |-> "", asn |-> None, newer |-> FALSE, parent |-> None, mid |-> None,
          hooked |-> FALSE, invoice |-> FALSE, ver |-> [k \in Kinds |-> 0]]

\* Documents to start with have been read, wait for a password, or have a job.
ASSUME StartsAssumption ==
  \A s \in Starts :
    /\ s.docs = [d \in Ids |-> s.docs[d]]
    /\ \A d \in Ids :
         /\ s.docs[d] = [x \in DOMAIN Blank |-> s.docs[d][x]] /\ s.docs[d].ver \in [Kinds -> Nat]
         /\ s.docs[d].st \in {"none", "live", "trashed"}
         /\ s.docs[d].st # "none" =>
              /\ s.docs[d].bytes \in DOMAIN File
              /\ \/ s.docs[d].ver["content"] > 0 \/ s.docs[d].enc = "encrypted"
                 \/ \E j \in s.jobs : j.doc = d
    /\ \A j \in s.jobs :
         DOMAIN j = DOMAIN NoJob /\ j.doc \in Ids /\ s.docs[j.doc].st # "none"
    /\ DOMAIN s.rel = {"now", "rec", "may"} /\ s.rel.now \in Nat \ {0}
    /\ \A next \in s.rel.may : next.now \in Nat

Init ==
  \E s \in Starts :
    /\ docs = s.docs /\ jobs = s.jobs /\ opts = s.opts /\ rel = s.rel /\ left = s.left
    /\ vault = {} /\ file = {} /\ calls = {} /\ lost = {}
    /\ work = Idle /\ proposals = <<>> /\ booting = <<>>

Worker ==
  \/ \E j \in jobs : Begin(j)
  \/ Preflight \/ CommitPreflight \/ LoadDoc \/ Route
  \/ \E r, s \in BOOLEAN : PreConsume(r, s)
  \/ GatherCandidates \/ \E r \in BOOLEAN : OpenPDF(r)
  \/ StoreText \/ \E r \in BOOLEAN : StoreInvoice(r)
  \/ After \/ ToolFails
  \/ \E r \in BOOLEAN : ParseMail(r)
  \/ CopySources \/ deleteEmailStagingParent \/ UpdateEmailParent
  \/ CreateAttachment \/ AttachmentFails \/ FanDone

Passwords == {File[b].pw : b \in DOMAIN File} \ {None}

People ==
  \/ \E b \in DOMAIN File, u \in Users, f \in BOOLEAN : Arrive(b, u, f)
  \/ \E d \in Ids : Trash(d) \/ Restore(d) \/ Purge(d) \/ Rescan(d) \/ Classified(d)
  \/ \E d \in Ids, n \in {File[b].scan : b \in DOMAIN File} : PatchASN(d, n)
  \/ \E d \in Ids, pw \in Passwords, u \in Users, r \in BOOLEAN : DecryptDocument(d, pw, u, r)
  \/ \E d, e \in Ids, pw \in Passwords, u \in Users, r \in BOOLEAN :
       d # e /\ StartDecrypt(<<d, e>>, pw, u, TRUE, r)
  \/ \E c \in calls : AttemptDecrypt(c) \/ RememberPassword(c)
  \/ \E v \in vault : DeleteDecryptionPassword(v)
  \/ \E pw \in Passwords : EditPasswordsFile(pw)

Upgrades ==
  \/ \E next \in rel.may : Boot(next)
  \/ EnsureProposals
  \/ \E i \in DOMAIN proposals : Advance(i)
  \/ \E i \in DOMAIN proposals, c \in {"approve_all", "approve_sample", "dismiss"} : Resolve(i, c)

Next == Worker \/ People \/ Upgrades

Spec == Init /\ [][Next]_vars

-----------------------------------------------------------------------------
(* What must hold.                                                         *)

\* No document falls out of the pipeline: a live one has been read, or a job for it is waiting or
\* given up where administrators see it, or it is listed as waiting for a password.  Crashes,
\* trashing before the job ran and restoring after, unlocking and late results included.
NoneForgotten ==
  \A d \in Ids : Live(d) =>
    \/ docs[d].ver["content"] > 0
    \/ docs[d].enc = "encrypted"
    \/ \E j \in jobs : j.doc = d

\* handleEmail: the row of a mail is deleted for good only when the mail is there under the same
\* Message-ID or every attachment is a document; a failure that was logged and what people
\* purged themselves are excused.
RetiredOnlyWhenFiled ==
  [][work.at = "drop" /\ docs'[work.doc] # docs[work.doc] =>
       IF work.other # None
       THEN Row(work.other) \/ docs[work.other].bytes \in lost
       ELSE \A i \in DOMAIN Parts :
              Parts[i] \in lost \/ \E e \in Ids : Row(e) /\ docs[e].bytes = Parts[i]]_vars

\* reconcile: a revision an administrator dismissed is not proposed again, after whatever restarts
\* and upgrades, and no kind has two proposals open.
AskedOnce ==
  [][proposals' # proposals =>
       \A i \in DOMAIN proposals' \ DOMAIN proposals :
         \A j \in DOMAIN proposals :
           proposals[j].kind = proposals'[i].kind =>
             /\ ~Open(proposals'[j])
             /\ ~(proposals[j].ver = proposals'[i].ver /\ proposals[j].choice = "dismiss")]_vars

=============================================================================
