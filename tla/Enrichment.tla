----------------------------- MODULE Enrichment -----------------------------
(***************************************************************************)
(* What the machine says about a document against what people say: the     *)
(* model's classification (plugins/llm-classifier), matching against the   *)
(* archive and rules (core/automations), dates (core/intelligence), the    *)
(* review of proposals (core/approvals/document_change.go), and the edits  *)
(* of people through the API.                                              *)
(*                                                                         *)
(* The job dispatcher has one worker, so two jobs never overlap; requests  *)
(* of people run beside it.  A request to the model takes long: everything *)
(* it was told may have changed when the answer is stored.  The database   *)
(* counts revisions per field (triggers), and an automatic write is bound  *)
(* to the revisions of the moment its inputs were read.                    *)
(*                                                                         *)
(* One document is modelled in full.  The documents it resembles are one   *)
(* number, changed by every edit of any of them.  A field's value is 0     *)
(* (nothing, or what the intake put there) or 1.                           *)
(***************************************************************************)
EXTENDS Naturals, FiniteSets, Sequences

CONSTANTS
  Slots,           \* 1..n: the rules an archive has room for, in their order
  Shapes,          \* what a rule may say: [trigger, ask, needs, acts]
  MaxEnabledAsks,
  Dates,           \* dates the model can find in the text
  Answers,         \* answers of the model: [fields, yes, sure, review, dates]
  NoAnswer,        \* no answer yet
  EnrichStarts     \* what the archive is like at the start: [rules, opts, queue, left]

Fields == {"title", "corr", "cat", "tag", "lang", "custom", "layout"}
Tracked == {"title", "corr", "cat", "tag", "lang", "source"}
InPath == {"title", "corr", "cat", "tag", "layout"}
None == 0

\* What a rule can do: "extend" builds a title on the one that is there, "trash" discards.
Actions ==
  [do: {"assign"}, f: {"title", "corr", "cat", "tag", "custom", "layout", "owner", "trash"}]
  \cup [do: {"remove"}, f: {"corr", "tag", "custom", "layout"}]
  \cup [do: {"extend"}, f: {"title"}]

\* What a rule may do that asks the model first: askActionKinds.
AskActions == [do: {"assign"}, f: {"corr", "cat", "tag", "custom"}]

\* validateDocumentChange: what a change can be about.
Changeable == Fields \ {"layout"}

Books == [Slots -> [shape: (DOMAIN Shapes) \cup {None}, on: BOOLEAN]]

ASSUME EnrichmentAssumption ==
  /\ MaxEnabledAsks \in Nat
  /\ IsFiniteSet(Slots) /\ Slots = 1..Cardinality(Slots)
  /\ None \notin DOMAIN Shapes
  /\ \A s \in DOMAIN Shapes :
       /\ Shapes[s].needs \in Fields \cup {"any"} /\ Shapes[s].ask \in BOOLEAN
       /\ Shapes[s].acts \in Seq(IF Shapes[s].ask THEN AskActions ELSE Actions)
  /\ \A a \in Answers :
       a \in [fields: Seq(Changeable), yes: SUBSET Slots, sure: BOOLEAN, review: BOOLEAN,
              dates: SUBSET Dates]
  /\ \A s \in EnrichStarts :
       /\ s.rules \in Books
       /\ s.left \in [{"edit", "decide", "admin", "other", "fail"} -> Nat]

VARIABLES
  doc,     \* the document: [val, rev, owner, locked, mark, live, said, named]
  near,    \* revision of the documents it resembles
  seat,    \* its owner may enter the archive and see them
  rules,   \* [Slots -> [shape, on]], shape 0 where there is no rule
  conf,    \* the classifier's saved settings: a version, None when disabled
  rt,      \* the running configuration: [ver, ptr], ver = None when disabled
  opts,    \* [auto, match]: apply what is sure; match against the archive
  job,     \* what the worker is doing
  queue,   \* jobs queued for the document: "ingest", "classify"
  runs,    \* rule runs: [Runners -> what is left to do, in order]
  reviews, \* proposals waiting for a person, or accepted and not yet applied
  dates,   \* [Dates -> [st, rev]]
  move,    \* a render job is queued
  shown,   \* what the document's path in the rendered view was made from
  saves,   \* saves of the settings that have not reloaded yet: [mine, at, read]
  faults,  \* what went over the head of a person, or came from old inputs
  left     \* how much of each kind of request may still come

enrichVars == <<doc, near, seat, rules, conf, rt, opts, job, queue, runs, reviews, dates, move,
                shown, saves, faults, left>>
settings == <<conf, rt, opts, saves>>
world == <<near, seat>>

Spend(what) ==
  /\ left[what] > 0
  /\ left' = [left EXCEPT ![what] = @ - 1]

\* EnqueueMove: nothing is queued for a document in the trash.
Queued(moved) == move \/ (moved /\ doc.live)

PathOf(d) == <<[f \in InPath |-> d.val[f]], d.mark = "off">>

-----------------------------------------------------------------------------
(* The document row and the triggers that count its revisions.  said is    *)
(* not in the database: how often people and rules spoke about a field;    *)
(* nor is named: the title is one that a person gave and did not give up.  *)

Bump(d, f) == [d EXCEPT !.rev[f] = @ + 1]
Say(d, f) == [d EXCEPT !.said[f] = @ + 1]

\* A column: every UPDATE that names it counts.
Column(d, f, v) == Bump([d EXCEPT !.val[f] = v], f)

\* A row of document_correspondents or document_tags: only a row that comes or goes counts.
Row(d, f, v) == IF d.val[f] = v THEN d ELSE Column(d, f, v)

\* Custom fields and the folder layout have no revision.
Plain(d, f, v) == [d EXCEPT !.val[f] = v]

Base(d) == [rev |-> d.rev, custom |-> d.val["custom"]]

SameSource(d, base) == d.rev["source"] = base.rev["source"]
SameRevision(d, f, base) == f \in Tracked => d.rev[f] = base.rev[f]

-----------------------------------------------------------------------------
(* Changes that are proposed: core/approvals/document_change.go.           *)

Stale(d, f, base, sup, reviewed) ==
  \/ ~d.live \/ ~SameSource(d, base) \/ ~SameRevision(d, f, base)
  \/ (f = "title" /\ ~reviewed /\ d.owner # "auto")
  \/ (sup # None /\ sup # near)

\* Whether the write changes anything; it is stale otherwise.
Effective(d, f, base, reviewed) ==
  CASE f = "title" -> IF reviewed THEN d.val[f] = 0 \/ d.owner # "human"
                                  ELSE d.val[f] = 0 /\ d.owner = "auto"
    [] f = "lang" -> d.val[f] = 0 \/ d.locked # reviewed
    [] f = "custom" -> d.val[f] = base.custom
    [] f = "corr" -> TRUE
    [] OTHER -> d.val[f] = 0

WriteValue(d, f, reviewed) ==
  CASE f = "title" -> [Column(d, f, 1) EXCEPT !.owner = IF reviewed THEN "human" ELSE "auto",
                                              !.named = reviewed]
    [] f = "lang" -> [Column(d, f, 1) EXCEPT !.locked = reviewed]
    [] f = "cat" -> Column(d, f, 1)
    [] f = "custom" -> Plain(d, f, 1)
    [] OTHER -> Row(d, f, 1)

\* ReconcileDocumentChangesInTx: reviews still open whose ground has shifted are cancelled.
Reconcile(d, rs) ==
  {r \in rs : r.at = "review" => seat /\ ~Stale(d, r.f, r.base, r.sup, FALSE)}

\* A batch of changes inside one transaction.  pend waits until every automatic write is done.
NewBatch(d, rs) == [d |-> d, rs |-> rs, pend |-> {}, claimed |-> {}, moved |-> FALSE, bad |-> {}]

\* Mutant: what was said during the request is not noticed.
ProposeRegardless(acc, f, asked, entry, sup, sure) ==
  IF opts.auto /\ sure
  THEN IF Stale(acc.d, f, Base(acc.d), sup, FALSE) \/ ~Effective(acc.d, f, Base(acc.d), FALSE) THEN acc
       ELSE LET d == WriteValue(acc.d, f, FALSE)
            IN [acc EXCEPT !.d = d, !.rs = Reconcile(d, @), !.moved = TRUE,
                           !.bad = IF asked.said[f] # d.said[f] THEN @ \cup {f} ELSE @]
  ELSE [acc EXCEPT !.pend = @ \cup {[f |-> f, sup |-> sup, said |-> asked.said[f]]}]

\* asked: the document when its inputs were read.  entry: at the start of the transaction.
Propose(acc, f, asked, entry, sup, sure) ==
  IF ~SameRevision(entry, f, Base(asked)) \/ (f = "custom" /\ acc.d.val[f] # asked.val[f])
  THEN acc
  ELSE IF opts.auto /\ sure
  THEN IF Stale(acc.d, f, Base(acc.d), sup, FALSE) \/ ~Effective(acc.d, f, Base(acc.d), FALSE) THEN acc
       ELSE LET d == WriteValue(acc.d, f, FALSE)
            IN [acc EXCEPT !.d = d, !.rs = Reconcile(d, @), !.moved = TRUE,
                           !.bad = IF asked.said[f] # d.said[f] THEN @ \cup {f} ELSE @]
  ELSE [acc EXCEPT !.pend = @ \cup {[f |-> f, sup |-> sup, said |-> asked.said[f]]}]

\* ProposeDocumentChangeInTx, once for every change that was put off.
Proposed(acc) ==
  acc.rs \cup {[f |-> p.f, sup |-> p.sup, said |-> p.said, base |-> Base(acc.d), at |-> "review"] :
                 p \in {q \in acc.pend : ~Stale(acc.d, q.f, Base(acc.d), q.sup, FALSE)}}

-----------------------------------------------------------------------------
(* Rules: core/automations.  A run reads the rules and the document once,  *)
(* then executes each matching rule in a transaction of its own.           *)

Shape(i) == Shapes[rules[i].shape]
Enabled(i) == rules[i].shape # None /\ rules[i].on

\* Steps of a run beside the shapes of the rules it executes.
Load == Len(Shapes) + 1
Render == None

Matches(shape, trigger, d) ==
  shape.trigger = trigger /\ (shape.needs # "any" => d.val[shape.needs] = 1)

\* MatchingQuestionsTx: what the model is asked, and by which rules.
Questions(d) == {<<i, rules[i].shape>> : i \in {j \in Slots :
                   Enabled(j) /\ Shape(j).ask /\ Matches(Shape(j), "added", d)}}

Matching(trigger, d) ==
  LET hit == SelectSeq([i \in Slots |-> i],
                LAMBDA i : Enabled(i) /\ ~Shape(i).ask /\ Matches(Shape(i), trigger, d))
  IN [n \in DOMAIN hit |-> rules[hit[n]].shape]

\* A title that a person gave, or a rule that builds on the title it already set, is left alone.
SkipTitle(d, a) == a.f = "title" /\ (d.owner = "human" \/ (d.owner = "rule" /\ a.do = "extend"))

RuleTitle(d) == IF d.owner = "human" \/ (d.val["title"] = 1 /\ d.owner = "rule") THEN d
                ELSE [Column(d, "title", 1) EXCEPT !.owner = "rule"]

\* The actions that give a value.
Assign(d, f) ==
  CASE f = "title" -> RuleTitle(d)
    [] f = "cat" -> Column(d, f, 1)
    [] f \in {"corr", "tag"} -> Row(d, f, 1)
    [] f \in {"custom", "layout"} -> Plain(d, f, 1)
    [] f = "owner" -> Bump(d, "source")
    [] f = "trash" -> [d EXCEPT !.live = FALSE]

\* Removing counts even when there is nothing to remove.
TakeAway(d, f) == IF f \in {"tag", "corr"} THEN Bump(Row(d, f, 0), f) ELSE Plain(d, f, 0)

Execute(d, a) ==
  LET e == IF a.do = "remove" THEN TakeAway(d, a.f) ELSE Assign(d, a.f)
  IN IF a.f \in Fields THEN Say(e, a.f) ELSE e

\* The actions of a rule, in one transaction: one that fails undoes them all.  Only "discard"
\* may touch a document in the trash.
Acted(acc, a) ==
  IF ~acc.ok \/ SkipTitle(acc.d, a) THEN acc
  ELSE IF ~acc.d.live /\ a.f # "trash" THEN [acc EXCEPT !.ok = FALSE]
  ELSE [acc EXCEPT !.d = Execute(@, a)]

ActOn(d, acts) ==
  LET did[n \in 0..Len(acts)] ==
        IF n = 0 THEN [ok |-> TRUE, d |-> d] ELSE Acted(did[n - 1], acts[n])
  IN  did[Len(acts)]

\* Mutant: assigning a category forgets the rendered view.
MovedByRow(d, e) == \E f \in InPath \ {"cat"} : d.val[f] # e.val[f]

\* Every action queues a move where it changed something the path is made from.
Moved(d, e) == \E f \in InPath \cup {"owner"} :
                 IF f = "owner" THEN d.rev["source"] # e.rev["source"] ELSE d.val[f] # e.val[f]

Runners == {"job", "patch", "refile"}

RunRule(who) ==
  /\ runs[who] # <<>> /\ Head(runs[who]) \in DOMAIN Shapes
  /\ LET did == ActOn(doc, Shapes[Head(runs[who])].acts)
     IN IF did.ok
        THEN /\ doc' = did.d /\ move' = Queued(Moved(doc, did.d))
             /\ runs' = [runs EXCEPT ![who] = Tail(@)]
        ELSE /\ runs' = [runs EXCEPT ![who] = <<>>]
             /\ UNCHANGED <<doc, move>>
  /\ UNCHANGED <<rules, job, queue, reviews, dates, shown, faults, left, settings, world>>

TriggerOf(who) ==
  CASE who = "patch" -> "updated"
    [] who = "refile" -> "added"
    [] OTHER -> IF job.at = "consume" THEN "consumption" ELSE "added"

LoadRules(who) ==
  /\ runs[who] # <<>> /\ Head(runs[who]) = Load
  /\ runs' = [runs EXCEPT ![who] = Matching(TriggerOf(who), doc) \o Tail(@)]
  /\ UNCHANGED <<doc, rules, job, queue, reviews, dates, move, shown, faults, left, settings, world>>

\* core/refile: the rules of a new document once more, then a render job.
Refile ==
  /\ Spend("admin") /\ runs["refile"] = <<>>
  /\ runs' = [runs EXCEPT !["refile"] = <<Load, Render>>]
  /\ UNCHANGED <<doc, rules, job, queue, reviews, dates, move, shown, faults, settings, world>>

RefileRender ==
  /\ runs["refile"] # <<>> /\ Head(runs["refile"]) = Render
  /\ runs' = [runs EXCEPT !["refile"] = <<>>] /\ move' = Queued(TRUE)
  /\ UNCHANGED <<doc, rules, job, queue, reviews, dates, shown, faults, left, settings, world>>

\* The administrator who started it is one no longer: the next transaction refuses.
RefileDenied ==
  /\ Spend("admin") /\ runs["refile"] # <<>> /\ Head(runs["refile"]) # Load
  /\ runs' = [runs EXCEPT !["refile"] = <<>>]
  /\ UNCHANGED <<doc, rules, job, queue, reviews, dates, move, shown, faults, settings, world>>

\* findMatching: no two rules say the same.
NoneMatching(book) ==
  \A i, j \in Slots : i # j /\ book[i].shape # None => book[i].shape # book[j].shape

\* validateAskLimit: only so many may ask the model.
AskLimit(book) ==
  Cardinality({i \in Slots : book[i].shape # None /\ book[i].on /\ Shapes[book[i].shape].ask})
    <= MaxEnabledAsks

PutRule(i, shape, on) ==
  /\ Spend("admin")
  /\ rules' = [rules EXCEPT ![i] = [shape |-> shape, on |-> on]]
  /\ rules' # rules /\ NoneMatching(rules') /\ AskLimit(rules')
  /\ UNCHANGED <<doc, job, queue, runs, reviews, dates, move, shown, faults, settings, world>>

CreateRule(i, shape) == rules[i].shape = None /\ PutRule(i, shape, TRUE)
UpdateRule(i, shape, on) == rules[i].shape # None /\ PutRule(i, shape, on)
DeleteRule(i) == rules[i].shape # None /\ PutRule(i, None, FALSE)

-----------------------------------------------------------------------------
(* People: core/api.                                                       *)

\* reconcileClassifierReview, in the transaction of the edit; the rules follow its commit.
Edited(d, moved) ==
  LET e == [d EXCEPT !.mark = IF @ = "machine" THEN "off" ELSE @]
  IN /\ runs["patch"] = <<>>
     /\ doc' = e /\ reviews' = Reconcile(e, reviews)
     /\ move' = Queued(moved \/ d.mark = "machine")
     /\ runs' = [runs EXCEPT !["patch"] = <<Load>>]
     /\ UNCHANGED <<rules, job, queue, dates, shown, faults, settings, world>>

Named(d, v, owner) == [Say(Column(d, "title", v), "title") EXCEPT !.owner = owner, !.named = (owner = "human")]

PatchTitle(v, owner) == Spend("edit") /\ Edited(Named(doc, v, owner), TRUE)

\* title_owner alone: the title is the machine's again.
PatchTitleOwner ==
  Spend("edit") /\ doc.owner # "auto" /\ Edited([doc EXCEPT !.owner = "auto", !.named = FALSE], FALSE)

PatchCategory(v) == Spend("edit") /\ Edited(Say(Column(doc, "cat", v), "cat"), TRUE)

\* Naming a language locks it, naming none unlocks it.
PatchLanguages(v) ==
  Spend("edit") /\ Edited([Say(Column(doc, "lang", v), "lang") EXCEPT !.locked = (v = 1)], FALSE)

PatchLayout(v) == Spend("edit") /\ Edited(Say(Plain(doc, "layout", v), "layout"), TRUE)

BulkCorrespondent(v) ==
  Spend("edit") /\ Edited(Say(Row(doc, "corr", v), "corr"), doc.val["corr"] # v)

BulkAddTag ==
  Spend("edit") /\ Edited(Say(Row(doc, "tag", 1), "tag"), doc.val["tag"] = 0)

BulkRemoveTag ==
  Spend("edit") /\ Edited(Say(Bump(Row(doc, "tag", 0), "tag"), "tag"), doc.val["tag"] = 1)

\* Bulk edits of the tag needs-review itself: adding it takes it from the classifier.
BulkKeepMark ==
  /\ Spend("edit") /\ doc.mark # "kept"
  /\ Edited([Bump(doc, "tag") EXCEPT !.mark = "kept"], doc.mark = "off")

BulkDropMark ==
  /\ Spend("edit")
  /\ Edited([Bump(doc, "tag") EXCEPT !.mark = "off"], doc.mark # "off")

BulkTrash ==
  /\ Spend("edit") /\ doc.live
  /\ doc' = [doc EXCEPT !.live = FALSE] /\ reviews' = Reconcile(doc', reviews)
  /\ UNCHANGED <<rules, job, queue, runs, dates, move, shown, faults, settings, world>>

BulkRestore ==
  /\ Spend("edit") /\ ~doc.live
  /\ doc' = [doc EXCEPT !.live = TRUE] /\ move' = TRUE
  /\ UNCHANGED <<rules, job, queue, runs, reviews, dates, shown, faults, settings, world>>

\* Edits that neither reconcile nor run rules.
Noted(d, moved) ==
  /\ Spend("edit") /\ doc' = d /\ move' = Queued(moved)
  /\ UNCHANGED <<rules, job, queue, runs, reviews, dates, shown, faults, settings, world>>

AddDocCorrespondent == doc.live /\ Noted(Say(Row(doc, "corr", 1), "corr"), TRUE)
RemoveDocCorrespondent ==
  doc.live /\ doc.val["corr"] = 1 /\ Noted(Say(Row(doc, "corr", 0), "corr"), TRUE)

SetCustomField == Noted(Say(Plain(doc, "custom", 1), "custom"), FALSE)
DeleteCustomField == Noted(Say(Plain(doc, "custom", 0), "custom"), FALSE)

\* A person decides about a review; the engine applies it in a later step of its own.
AcceptReview(r) ==
  /\ Spend("decide") /\ r.at = "review"
  /\ reviews' = (reviews \ {r}) \cup {[r EXCEPT !.at = "apply"]}
  /\ UNCHANGED <<doc, rules, job, queue, runs, dates, move, shown, faults, settings, world>>

RejectReview(r) ==
  /\ Spend("decide") /\ r.at = "review"
  /\ reviews' = reviews \ {r}
  /\ UNCHANGED <<doc, rules, job, queue, runs, dates, move, shown, faults, settings, world>>

\* applyDocumentChange: checked once more; a stale one fails and its run ends.
ApplyReview(r) ==
  /\ job.at = "idle" /\ r.at = "apply"
  /\ IF seat /\ ~Stale(doc, r.f, r.base, r.sup, TRUE) /\ Effective(doc, r.f, r.base, TRUE)
     THEN LET d == WriteValue(doc, r.f, TRUE)
          IN /\ doc' = d /\ reviews' = Reconcile(d, reviews \ {r}) /\ move' = Queued(TRUE)
             /\ faults' = IF r.said # doc.said[r.f] THEN faults \cup {r.f} ELSE faults
     ELSE reviews' = reviews \ {r} /\ UNCHANGED <<doc, move, faults>>
  /\ UNCHANGED <<rules, job, queue, runs, dates, shown, left, settings, world>>

\* ResolveIntelligence: accepting needs the text the date was found in.
AcceptDate(x) ==
  /\ Spend("decide") /\ dates[x].st = "pending" /\ doc.live
  /\ dates[x].rev = doc.rev["source"]
  /\ dates' = [dates EXCEPT ![x].st = "accepted"]
  /\ faults' = IF dates[x].rev # doc.rev["source"] THEN faults \cup {"date"} ELSE faults
  /\ UNCHANGED <<doc, rules, job, queue, runs, reviews, move, shown, settings, world>>

RejectDate(x) ==
  /\ Spend("decide") /\ dates[x].st = "pending" /\ doc.live
  /\ dates' = [dates EXCEPT ![x].st = "rejected"]
  /\ UNCHANGED <<doc, rules, job, queue, runs, reviews, move, shown, faults, settings, world>>

\* ExtractIntelligence: the document is processed once more.
ExtractIntelligence ==
  /\ Spend("decide") /\ doc.live
  /\ queue' = queue \cup {"ingest"}
  /\ UNCHANGED <<doc, rules, job, runs, reviews, dates, move, shown, faults, settings, world>>

-----------------------------------------------------------------------------
(* Settings.  A save writes, then reloads: reads what is saved and puts it *)
(* in force, without a lock around the two.                                *)

\* Runtimes are told apart by their address: one made at the start, one by every reload.
FirstRuntime == 1
Built == left["admin"] + FirstRuntime

SaveLLMSettings(enabled) ==
  /\ Spend("admin")
  /\ conf' = IF enabled THEN Built ELSE None
  /\ saves' = saves \cup {[mine |-> Built, at |-> "saved", read |-> None]}
  /\ UNCHANGED <<doc, rules, rt, opts, job, queue, runs, reviews, dates, move, shown, faults, world>>

ReloadReads(s) ==
  /\ s.at = "saved"
  /\ saves' = (saves \ {s}) \cup {[s EXCEPT !.at = "read", !.read = conf]}
  /\ UNCHANGED <<doc, rules, conf, rt, opts, job, queue, runs, reviews, dates, move, shown, faults, left, world>>

\* SetConfig makes a new runtime, Disable takes it away.
ReloadStores(s) ==
  /\ s.at = "read"
  /\ rt' = [ver |-> s.read, ptr |-> IF s.read = None THEN None ELSE s.mine]
  /\ saves' = saves \ {s}
  /\ UNCHANGED <<doc, rules, conf, opts, job, queue, runs, reviews, dates, move, shown, faults, left, world>>

PatchLLMSettings(o) ==
  /\ Spend("admin") /\ opts' = [opts EXCEPT ![o] = ~@]
  /\ UNCHANGED <<doc, rules, conf, rt, job, queue, runs, reviews, dates, move, shown, saves, faults, world>>

-----------------------------------------------------------------------------
(* The worker.                                                             *)

NewDoc ==
  [val |-> [f \in Fields |-> 0], rev |-> [f \in Tracked |-> 0], owner |-> "auto", locked |-> FALSE,
   mark |-> "off", live |-> TRUE, named |-> FALSE, said |-> [f \in Fields |-> 0]]

Sleep == [at |-> "idle", ptr |-> None, asked |-> NewDoc, near |-> None, qs |-> {}, by |-> None,
          ans |-> NoAnswer]

JobDone(kind, also) ==
  /\ job' = Sleep /\ queue' = (queue \ {kind}) \cup also

\* A job that failed is tried again, or given up after its last attempt.
JobFails(kind) ==
  /\ job' = Sleep /\ queue' \in {queue, queue \ {kind}}

Goto(at) == job' = [job EXCEPT !.at = at]

TakeIngest ==
  /\ job.at = "idle" /\ "ingest" \in queue
  /\ IF doc.live THEN Goto("consume") /\ runs' = [runs EXCEPT !["job"] = <<Load>>] /\ UNCHANGED queue
                 ELSE JobFails("ingest") /\ UNCHANGED runs
  /\ UNCHANGED <<doc, rules, reviews, dates, move, shown, faults, left, settings, world>>

\* The text is extracted and stored: updateDocWithSource.
StoreContent ==
  /\ job.at = "consume" /\ runs["job"] = <<>>
  /\ IF doc.live THEN Goto("lang") /\ doc' = Bump(doc, "source") /\ UNCHANGED queue
                 ELSE JobFails("ingest") /\ UNCHANGED doc
  /\ UNCHANGED <<rules, runs, reviews, dates, move, shown, faults, left, settings, world>>

DetectLanguages ==
  /\ job.at = "lang"
  /\ job' = [job EXCEPT !.asked = doc, !.at = IF doc.live /\ ~doc.locked THEN "detected" ELSE "archive"]
  /\ UNCHANGED <<doc, rules, queue, runs, reviews, dates, move, shown, faults, left, settings, world>>

\* Only a proposal, bound to the state the text was read in; an error is logged.
ProposeLanguage ==
  /\ job.at = "detected" /\ Goto("archive")
  /\ reviews' = reviews \cup
       {[f |-> "lang", sup |-> None, said |-> job.asked.said["lang"], base |-> Base(job.asked), at |-> "review"] :
          x \in {y \in {1} : seat /\ ~Stale(doc, "lang", Base(job.asked), None, FALSE)}}
  /\ UNCHANGED <<doc, rules, queue, runs, dates, move, shown, faults, left, settings, world>>

ReadArchiveInput ==
  /\ job.at = "archive"
  /\ IF opts.match /\ doc.live /\ seat
     THEN job' = [job EXCEPT !.at = "matched", !.asked = doc, !.near = near] /\ UNCHANGED runs
     ELSE Goto("added") /\ runs' = [runs EXCEPT !["job"] = <<Load>>]
  /\ UNCHANGED <<doc, rules, queue, reviews, dates, move, shown, faults, left, settings, world>>

\* What the neighbours agree on, of the fields that are still empty.
ProposeArchiveInput(fields, sure) ==
  /\ job.at = "matched"
  /\ Goto("added") /\ runs' = [runs EXCEPT !["job"] = <<Load>>]
  /\ IF opts.match /\ doc.live /\ doc.rev = job.asked.rev /\ near = job.near /\ seat
     THEN LET Put(b, f) == IF f \in fields /\ doc.val[f] = 0
                           THEN Propose(b, f, job.asked, doc, near, sure) ELSE b
              acc == Put(Put(Put(NewBatch(doc, reviews), "cat"), "corr"), "tag")
          IN /\ doc' = acc.d /\ reviews' = Proposed(acc) /\ move' = Queued(acc.moved)
             /\ faults' = faults \cup acc.bad
     ELSE UNCHANGED <<doc, reviews, move, faults>>
  /\ UNCHANGED <<rules, queue, dates, shown, left, settings, world>>

\* The document is rendered at once, and handed to the classifier where there is one.
FinishIngest ==
  /\ job.at = "added" /\ runs["job"] = <<>>
  /\ shown' = IF doc.live THEN PathOf(doc) ELSE shown
  /\ JobDone("ingest", IF rt.ver # None THEN {"classify"} ELSE {})
  /\ UNCHANGED <<doc, rules, runs, reviews, dates, move, faults, left, settings, world>>

RenderJob ==
  /\ job.at = "idle" /\ move /\ move' = FALSE
  /\ shown' = IF doc.live THEN PathOf(doc) ELSE shown
  /\ UNCHANGED <<doc, rules, job, queue, runs, reviews, dates, faults, left, settings, world>>

TakeClassify ==
  /\ job.at = "idle" /\ "classify" \in queue
  /\ IF rt.ver = None THEN JobDone("classify", {})
                      ELSE job' = [job EXCEPT !.at = "load", !.ptr = rt.ptr] /\ UNCHANGED queue
  /\ UNCHANGED <<doc, rules, runs, reviews, dates, move, shown, faults, left, settings, world>>

LoadClassify ==
  /\ job.at = "load"
  /\ IF doc.live /\ seat
     THEN /\ job' = [job EXCEPT !.at = "asking", !.asked = doc, !.near = near, !.qs = Questions(doc)]
          /\ UNCHANGED queue
     ELSE JobFails("classify")
  /\ UNCHANGED <<doc, rules, runs, reviews, dates, move, shown, faults, left, settings, world>>

\* validAutomationAnswers: what was not asked is not answered.
ValidAnswer(a) == [a EXCEPT !.yes = @ \cap {q[1] : q \in job.qs}]

\* The configuration in force when the request is made is the one that answers.
Classify ==
  /\ job.at = "asking"
  /\ IF rt.ver = None THEN JobDone("classify", {})
     ELSE \E a \in Answers :
            /\ job' = [job EXCEPT !.at = "answered", !.by = rt.ptr, !.ans = ValidAnswer(a)]
            /\ UNCHANGED queue
  /\ UNCHANGED <<doc, rules, runs, reviews, dates, move, shown, faults, left, settings, world>>

\* The provider is out of reach or answers nonsense.
ClassifyFails ==
  /\ job.at = "asking" /\ rt.ver # None /\ Spend("fail") /\ JobFails("classify")
  /\ UNCHANGED <<doc, rules, runs, reviews, dates, move, shown, faults, settings, world>>

\* Whether a change is put forward: nothing that is already there, and each thing once.
Open(acc, a) ==
  /\ a.f \notin acc.claimed
  /\ CASE a.f = "title" -> doc.owner = "auto" /\ job.asked.val["title"] = 0
       [] a.f = "tag" -> acc.d.val["tag"] = 0
       [] a.f = "lang" -> ~doc.locked /\ doc.val["lang"] = 0
       [] a.f = "custom" -> job.asked.val["custom"] = 0
       [] OTHER -> doc.val[a.f] = 0

Answered(acc, a) ==
  IF ~Open(acc, a) THEN acc
  ELSE LET next == Propose(acc, a.f, job.asked, doc, job.near, job.ans.sure)
       IN IF a.do = "model" THEN next ELSE [next EXCEPT !.claimed = @ \cup {a.f}]

AnsweredAll(acc, acts) ==
  LET did[n \in 0..Len(acts)] == IF n = 0 THEN acc ELSE Answered(did[n - 1], acts[n])
  IN  did[Len(acts)]

\* The changes of one answer, in the order of the code: what the rules that asked say to a
\* "yes", then what the model says itself.
AnswerRules(yes) ==
  LET did[i \in 0..Cardinality(Slots)] ==
        IF i = 0 THEN NewBatch(doc, reviews)
        ELSE IF i \in yes THEN AnsweredAll(did[i - 1], Shape(i).acts) ELSE did[i - 1]
  IN  did[Cardinality(Slots)]

AnswerChanges(yes, fields) ==
  AnsweredAll(AnswerRules(yes), [n \in DOMAIN fields |-> [do |-> "model", f |-> fields[n]]])

\* replaceDateCandidatesInTx: what was pending goes, what was decided stays.
NewDates ==
  [x \in Dates |->
    IF dates[x].st \in {"accepted", "rejected"} THEN dates[x]
    ELSE IF x \notin job.ans.dates THEN [st |-> "none", rev |-> 0]
    ELSE [st |-> IF opts.auto /\ job.ans.sure THEN "accepted" ELSE "pending", rev |-> job.asked.rev["source"]]]

SameQuestions == Questions(doc) = job.qs /\ doc.rev["title"] = job.asked.rev["title"]

\* needs-review: put on while anything waits, taken off only by an answer that is sure of itself
\* about tags nobody touched.
NewMark(d, rs, ds) ==
  IF rs # {} \/ \E x \in Dates : ds[x].st = "pending"
  THEN IF d.mark = "off" THEN "machine" ELSE d.mark
  ELSE IF d.mark = "machine" /\ job.ans.sure /\ ~job.ans.review
            /\ doc.rev["tag"] = job.asked.rev["tag"] THEN "off" ELSE d.mark

\* checkNamingContext: the owner and the neighbours whose titles the model was shown.
NamingUnchanged == seat /\ near = job.near

\* Mutant: the runtime is not compared.
UsableFromAnyModel == doc.live /\ SameSource(doc, Base(job.asked)) /\ NamingUnchanged

\* Every input of the request, as it was: model, text, owner, neighbours.
Usable ==
  /\ rt.ptr = job.ptr
  /\ doc.live /\ SameSource(doc, Base(job.asked)) /\ NamingUnchanged

CommitAnswer ==
  /\ job.at = "answered" /\ Usable
  /\ LET yes == IF SameQuestions THEN job.ans.yes ELSE {}
         acc == AnswerChanges(yes, job.ans.fields)
     IN /\ reviews' = Proposed(acc) /\ dates' = NewDates
        /\ doc' = [acc.d EXCEPT !.mark = NewMark(acc.d, reviews', dates')]
        /\ faults' = faults \cup acc.bad \cup {w \in {"model", "context", "question"} :
             CASE w = "model" -> job.by # rt.ptr
               [] w = "context" -> job.near # near \/ job.asked.rev["source"] # doc.rev["source"]
               [] OTHER -> yes # {} /\ ~(job.qs \subseteq {<<i, rules[i].shape>> : i \in Slots})}
  /\ move' = Queued(TRUE) /\ JobDone("classify", {})
  /\ UNCHANGED <<rules, runs, shown, left, settings, world>>

RefuseAnswer ==
  /\ job.at = "answered" /\ ~Usable /\ JobFails("classify")
  /\ UNCHANGED <<doc, rules, runs, reviews, dates, move, shown, faults, left, settings, world>>

-----------------------------------------------------------------------------
(* The rest of the archive.                                                *)

NeighbourChanges ==
  /\ Spend("other") /\ near' = near + 1
  /\ UNCHANGED <<doc, seat, rules, job, queue, runs, reviews, dates, move, shown, faults, settings>>

OwnerSeat ==
  /\ Spend("other") /\ seat' = ~seat
  /\ UNCHANGED <<doc, near, rules, job, queue, runs, reviews, dates, move, shown, faults, settings>>

\* The process stops and starts: the job under way is queued again, requests are gone, open
\* reviews are reconciled.
Restart ==
  /\ Spend("fail") /\ reviews' = Reconcile(doc, reviews) /\ job' = Sleep /\ runs' = [r \in Runners |-> <<>>]
  /\ saves' = {} /\ rt' = [ver |-> conf, ptr |-> IF conf = None THEN None ELSE FirstRuntime]
  /\ UNCHANGED <<doc, rules, conf, opts, queue, dates, move, shown, faults, world>>

EnrichInit ==
  \E start \in EnrichStarts :
    /\ doc = NewDoc /\ near = 1 /\ seat = TRUE
    /\ rules = start.rules /\ opts = start.opts /\ queue = start.queue /\ left = start.left
    /\ conf = FirstRuntime /\ rt = [ver |-> FirstRuntime, ptr |-> FirstRuntime] /\ saves = {}
    /\ job = Sleep /\ runs = [r \in Runners |-> <<>>]
    /\ reviews = {} /\ dates = [x \in Dates |-> [st |-> "none", rev |-> 0]]
    /\ move = FALSE /\ shown = PathOf(doc) /\ faults = {}

RuleEdits ==
  \E i \in Slots : \/ \E s \in DOMAIN Shapes : CreateRule(i, s)
                   \/ \E s \in DOMAIN Shapes, on \in BOOLEAN : UpdateRule(i, s, on)
                   \/ DeleteRule(i)

HumanEdits ==
  \/ \E v \in {0, 1} :
       \/ \E o \in {"human", "auto"} : PatchTitle(v, o)
       \/ PatchCategory(v) \/ PatchLanguages(v) \/ PatchLayout(v)
       \/ BulkCorrespondent(v)
  \/ AddDocCorrespondent \/ RemoveDocCorrespondent \/ SetCustomField \/ DeleteCustomField
  \/ PatchTitleOwner \/ BulkAddTag \/ BulkRemoveTag \/ BulkKeepMark \/ BulkDropMark
  \/ BulkTrash \/ BulkRestore

Decisions ==
  \/ \E r \in reviews : AcceptReview(r) \/ RejectReview(r) \/ ApplyReview(r)
  \/ \E x \in Dates : AcceptDate(x) \/ RejectDate(x)
  \/ ExtractIntelligence

Settings ==
  \/ \E on \in BOOLEAN : SaveLLMSettings(on)
  \/ \E s \in saves : ReloadReads(s) \/ ReloadStores(s)
  \/ \E o \in {"auto", "match"} : PatchLLMSettings(o)

Worker ==
  \/ TakeIngest \/ StoreContent \/ DetectLanguages \/ ProposeLanguage \/ ReadArchiveInput
  \/ \E fs \in SUBSET {"cat", "corr", "tag"}, sure \in BOOLEAN : ProposeArchiveInput(fs, sure)
  \/ FinishIngest \/ RenderJob
  \/ TakeClassify \/ LoadClassify \/ Classify \/ ClassifyFails
  \/ CommitAnswer \/ RefuseAnswer

EnrichNext ==
  \/ Worker \/ HumanEdits \/ Decisions \/ Settings \/ RuleEdits
  \/ \E who \in Runners : LoadRules(who) \/ RunRule(who)
  \/ Refile \/ RefileRender \/ RefileDenied
  \/ NeighbourChanges \/ OwnerSeat \/ Restart

EnrichSpec == EnrichInit /\ [][EnrichNext]_enrichVars

-----------------------------------------------------------------------------
(* Properties.                                                             *)

\* What a person or a rule said about a title, category, tag or language while a request was
\* under way, or while a proposal was waiting, is never overwritten by its result - not even
\* where the value was set and put back meanwhile (handler.go:173, document_change.go:260).
PeopleWin == faults \cap {"title", "cat", "tag", "lang"} = {}

\* An answer is stored only under the model, text, neighbours and questions that produced it,
\* and a date is accepted only while the text that proves it is there (handler.go:139-160,
\* intelligence.go:536).
AnswerIsCurrent == faults \cap {"model", "context", "question", "date"} = {}

\* Whoever changed it, a live document is where its fields say, or a render job is queued
\* (view.EnqueueMove in every writer).
PathFollows == doc.live /\ ~move => shown = PathOf(doc)

=============================================================================
