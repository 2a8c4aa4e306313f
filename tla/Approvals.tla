----------------------------- MODULE Approvals -----------------------------
(***************************************************************************)
(* The approvals engine (core/approvals): runs of a state machine that are *)
(* advanced by approval:advance jobs, parked on tasks for people, and      *)
(* timed out by a sweep job that schedules its own successor.  One         *)
(* definition is the administrator's, the other is the built-in            *)
(* document-change review, whose effect writes to the document.            *)
(*                                                                         *)
(* The dispatcher is serial, so jobs never overlap; but an advance reads   *)
(* the run outside its write transaction, and people resolve, cancel,      *)
(* edit, trash and purge in between.  Every queued advance and every task  *)
(* carries the run's revision, which is what keeps the late ones harmless. *)
(* A transaction is one step: SQLite has one writer.                       *)
(***************************************************************************)
EXTENDS Naturals, FiniteSets

CONSTANTS
  Flow,         \* the Spec an administrator registered
  Docs,         \* documents
  Sessions,     \* credentials that may review every document
  MaxAttempts,  \* jobs.MaxAttempts
  MaxRuns,      \* bound: runs ever started
  MaxRev,       \* bound: revisions at which people and clocks still act
  Bounds,       \* bounds: starts by hand, acts of people, mishaps and retries
  NoRun, NoWork

RunIds == 1..MaxRuns

(* document_change.go: the only definition that may hold the kind "change" *)
DocumentChangeSpec ==
  [start  |-> "review",
   states |-> [review |-> [kind |-> "approve", choices |-> {"apply", "reject"}, timed |-> FALSE,
                           on |-> [apply |-> "apply", reject |-> "end"]],
               apply  |-> [kind |-> "change", choices |-> {}, timed |-> FALSE,
                           on |-> [success |-> "end"]],
               end    |-> [kind |-> "end", choices |-> {}, timed |-> FALSE, on |-> <<>>]]]

(* Spec.Validate.  It asks for a transition on every choice, and for none  *)
(* on a timeout.  A definition that starts at its end is left out: its     *)
(* runs are finalized by the first advance and do nothing else.            *)
Validate(spec) ==
  /\ spec.start \in DOMAIN spec.states
  /\ \A k \in DOMAIN spec.states : LET s == spec.states[k] IN
       /\ s.kind = "approve" => s.choices # {} /\ s.choices \subseteq DOMAIN s.on
       /\ s.kind = "end" => DOMAIN s.on = {}
       /\ \A e \in DOMAIN s.on : e # "" /\ s.on[e] \in DOMAIN spec.states

ASSUME FlowAssumption ==
  /\ Validate(Flow) /\ Flow.states[Flow.start].kind # "end" /\ Validate(DocumentChangeSpec)
  /\ \A k \in DOMAIN Flow.states : Flow.states[k].kind \in {"system", "approve", "end"}
  /\ MaxAttempts \in Nat \ {0}
  /\ MaxRuns \in Nat /\ MaxRev \in Nat
  /\ Bounds \in [{"starts", "acts", "mishaps"} -> Nat]

Choices == DocumentChangeSpec.states["review"].choices
             \cup UNION {Flow.states[k].choices : k \in DOMAIN Flow.states}

(* approval_runs and approval_tasks                                        *)
Runs == [def: {"flow", "change"}, doc: Docs, status: {"running", "done", "failed", "cancelled"},
         at: DOMAIN Flow.states \cup DOMAIN DocumentChangeSpec.states, rev: Nat,
         deadline: {"none", "armed", "due"}, base: Nat]
Tasks == [run: RunIds, at: DOMAIN Flow.states \cup {"review"}, rev: Nat,
          status: {"open", "resolved", "expired"}, choice: Choices \cup {""}, by: Sessions \cup {""}]

(* Advance jobs carry their run, what triggered them and the revision they *)
(* are for; the sweep has no run                                           *)
Jobs == [run: RunIds \cup {0}, trigger: Choices \cup {"", "sweep", "timeout"}, rev: Nat,
         state: {"pending", "running", "dead"}, attempts: 0..MaxAttempts]

ASSUME MarkersAssumption == NoRun \notin Runs

VARIABLES
  docs,      \* documents: live, in the trash or purged, and their generation
  runs,      \* approval_runs
  lastRun,   \* its AUTOINCREMENT counter
  tasks,     \* approval_tasks
  jobs,      \* jobs of the kinds approval:advance and approval:timeout-sweep
  work,      \* the job that is being handled
  sessions,  \* the credentials that are still good
  up,        \* the server runs
  spent,     \* how much of each bound is used up
  applied    \* history: how often each run wrote to its document

vars == <<docs, runs, lastRun, tasks, jobs, work, sessions, up, spent, applied>>

-----------------------------------------------------------------------------
SpecOf(run) == IF run.def = "flow" THEN Flow ELSE DocumentChangeSpec
StateOf(run) == SpecOf(run).states[run.at]
DeadlineOf(spec, key) == IF spec.states[key].timed THEN "armed" ELSE "none"

(* base is the generation of the document a review was proposed for       *)
NewRun(def, d) ==
  LET spec == IF def = "flow" THEN Flow ELSE DocumentChangeSpec
  IN  [def |-> def, doc |-> d, status |-> "running", at |-> spec.start, rev |-> 0,
       deadline |-> DeadlineOf(spec, spec.start), base |-> docs[d].gen]

Running(rs, r) == rs[r] # NoRun /\ rs[r].status = "running"
AdvanceJob(r, trigger, rev) ==
  [run |-> r, trigger |-> trigger, rev |-> rev, state |-> "pending", attempts |-> 0]
SweepJob(k) == AdvanceJob(0, "sweep", k)
IsSweep(j) == j.run = 0

(* checkDocumentChange, for one field of one document                     *)
Fresh(ds, run) == ds[run.doc].state = "live" /\ ds[run.doc].gen = run.base

(* finalizeRun                                                             *)
Finalized(rs, S, status) == [r \in RunIds |-> IF r \in S THEN [rs[r] EXCEPT !.status = status] ELSE rs[r]]
(* expireOpenTasksForRun                                                   *)
Expired(ts, S) == {IF t.run \in S /\ t.status = "open" THEN [t EXCEPT !.status = "expired"] ELSE t : t \in ts}

(* reconcileDocumentChangesInTx: the running reviews of documents in D     *)
(* that can no longer be applied                                           *)
StaleReviews(rs, ds, D) ==
  {r \in RunIds : /\ Running(rs, r) /\ rs[r].def = "change" /\ rs[r].at = "review"
                  /\ rs[r].doc \in D /\ ~Fresh(ds, rs[r])}
(* Mutant: the tasks of a superseded review stay open.                     *)
ReconcileKeepingTasks(ds, D) ==
  runs' = Finalized(runs, StaleReviews(runs, ds, D), "cancelled") /\ UNCHANGED tasks
Reconcile(ds, D) ==
  LET stale == StaleReviews(runs, ds, D)
  IN  /\ runs' = Finalized(runs, stale, "cancelled")
      /\ tasks' = Expired(tasks, stale)

(* Mutant: an accepted event leaves the deadline for the sweep.            *)
AcceptedKeepingDeadline(run) == [run EXCEPT !.rev = @ + 1]
(* enqueueAdvanceWithTrigger for an accepted event: it invalidates the     *)
(* work queued before it and clears the deadline                           *)
Accepted(run) == [run EXCEPT !.rev = @ + 1, !.deadline = "none"]

Spend(b) == spent[b] < Bounds[b] /\ spent' = [spent EXCEPT ![b] = @ + 1]

-----------------------------------------------------------------------------
Init ==
  /\ docs = [d \in Docs |-> [state |-> "live", gen |-> 0]]
  /\ runs = [r \in RunIds |-> NoRun] /\ lastRun = 0
  /\ tasks = {} /\ jobs = {SweepJob(1)}
  /\ work = NoWork /\ sessions = Sessions /\ up = TRUE
  /\ spent = [b \in DOMAIN Bounds |-> 0]
  /\ applied = [r \in RunIds |-> 0]

(***************************************************************************)
(* People and producers                                                    *)
(***************************************************************************)
InsertRunId == lastRun + 1

(* insertRun and enqueueAdvance, after the runs in S have failed           *)
Insert(run, S) ==
  LET r == InsertRunId
  IN  /\ r \in RunIds
      /\ lastRun' = r
      /\ runs' = [Finalized(runs, S, "failed") EXCEPT ![r] = run]
      /\ jobs' = jobs \cup {AdvanceJob(r, "", 0)}

Start(d) ==
  /\ up /\ docs[d].state # "purged" /\ Spend("starts")
  /\ Insert(NewRun("flow", d), {})
  /\ UNCHANGED <<docs, tasks, work, sessions, up, applied>>

(* The task whose decision moved, or is about to move, a review            *)
DecisionTasks(r, rev) ==
  {t \in tasks : t.run = r /\ t.at = "review" /\ t.rev = rev /\ t.status = "resolved" /\ t.choice = "apply"}

(* documentChangeAuthorizationUnusable                                     *)
Unusable(r) ==
  LET back == IF runs[r].at = "review" THEN 1 ELSE 2
  IN  /\ runs[r].at \in {"review", "apply"} /\ runs[r].rev >= back
      /\ \E t \in DecisionTasks(r, runs[r].rev - back) : t.by \notin sessions
      /\ ~\E t \in tasks : t.run = r /\ t.status = "open"

Same(d) == {r \in RunIds : Running(runs, r) /\ runs[r].def = "change" /\ runs[r].doc = d
                           /\ runs[r].base = docs[d].gen}

(* ProposeDocumentChangeInTx: a live proposal of the same change swallows  *)
(* the new one, unless its authorization is gone for good                  *)
Propose(d) ==
  /\ up /\ docs[d].state = "live"
  /\ \A r \in Same(d) : Unusable(r)
  /\ Insert(NewRun("change", d), Same(d))
  /\ UNCHANGED <<docs, tasks, work, sessions, up, spent, applied>>

(* ResolveInTx.  Only "apply" of a review asks whether it is still fresh.  *)
Actionable(t) ==
  /\ Running(runs, t.run) /\ t.at = runs[t.run].at /\ t.rev = runs[t.run].rev
  /\ docs[runs[t.run].doc].state = "live"
Decide(t, c, s, rev) ==
  LET r == t.run IN
  /\ up /\ s \in sessions
  /\ t.status = "open" /\ Actionable(t) /\ t.rev < MaxRev
  /\ c \in StateOf(runs[r]).choices
  /\ runs[r].def = "change" /\ c = "apply" => Fresh(docs, runs[r])
  /\ tasks' = (tasks \ {t}) \cup {[t EXCEPT !.status = "resolved", !.choice = c, !.by = s]}
  /\ runs' = [runs EXCEPT ![r] = Accepted(@)]
  /\ jobs' = jobs \cup {AdvanceJob(r, c, rev)}
  /\ UNCHANGED <<docs, lastRun, work, sessions, up, spent, applied>>

(* Mutant: the job carries the revision from before the decision.          *)
ResolveAtOldRevision(t, c, s) == Decide(t, c, s, t.rev)
Resolve(t, c, s) == Decide(t, c, s, t.rev + 1)

Cancel(r) ==
  /\ up /\ Running(runs, r) /\ Spend("acts")
  /\ runs' = Finalized(runs, {r}, "cancelled")
  /\ tasks' = Expired(tasks, {r})
  /\ UNCHANGED <<docs, lastRun, jobs, work, sessions, up, applied>>

(* A person's edit of the field, and a confident change applied without a  *)
(* review, close the reviews they make obsolete in their own transaction   *)
Edit(d) ==
  LET ds == [docs EXCEPT ![d].gen = @ + 1]
  IN  /\ up /\ docs[d].state # "purged" /\ Spend("acts")
      /\ docs' = ds /\ Reconcile(ds, {d})
      /\ UNCHANGED <<lastRun, jobs, work, sessions, up, applied>>

(* New content from the pipeline changes the source generation only        *)
NewContent(d) ==
  /\ up /\ docs[d].state # "purged" /\ Spend("acts")
  /\ docs' = [docs EXCEPT ![d].gen = @ + 1]
  /\ UNCHANGED <<runs, lastRun, tasks, jobs, work, sessions, up, applied>>

(* Trashing one document leaves its reviews to the sweep; trashing in bulk *)
(* closes them                                                             *)
Trash(d, bulk) ==
  LET ds == [docs EXCEPT ![d].state = "trashed"]
  IN  /\ up /\ docs[d].state = "live" /\ Spend("acts")
      /\ docs' = ds
      /\ IF bulk THEN Reconcile(ds, {d}) ELSE UNCHANGED <<runs, tasks>>
      /\ UNCHANGED <<lastRun, jobs, work, sessions, up, applied>>

Restore(d) ==
  /\ up /\ docs[d].state = "trashed"
  /\ docs' = [docs EXCEPT ![d].state = "live"]
  /\ UNCHANGED <<runs, lastRun, tasks, jobs, work, sessions, up, spent, applied>>

(* The purge deletes runs and, by cascade, tasks; advance jobs carry no    *)
(* doc_id and stay                                                         *)
Purge(d) ==
  LET gone == {r \in RunIds : runs[r] # NoRun /\ runs[r].doc = d}
  IN  /\ up /\ docs[d].state = "trashed"
      /\ docs' = [docs EXCEPT ![d].state = "purged"]
      /\ runs' = [r \in RunIds |-> IF r \in gone THEN NoRun ELSE runs[r]]
      /\ tasks' = {t \in tasks : t.run \notin gone}
      /\ UNCHANGED <<lastRun, jobs, work, sessions, up, spent, applied>>

Logout(s) ==
  /\ up /\ s \in sessions /\ Spend("acts")
  /\ sessions' = sessions \ {s}
  /\ UNCHANGED <<docs, runs, lastRun, tasks, jobs, work, up, applied>>

(* An administrator requeues a dead job of the archive; the sweep belongs  *)
(* to no archive and is not found                                          *)
RetryDeadJob(j) ==
  /\ up /\ j \in jobs /\ j.state = "dead" /\ ~IsSweep(j) /\ Spend("mishaps")
  /\ jobs' = (jobs \ {j}) \cup {[j EXCEPT !.state = "pending", !.attempts = 0]}
  /\ UNCHANGED <<docs, runs, lastRun, tasks, work, sessions, up, applied>>

(***************************************************************************)
(* The dispatcher.  It is serial; the order of due rows, and when a retry  *)
(* or a sweep is due, is left open.  A handler that returns nil is         *)
(* followed by markDone, unless the server dies in between.                *)
(***************************************************************************)
Idle == up /\ work = NoWork
AsRunning(j) == [j EXCEPT !.state = "running"]
Die == Spend("mishaps") /\ up' = FALSE

Finish(j, js) ==
  /\ work' = NoWork
  /\ \/ jobs' = js \ {j} /\ UNCHANGED <<up, spent>>
     \/ jobs' = js /\ Die

(* A handler's error: the row goes back to pending, or is dead             *)
Failed(j) ==
  [j EXCEPT !.attempts = @ + 1, !.state = IF j.attempts + 1 >= MaxAttempts THEN "dead" ELSE "pending"]
Fail(j) == jobs' = (jobs \ {j}) \cup {Failed(j)} /\ work' = NoWork

(* advance returns without effect for a run that is gone, that has moved   *)
(* on from the revision the job was queued for, or that has ended          *)
Current(r, rev) == Running(runs, r) /\ runs[r].rev = rev
AdvanceSkip(j) ==
  /\ Idle /\ j.state = "pending" /\ ~IsSweep(j) /\ ~Current(j.run, j.rev)
  /\ jobs' = jobs \ {j}
  /\ UNCHANGED <<docs, runs, lastRun, tasks, work, sessions, up, spent, applied>>

AdvanceRead(j) ==
  /\ Idle /\ j.state = "pending" /\ ~IsSweep(j) /\ Current(j.run, j.rev)
  /\ jobs' = (jobs \ {j}) \cup {AsRunning(j)}
  /\ work' = [job |-> AsRunning(j), run |-> runs[j.run]]
  /\ UNCHANGED <<docs, runs, lastRun, tasks, sessions, up, spent, applied>>

(* The event the handler of the state's kind returns; "" asks for a task   *)
Event(kind, trigger) ==
  IF kind = "change" \/ (kind = "system" /\ trigger = "") THEN "success" ELSE trigger
Asked == Event(StateOf(work.run).kind, work.job.trigger)

(* writeCurrentRun: the transaction does nothing unless the run is still   *)
(* at the revision that was read                                           *)
MayWrite == Current(work.job.run, work.run.rev)
Handling == up /\ work # NoWork

AdvanceStale ==
  /\ Handling /\ ~MayWrite
  /\ Asked \in DOMAIN StateOf(work.run).on \cup {""}
  /\ Finish(work.job, jobs)
  /\ UNCHANGED <<docs, runs, lastRun, tasks, sessions, applied>>

(* insertTask: one task per visit; only its creation arms the deadline     *)
AdvanceTask ==
  LET r == work.job.run
      run == work.run
      visit == {t \in tasks : t.run = r /\ t.at = run.at /\ t.rev = run.rev}
  IN
  /\ Handling /\ MayWrite /\ StateOf(run).kind = "approve" /\ Asked = ""
  /\ IF visit # {} THEN UNCHANGED <<runs, tasks>>
     ELSE /\ tasks' = tasks \cup {[run |-> r, at |-> run.at, rev |-> run.rev,
                                   status |-> "open", choice |-> "", by |-> ""]}
          /\ runs' = [runs EXCEPT ![r].deadline = DeadlineOf(SpecOf(run), run.at)]
  /\ Finish(work.job, jobs)
  /\ UNCHANGED <<docs, lastRun, sessions, applied>>

(* Mutant: the queued effect trusts the checks made at resolution.         *)
MayApplyUnchecked(r) == \E t \in DecisionTasks(r, work.run.rev - 2) : t.by \in sessions
(* applyDocumentChange: the review's decision, its credential and the      *)
(* document's generation are looked up again in the transaction            *)
MayApply(r) ==
  /\ \E t \in DecisionTasks(r, work.run.rev - 2) : t.by \in sessions
  /\ Fresh(docs, runs[r])

Moved(run, next) ==
  LET spec == SpecOf(run)
  IN  [run EXCEPT !.at = next, !.rev = @ + 1, !.deadline = DeadlineOf(spec, next),
                  !.status = IF spec.states[next].kind = "end" THEN "done" ELSE "running"]

AdvanceMove ==
  LET r == work.job.run
      run == work.run
      effect == StateOf(run).kind = "change"
      ds == IF effect THEN [docs EXCEPT ![run.doc].gen = @ + 1] ELSE docs
      stale == IF effect THEN StaleReviews(runs, ds, {run.doc}) ELSE {}
      next == StateOf(run).on[Asked]
  IN
  /\ Handling /\ MayWrite /\ Asked \in DOMAIN StateOf(run).on
  /\ effect => MayApply(r)
  /\ docs' = ds
  /\ applied' = IF effect THEN [applied EXCEPT ![r] = @ + 1] ELSE applied
  /\ runs' = [Finalized(runs, stale, "cancelled") EXCEPT ![r] = Moved(@, next)]
  /\ tasks' = Expired(tasks, stale \cup {r})
  /\ Finish(work.job, IF SpecOf(run).states[next].kind = "end" THEN jobs
                      ELSE jobs \cup {AdvanceJob(r, "", run.rev + 1)})
  /\ UNCHANGED <<lastRun, sessions>>

(* The handler cannot go on: no transition for the event, or the effect is *)
(* refused                                                                 *)
Refused ==
  LET state == StateOf(work.run) IN
  /\ Asked # ""
  /\ Asked \notin DOMAIN state.on \/ (MayWrite /\ state.kind = "change" /\ ~MayApply(work.job.run))
AdvanceError ==
  /\ Handling /\ Refused /\ Fail(work.job)
  /\ UNCHANGED <<docs, runs, lastRun, tasks, sessions, up, spent, applied>>

(* Its transaction fails, or the task's assignee has no user               *)
AdvanceFault ==
  /\ Handling /\ Spend("mishaps") /\ Fail(work.job)
  /\ UNCHANGED <<docs, runs, lastRun, tasks, sessions, up, applied>>

(* rescheduleSweep counts pending rows only                                *)
WithSweep(js) ==
  IF \E j \in js : IsSweep(j) /\ j.state = "pending" THEN js
  ELSE js \cup {SweepJob(CHOOSE k \in 1..(Cardinality(js) + 1) : \A j \in js : IsSweep(j) => j.rev # k)}

(* TimeoutSweep: one transaction for reconciliation and timeouts, another  *)
(* for the successor, and then the row is done.  The second may fail, and  *)
(* the server may die before or after it.                                  *)
TimeoutSweep(j) ==
  LET stale == StaleReviews(runs, docs, Docs)
      due == {r \in RunIds \ stale : Running(runs, r) /\ runs[r].deadline = "due"}
      rs == Finalized(runs, stale, "cancelled")
      row == AsRunning(j)
      js == (jobs \ {j}) \cup {row} \cup {AdvanceJob(r, "timeout", runs[r].rev + 1) : r \in due}
  IN
  /\ Idle /\ j.state = "pending" /\ IsSweep(j)
  /\ runs' = [r \in RunIds |-> IF r \in due THEN Accepted(rs[r]) ELSE rs[r]]
  /\ tasks' = Expired(tasks, stale \cup due)
  /\ \/ Finish(row, WithSweep(js))
     \/ jobs' = (js \ {row}) \cup {Failed(row)} /\ Spend("mishaps") /\ UNCHANGED <<work, up>>
     \/ jobs' = js /\ Die /\ UNCHANGED work
  /\ UNCHANGED <<docs, lastRun, sessions, applied>>

SweepFault(j) ==
  /\ Idle /\ j.state = "pending" /\ IsSweep(j) /\ Spend("mishaps") /\ Fail(j)
  /\ UNCHANGED <<docs, runs, lastRun, tasks, sessions, up, applied>>

(***************************************************************************)
(* Time, death and restart                                                 *)
(***************************************************************************)
DeadlinePasses(r) ==
  /\ Running(runs, r) /\ runs[r].deadline = "armed" /\ runs[r].rev < MaxRev
  /\ runs' = [runs EXCEPT ![r].deadline = "due"]
  /\ UNCHANGED <<docs, lastRun, tasks, jobs, work, sessions, up, spent, applied>>

Crash ==
  /\ up /\ Die /\ work' = NoWork
  /\ UNCHANGED <<docs, runs, lastRun, tasks, jobs, sessions, applied>>

(* Run: EnsureSweepScheduled, ReconcileDocumentChanges, and only then the  *)
(* dispatcher's ReclaimOrphaned                                            *)
Boot ==
  /\ ~up /\ up' = TRUE
  /\ Reconcile(docs, Docs)
  /\ jobs' = {IF j.state = "running" THEN [j EXCEPT !.state = "pending"] ELSE j : j \in WithSweep(jobs)}
  /\ UNCHANGED <<docs, lastRun, work, sessions, spent, applied>>

Advance ==
  \/ \E j \in jobs : AdvanceSkip(j) \/ AdvanceRead(j)
  \/ AdvanceStale \/ AdvanceTask \/ AdvanceMove \/ AdvanceError

Next ==
  \/ \E d \in Docs : \/ Start(d) \/ Propose(d) \/ Edit(d) \/ NewContent(d)
                     \/ Restore(d) \/ Purge(d)
                     \/ \E bulk \in BOOLEAN : Trash(d, bulk)
  \/ \E t \in tasks, c \in Choices, s \in Sessions : Resolve(t, c, s)
  \/ \E r \in RunIds : Cancel(r) \/ DeadlinePasses(r)
  \/ \E s \in Sessions : Logout(s)
  \/ \E j \in jobs : RetryDeadJob(j) \/ TimeoutSweep(j) \/ SweepFault(j)
  \/ Advance \/ AdvanceFault \/ Crash \/ Boot

Spec == Init /\ [][Next]_vars

-----------------------------------------------------------------------------
(***************************************************************************)
(* Properties                                                              *)
(***************************************************************************)
(* Every variable has its type, a job is not tried more often than         *)
(* allowed, none is for a run not yet started, and the job in hand has its *)
(* row (approval_runs, approval_tasks, jobs).                              *)
TypeOK ==
  /\ docs \in [Docs -> [state: {"live", "trashed", "purged"}, gen: Nat]]
  /\ runs \in [RunIds -> Runs \cup {NoRun}] /\ lastRun \in 0..MaxRuns
  /\ tasks \subseteq Tasks
  /\ jobs \subseteq Jobs
  /\ \A j \in jobs : j.run <= lastRun /\ (j.attempts = MaxAttempts <=> j.state = "dead")
  /\ work \in [job: Jobs, run: Runs] \cup {NoWork}
  /\ work # NoWork => work.job \in jobs /\ up
  /\ sessions \subseteq Sessions /\ up \in BOOLEAN
  /\ spent \in [DOMAIN Bounds -> Nat] /\ applied \in [RunIds -> Nat]

(* A task somebody may still answer belongs to the visit its run is on: no *)
(* transition, timeout, cancellation or reconciliation leaves one behind,  *)
(* and no late retry of an entry job creates one (expireOpenTasksForRun,   *)
(* insertTask).                                                            *)
OpenTaskIsCurrent ==
  \A t \in tasks : t.status = "open" =>
    Running(runs, t.run) /\ runs[t.run].at = t.at /\ runs[t.run].rev = t.rev

(* A running run always has something that will move it: an open task, or  *)
(* a job bound to its revision that is queued, running or dead.  A crash   *)
(* between the transaction and markDone does not break the chain           *)
(* (enqueueAdvanceWithTrigger).                                            *)
NoRunForgotten ==
  \A r \in RunIds : Running(runs, r) =>
    \/ \E t \in tasks : t.run = r /\ t.status = "open"
    \/ \E j \in jobs : j.run = r /\ j.rev = runs[r].rev

(* The choice that was accepted for the visit r is on and not carried out  *)
Choice(r) ==
  {t.choice : t \in {u \in tasks : u.run = r /\ u.status = "resolved" /\ u.at = runs[r].at
                                   /\ u.rev + 1 = runs[r].rev}}
LeavesVisit(r) ==
  runs[r] # NoRun /\ runs'[r] # NoRun /\ runs[r].rev # runs'[r].rev

(* An accepted decision is final: the run's next step takes the transition *)
(* of that choice, whatever timeout was due, however often jobs of other   *)
(* visits, or of a purged run, are delivered (enqueueAdvanceWithTrigger,   *)
(* writeCurrentRun; docs/approvals.mdx:197-203).                           *)
DecisionStands ==
  [][\A r \in RunIds : LeavesVisit(r) /\ Choice(r) # {} =>
       /\ runs'[r].rev = runs[r].rev + 1
       /\ \E c \in Choice(r) : runs'[r].at = StateOf(runs[r]).on[c]]_vars

(* A review writes to its document at most once, only while the document   *)
(* is live and exactly as it was when the change was proposed, and only    *)
(* while the credential of the person who accepted it is still good        *)
(* (applyDocumentChange).                                                  *)
ChangeIsAuthorized ==
  [][\A r \in RunIds : applied'[r] # applied[r] =>
       /\ applied[r] = 0 /\ runs[r].at = "apply" /\ Fresh(docs, runs[r])
       /\ \E t \in tasks : t.run = r /\ t.choice = "apply" /\ t.by \in sessions]_vars

=============================================================================
