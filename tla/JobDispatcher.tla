--------------------------- MODULE JobDispatcher ---------------------------
(***************************************************************************)
(* The durable outbox of core/jobs/jobs.go: the rows of the jobs table,    *)
(* the serial dispatcher that claims, runs and finalizes them, the boot    *)
(* reclamation after a crash, and the other writers of the table: the      *)
(* administrator's retry and dismissal of dead jobs (core/api/tasks.go)    *)
(* and the permanent purge of a document (core/trash/trash.go).            *)
(*                                                                         *)
(* Every database transaction is one step, because the write pool holds a  *)
(* single connection (core/db/db.go).  A row's `serial' is a history       *)
(* value: the number of the Enqueue that created the row.  It tells apart  *)
(* two jobs that were given the same id, which SQLite does when the row    *)
(* with the largest id is deleted, since jobs.id is an INTEGER PRIMARY KEY *)
(* without AUTOINCREMENT.                                                  *)
(*                                                                         *)
(* Times are relative to now: `due' is next_run_at - now, `age' the time   *)
(* since a done row was last updated.                                      *)
(***************************************************************************)
EXTENDS Integers, FiniteSets, FiniteSetsExt

CONSTANTS
  Docs,                 \* documents that jobs may belong to
  Kinds,                \* job kinds that are enqueued
  Subscribers,          \* how many subscribers Register gave each kind
  MaxAttempts,          \* jobs.MaxAttempts
  FinalizationAttempts, \* jobs.finalizationAttempts
  Batch,                \* rows per claim
  BaseBackoff,          \* jobs.BaseBackoff
  MaxBackoff,           \* jobs.MaxBackoff
  DoneRetention,        \* jobs.DoneRetention
  PruneInterval,        \* jobs.donePruneInterval
  Horizon,              \* bound: how long overdue two rows are told apart
  MaxId,                \* bound: largest job id of the instance
  MaxEnqueues,          \* bound: number of Enqueue calls
  MaxRestarts,          \* bound: crashes and shutdowns
  MaxRequeues,          \* bound: administrator retries of dead jobs
  Starts,               \* documents, restarts and retries there may be
  NoDoc,                \* a job without a document
  NoRow                 \* a job id with no row, and no current job

ASSUME SetsAssumption ==
  /\ Subscribers \in [Kinds -> Nat]
  /\ NoDoc \notin Docs

ASSUME NumbersAssumption ==
  /\ MaxAttempts \in Nat \ {0}
  /\ FinalizationAttempts \in Nat \ {0}
  /\ Batch \in Nat \ {0}
  /\ BaseBackoff \in Nat /\ MaxBackoff \in Nat
  /\ DoneRetention \in Nat /\ PruneInterval \in Nat
  /\ Horizon \in Nat
  /\ MaxId \in Nat /\ MaxEnqueues \in Nat
  /\ MaxRestarts \in Nat /\ MaxRequeues \in Nat

ASSUME StartsAssumption ==
  Starts \subseteq [docs: SUBSET Docs, restarts: 0..MaxRestarts, requeues: 0..MaxRequeues]

VARIABLES
  jobs,      \* the jobs table: id -> row or NoRow
  docs,      \* the documents that have a row
  doomed,    \* the documents users may throw away
  pc,        \* where the dispatcher goroutine stands; "off" without a process
  held,      \* the rows the last claim returned and runJob has not finished
  cur,       \* the row runJob works on
  verdict,   \* what finalize is writing for cur
  writes,    \* failed writes of the current finalize call
  nudge,     \* the nudge channel, of capacity one, holds a token
  stopping,  \* ctx is cancelled and stopCh closed
  pruneIn,   \* time until nextPrune
  enqueues, restarts, requeues,  \* how much of each bound is used
  succeeded, \* history: jobs of which one run had every subscriber return nil
  orphans    \* history: running jobs that no goroutine owns any more

archive == <<docs, doomed>>
loop    == <<pc, held, cur, verdict, writes>>
signals == <<nudge, stopping>>
bounds  == <<enqueues, restarts, requeues>>
history == <<succeeded, orphans>>
vars    == <<jobs, archive, loop, signals, pruneIn, bounds, history>>

-----------------------------------------------------------------------------
Ids     == 1..MaxId
Serials == 1..MaxEnqueues
States  == {"pending", "running", "done", "dead"}
Places  == {"off", "loop", "claim", "run", "handling", "finalize", "backoff",
            "idle", "wait"}
Outcomes == {"ok", "retry", "terminal"}

(* The columns of a jobs row that the dispatcher reads or writes.          *)
Rows == [serial: Serials, kind: Kinds, doc: Docs \cup {NoDoc}, state: States,
         attempts: 0..(MaxAttempts - 1), due: Int, age: Nat]

ASSUME NoRowAssumption == NoRow \notin Rows

(* The columns claim returns for a row.                                    *)
Claims == [id: Ids, serial: Serials, kind: Kinds,
           attempts: 0..(MaxAttempts - 1)]

(* What runJob decided for a row: the state to write, and for a retry the  *)
(* new attempt count and when it is due.                                   *)
Verdicts == [state: States, attempts: 0..(MaxAttempts - 1), due: Int]
Undecided == [state |-> "running", attempts |-> 0, due |-> 0]

Present == {i \in Ids : jobs[i] # NoRow}
InState(st) == {i \in Present : jobs[i].state = st}
SerialsOf(I) == {jobs[i].serial : i \in I}

(* SQLite's choice of a new INTEGER PRIMARY KEY: one more than the largest *)
(* id in use, so the id of a deleted last row is used again.               *)
NewId(i) ==
  /\ \A j \in Present : j < i
  /\ i = 1 \/ i - 1 \in Present

Up == pc # "off"

Init ==
  /\ \E s \in Starts : /\ docs = s.docs /\ doomed = s.docs
                      /\ restarts = MaxRestarts - s.restarts
                      /\ requeues = MaxRequeues - s.requeues
  /\ jobs = [i \in Ids |-> NoRow]
  /\ pc = "off"
  /\ held = {}
  /\ cur = NoRow
  /\ verdict = Undecided
  /\ writes = 0
  /\ nudge = FALSE
  /\ stopping = FALSE
  /\ pruneIn = 0
  /\ enqueues = 0
  /\ succeeded = {} /\ orphans = {}

-----------------------------------------------------------------------------
(* Writers of the table outside the dispatcher.                            *)

(* Enqueue inside the caller's transaction; a documented job needs its     *)
(* document's row.  The row is due at once.                                *)
Enqueue(k, d) ==
  /\ enqueues < MaxEnqueues
  /\ d = NoDoc \/ d \in docs
  /\ \E i \in Ids :
       /\ NewId(i)
       /\ jobs' = [jobs EXCEPT ![i] =
            [serial |-> enqueues + 1, kind |-> k, doc |-> d,
             state |-> "pending", attempts |-> 0, due |-> 0, age |-> 0]]
  /\ enqueues' = enqueues + 1
  /\ UNCHANGED <<archive, loop, signals, pruneIn, restarts, requeues, history>>

(* Mutant: the retry does not require state = 'dead'.                      *)
RetryAnyJob(i) ==
  /\ Up
  /\ i \in Present
  /\ requeues < MaxRequeues
  /\ requeues' = requeues + 1
  /\ jobs' = [jobs EXCEPT ![i].state = "pending", ![i].attempts = 0,
                          ![i].due = 0]
  /\ UNCHANGED <<archive, loop, signals, pruneIn, enqueues, restarts, history>>

(* The administrator's retry of a dead job.                                *)
RetryDeadJob(i) ==
  /\ Up
  /\ i \in InState("dead")
  /\ requeues < MaxRequeues
  /\ requeues' = requeues + 1
  /\ jobs' = [jobs EXCEPT ![i].state = "pending", ![i].attempts = 0,
                          ![i].due = 0]
  /\ UNCHANGED <<archive, loop, signals, pruneIn, enqueues, restarts, history>>

(* Mutant: the dismissal does not require state = 'dead'.                  *)
DismissAnyJob(i) ==
  /\ Up
  /\ i \in Present
  /\ jobs' = [jobs EXCEPT ![i] = NoRow]
  /\ UNCHANGED <<archive, loop, signals, pruneIn, bounds, history>>

(* The administrator's dismissal of a dead job deletes the row.            *)
DismissDeadJob(i) ==
  /\ Up
  /\ i \in InState("dead")
  /\ jobs' = [jobs EXCEPT ![i] = NoRow]
  /\ UNCHANGED <<archive, loop, signals, pruneIn, bounds, history>>

(* The purge transaction of a trashed document deletes its jobs in         *)
(* whatever state they are, and the document.                              *)
Purge(d) ==
  /\ Up
  /\ d \in doomed \cap docs
  /\ docs' = docs \ {d}
  /\ jobs' = [i \in Ids |->
       IF i \in Present /\ jobs[i].doc = d THEN NoRow ELSE jobs[i]]
  /\ UNCHANGED <<doomed, loop, signals, pruneIn, bounds, history>>

-----------------------------------------------------------------------------
(* Start and end of the process.                                           *)

(* ReclaimOrphaned, then `go disp.Run'.                                    *)
Reclaimed == [i \in Ids |->
  IF i \in InState("running")
  THEN [jobs[i] EXCEPT !.state = "pending", !.due = 0]
  ELSE jobs[i]]

Start ==
  /\ pc = "off"
  /\ pc' = "loop"
  /\ pruneIn' = 0
  /\ UNCHANGED <<archive, held, cur, verdict, writes, signals, bounds, succeeded>>

Boot ==
  /\ Start
  /\ jobs' = Reclaimed
  /\ orphans' = {}

(* A failed reclamation is logged and the dispatcher starts all the same.  *)
BootReclaimFails ==
  /\ Start
  /\ UNCHANGED <<jobs, orphans>>

(* What is left when the process is gone: only the table.                  *)
Gone ==
  /\ pc' = "off"
  /\ held' = {}
  /\ cur' = NoRow
  /\ verdict' = Undecided
  /\ writes' = 0
  /\ nudge' = FALSE
  /\ stopping' = FALSE
  /\ orphans' = SerialsOf(InState("running"))
  /\ UNCHANGED <<jobs, archive, pruneIn, succeeded>>

Crash ==
  /\ Up
  /\ restarts < MaxRestarts
  /\ restarts' = restarts + 1
  /\ Gone
  /\ UNCHANGED <<enqueues, requeues>>

(* cancel() and Stop(): Stop then waits for Run to return.                 *)
Shutdown ==
  /\ Up /\ ~stopping
  /\ restarts < MaxRestarts
  /\ restarts' = restarts + 1
  /\ stopping' = TRUE
  /\ UNCHANGED <<jobs, archive, loop, nudge, pruneIn, enqueues, requeues, history>>

-----------------------------------------------------------------------------
(* The loop of Run.                                                        *)

Exit ==
  /\ pc = "loop" /\ stopping
  /\ Gone
  /\ UNCHANGED bounds

SkipPrune ==
  /\ pc = "loop" /\ ~stopping
  /\ pruneIn > 0
  /\ pc' = "claim"
  /\ UNCHANGED <<jobs, archive, held, cur, verdict, writes, signals, pruneIn,
                 bounds, history>>

(* pruneDone: successful rows strictly older than the retention go.  A     *)
(* failed pass is logged; either way the next one is an interval away.     *)
Expired == {i \in InState("done") : jobs[i].age > DoneRetention}

Prune ==
  /\ pc = "loop" /\ ~stopping
  /\ pruneIn = 0
  /\ pruneIn' = PruneInterval
  /\ \/ jobs' = [i \in Ids |-> IF i \in Expired THEN NoRow ELSE jobs[i]]
     \/ jobs' = jobs
  /\ pc' = "claim"
  /\ UNCHANGED <<archive, held, cur, verdict, writes, signals, bounds, history>>

Due == {i \in InState("pending") : jobs[i].due <= 0}

(* The ids the subquery selects: the due rows in order of next_run_at, at  *)
(* most Batch of them.                                                     *)
Selected(S) ==
  /\ S \subseteq Due
  /\ Cardinality(S) = Min({Batch, Cardinality(Due)})
  /\ \A i \in S : \A j \in Due \ S : jobs[i].due <= jobs[j].due

(* The rows RETURNING hands over, in an order SQLite does not fix.         *)
Claimed(S) == {[id |-> i, serial |-> jobs[i].serial, kind |-> jobs[i].kind,
                attempts |-> jobs[i].attempts] : i \in S}

Claim ==
  /\ pc = "claim" /\ ~stopping
  /\ \E S \in SUBSET Due :
       /\ Selected(S)
       /\ jobs' = [i \in Ids |-> IF i \in S
                     THEN [jobs[i] EXCEPT !.state = "running"] ELSE jobs[i]]
       /\ held' = Claimed(S)
       /\ pc' = IF S = {} THEN "idle" ELSE "run"
  /\ UNCHANGED <<archive, cur, verdict, writes, signals, pruneIn, bounds,
                 history>>

(* The claim transaction fails, always so once ctx is cancelled.           *)
ClaimFails ==
  /\ pc = "claim"
  /\ pc' = "idle"
  /\ UNCHANGED <<jobs, archive, held, cur, verdict, writes, signals, pruneIn,
                 bounds, history>>

(* Nothing was claimed: the goroutine reaches the idle select.             *)
Select ==
  /\ pc = "idle"
  /\ pc' = "wait"
  /\ UNCHANGED <<jobs, archive, held, cur, verdict, writes, signals, pruneIn,
                 bounds, history>>

(* Mutant: the idle select waits for a nudge only.                         *)
WakeOnNudge ==
  /\ pc = "wait" /\ nudge
  /\ pc' = "loop"
  /\ nudge' = FALSE
  /\ UNCHANGED <<jobs, archive, held, cur, verdict, writes, stopping, pruneIn,
                 bounds, history>>

(* The idle select: ctx, stopCh and the ticker leave the nudge token where *)
(* it is, the nudge case takes it.                                         *)
Wake ==
  /\ pc = "wait"
  /\ pc' = "loop"
  /\ nudge' \in {nudge, FALSE}
  /\ UNCHANGED <<jobs, archive, held, cur, verdict, writes, stopping, pruneIn,
                 bounds, history>>

(* A caller that has committed its Enqueue asks for an immediate poll.     *)
Nudge ==
  /\ Up
  /\ nudge' = TRUE
  /\ UNCHANGED <<jobs, archive, loop, stopping, pruneIn, bounds, history>>

-----------------------------------------------------------------------------
(* runJob, for one row of the batch after the other.  Run does not look at *)
(* ctx between two rows.                                                   *)

(* An unknown kind is a dead letter.                                       *)
RunUnknown(c) ==
  /\ pc = "run" /\ c \in held
  /\ Subscribers[c.kind] = 0
  /\ cur' = c
  /\ verdict' = [state |-> "dead", attempts |-> c.attempts, due |-> 0]
  /\ pc' = "finalize"
  /\ UNCHANGED <<jobs, archive, held, writes, signals, pruneIn, bounds, history>>

RunHandlers(c) ==
  /\ pc = "run" /\ c \in held
  /\ Subscribers[c.kind] > 0
  /\ cur' = c
  /\ pc' = "handling"
  /\ UNCHANGED <<jobs, archive, held, verdict, writes, signals, pruneIn, bounds,
                 history>>

(* Mutant: each subscriber overwrites the error, with nil too.             *)
ErrOfLastSubscriber(results, e) ==
  \E n \in DOMAIN results :
    /\ results[n] = e
    /\ \A m \in DOMAIN results : m <= n

(* lastErr after all subscribers returned: the last error that is not nil. *)
LastErr(results, e) ==
  \/ /\ e = "ok"
     /\ \A n \in DOMAIN results : results[n] = "ok"
  \/ /\ e # "ok"
     /\ \E n \in DOMAIN results :
          /\ results[n] = e
          /\ \A m \in DOMAIN results : m > n => results[m] = "ok"

(* Backoff after attempt a: doubling, at most MaxBackoff.                  *)
Backoff(a) ==
  LET doubled == 2^(a - 1) * BaseBackoff
  IN  IF doubled \in 0..MaxBackoff THEN doubled ELSE MaxBackoff

(* markDone, markDead or markRetry of a row with that many attempts.       *)
Decide(attempts, lastErr) ==
  IF lastErr = "ok"
    THEN [state |-> "done", attempts |-> attempts, due |-> 0]
  ELSE IF lastErr = "terminal" \/ attempts + 1 >= MaxAttempts
    THEN [state |-> "dead", attempts |-> attempts, due |-> 0]
  ELSE [state |-> "pending", attempts |-> attempts + 1,
        due |-> Backoff(attempts + 1)]

HandlersReturn ==
  /\ pc = "handling"
  /\ \E results \in [1..Subscribers[cur.kind] -> Outcomes], e \in Outcomes :
       /\ LastErr(results, e)
       /\ verdict' = Decide(cur.attempts, e)
       /\ succeeded' = IF \A n \in DOMAIN results : results[n] = "ok"
                       THEN succeeded \cup {cur.serial} ELSE succeeded
  /\ pc' = "finalize"
  /\ UNCHANGED <<jobs, archive, held, cur, writes, signals, pruneIn, bounds,
                 orphans>>

-----------------------------------------------------------------------------
(* finalize: the state transition is retried until it is durable or given  *)
(* up; runJob then returns and the next row of the batch is run.           *)

Finished ==
  /\ held' = held \ {cur}
  /\ cur' = NoRow
  /\ verdict' = Undecided
  /\ writes' = 0
  /\ pc' = IF held' = {} THEN "loop" ELSE "run"

(* The row with that id after the write: markDone and markDead set the     *)
(* state, markRetry also attempts and next_run_at.                         *)
Written(row) ==
  [row EXCEPT !.state = verdict.state,
              !.attempts = IF verdict.state = "pending" THEN verdict.attempts
                           ELSE @,
              !.due = IF verdict.state = "pending" THEN verdict.due ELSE @,
              !.age = 0]

(* The first write ignores cancellation, later ones do not.  UPDATE ...    *)
(* WHERE id = ? writes whatever row has the id by now, or none.            *)
FinalizeWrite ==
  /\ pc = "finalize"
  /\ writes = 0 \/ ~stopping
  /\ jobs' = IF cur.id \in Present
             THEN [jobs EXCEPT ![cur.id] = Written(jobs[cur.id])]
             ELSE jobs
  /\ Finished
  /\ UNCHANGED <<archive, signals, pruneIn, bounds, history>>

FinalizeFails ==
  /\ pc = "finalize"
  /\ writes + 1 < FinalizationAttempts
  /\ writes' = writes + 1
  /\ pc' = "backoff"
  /\ UNCHANGED <<jobs, archive, held, cur, verdict, signals, pruneIn, bounds,
                 history>>

FinalizeRetry ==
  /\ pc = "backoff"
  /\ pc' = "finalize"
  /\ UNCHANGED <<jobs, archive, held, cur, verdict, writes, signals, pruneIn,
                 bounds, history>>

(* abandonFinalization: the last write failed, or the backoff was          *)
(* interrupted.  The row stays running.                                    *)
Abandon ==
  /\ \/ pc = "finalize" /\ writes + 1 = FinalizationAttempts
     \/ pc = "backoff" /\ stopping
  /\ orphans' = orphans \cup
       {s \in SerialsOf(InState("running")) : s = cur.serial}
  /\ Finished
  /\ UNCHANGED <<jobs, archive, signals, pruneIn, bounds, succeeded>>

-----------------------------------------------------------------------------
(* Time passes.                                                            *)
Elapse(d) == IF d > -Horizon THEN d - 1 ELSE d
Older(row) == IF row.state = "done" /\ row.age <= DoneRetention
              THEN row.age + 1 ELSE row.age

Tick ==
  /\ jobs' = [i \in Ids |-> IF i \notin InState("pending") \cup InState("done")
                THEN jobs[i]
                ELSE [jobs[i] EXCEPT
                  !.due = IF jobs[i].state = "pending" THEN Elapse(@) ELSE @,
                  !.age = Older(jobs[i])]]
  /\ verdict' = IF verdict.state = "pending"
                THEN [verdict EXCEPT !.due = Elapse(@)] ELSE verdict
  /\ pruneIn' = IF pruneIn > 0 THEN pruneIn - 1 ELSE 0
  /\ UNCHANGED <<archive, pc, held, cur, writes, signals, bounds, history>>

-----------------------------------------------------------------------------
Dispatcher ==
  \/ Exit \/ SkipPrune \/ Prune \/ Claim \/ ClaimFails \/ Select \/ Wake
  \/ \E c \in held : RunUnknown(c) \/ RunHandlers(c)
  \/ HandlersReturn
  \/ FinalizeWrite \/ FinalizeFails \/ FinalizeRetry \/ Abandon

Environment ==
  \/ \E k \in Kinds, d \in Docs \cup {NoDoc} : Enqueue(k, d)
  \/ \E i \in Ids : RetryDeadJob(i) \/ DismissDeadJob(i)
  \/ \E d \in Docs : Purge(d)
  \/ Boot \/ BootReclaimFails \/ Crash \/ Shutdown \/ Nudge

Next == Dispatcher \/ Environment \/ Tick

Spec == Init /\ [][Next]_vars

(* The goroutine is scheduled (Go's scheduler), handlers return (the       *)
(* handler contract of the package), time passes, and the database does    *)
(* not refuse the claim for ever.                                          *)
Fairness ==
  /\ WF_vars(Dispatcher)
  /\ SF_vars(Claim)
  /\ WF_vars(Tick)

FairSpec == Spec /\ Fairness

-----------------------------------------------------------------------------
(* Types of all variables; at most MaxAttempts - 1 retries are recorded.   *)
TypeOK ==
  /\ jobs \in [Ids -> Rows \cup {NoRow}]
  /\ docs \subseteq Docs /\ doomed \subseteq Docs
  /\ pc \in Places
  /\ held \subseteq Claims
  /\ cur \in Claims \cup {NoRow}
  /\ verdict \in Verdicts
  /\ writes \in 0..(FinalizationAttempts - 1)
  /\ nudge \in BOOLEAN /\ stopping \in BOOLEAN
  /\ pruneIn \in 0..PruneInterval
  /\ enqueues \in 0..MaxEnqueues
  /\ restarts \in 0..MaxRestarts
  /\ requeues \in 0..MaxRequeues
  /\ succeeded \subseteq Serials
  /\ orphans \subseteq Serials

(* A claim is exclusive: a row that the dispatcher still holds, and that   *)
(* was not purged meanwhile, is running with the attempts it was claimed   *)
(* with, whatever administrators, purges, enqueuers and retention did      *)
(* since (claim, runJob and finalize of core/jobs/jobs.go).                *)
HeldIsRunning ==
  \A c \in held :
    c.id \in Present /\ jobs[c.id].serial = c.serial =>
      /\ jobs[c.id].state = "running"
      /\ jobs[c.id].attempts = c.attempts

(* No running row is forgotten: the dispatcher holds it, or its            *)
(* finalization was abandoned or its process ended, the cases that the     *)
(* boot reclamation repairs (finalize, ReclaimOrphaned).                   *)
RunningIsOwned ==
  \A i \in InState("running") :
    \/ jobs[i].serial \in orphans
    \/ \E c \in held : c.id = i /\ c.serial = jobs[i].serial

(* Where no document is purged a job is marked done only after one run of  *)
(* all its subscribers returned nil for that very job (runJob, markDone:   *)
(* "updates state on success").                                            *)
DoneOnlyIfHandled ==
  doomed = {} => \A i \in InState("done") : jobs[i].serial \in succeeded

(* While the process stays up every submitted job keeps getting settled:   *)
(* done, dead, or left to the boot reclamation because the database would  *)
(* not take its result (Run, finalize).                                    *)
Settled(s) ==
  \/ s \in orphans
  \/ \A i \in Present : jobs[i].serial = s => jobs[i].state \in {"done", "dead"}

EventuallySettled ==
  <>[]Up => \A s \in Serials : []<>Settled(s)

(* The table as a set of jobs that JobOutbox describes.  Nothing is        *)
(* promised where documents are purged.                                    *)
Status(s) ==
  IF s > enqueues \/ doomed # {} THEN "absent"
  ELSE IF \E i \in Present : jobs[i].serial = s
    THEN jobs[CHOOSE i \in Present : jobs[i].serial = s].state
  ELSE "gone"

Outbox == INSTANCE JobOutbox WITH
  Jobs <- Serials, status <- [s \in Serials |-> Status(s)],
  handled <- IF doomed = {} THEN succeeded ELSE {}

(* The dispatcher and the table implement the outbox as long as no         *)
(* document is purged (core/jobs/jobs.go as a whole).                      *)
ImplementsOutbox == Outbox!Spec

=============================================================================
