-------------------------- MODULE ApprovalsProofs --------------------------
(***************************************************************************)
(* What the run `approvals' checks on one definition, two runs and two     *)
(* documents, proved for every valid definition, any number of runs,       *)
(* documents and credentials, and all bounds.                              *)
(***************************************************************************)
EXTENDS Approvals, FiniteSetTheorems, TLAPS

-----------------------------------------------------------------------------
(* The inductive invariant.  Typed says where runs are and what the advance *)
(* in hand knows; LinkedRun relates one run, as x, with tasks and jobs.    *)

(* A run is at a state of its definition, and its number was given out.    *)
RunsKnown ==
  \A r \in RunIds : runs[r] # NoRun => r <= lastRun /\ runs[r].at \in DOMAIN SpecOf(runs[r]).states

(* The copy of the run an advance read is the run itself as long as the    *)
(* revision is the same.                                                   *)
WorkKnown ==
  work # NoWork =>
    LET r == work.job.run IN
    /\ r \in RunIds /\ work.job.rev = work.run.rev /\ work.job.state = "running"
    /\ work.run.at \in DOMAIN SpecOf(work.run).states
    /\ runs[r] # NoRun =>
         /\ runs[r].def = work.run.def /\ runs[r].doc = work.run.doc
         /\ work.run.rev <= runs[r].rev
         /\ runs[r].rev = work.run.rev => runs[r].at = work.run.at

Typed == TypeOK /\ IsFiniteSet(jobs) /\ RunsKnown /\ WorkKnown

Live(x) == x # NoRun /\ x.status = "running"

(* A task was asked in a state that asks; what was chosen could be chosen; *)
(* the task of the present revision is open, and every other one closed.   *)
TaskKnown(x, t) ==
  /\ x # NoRun /\ t.rev <= x.rev
  /\ t.at \in DOMAIN SpecOf(x).states
  /\ SpecOf(x).states[t.at].kind = "approve"
  /\ t.status = "resolved" => t.choice \in SpecOf(x).states[t.at].choices
  /\ Live(x) /\ t.rev = x.rev => t.status = "open"
  /\ t.status = "open" => Live(x) /\ x.at = t.at /\ x.rev = t.rev

(* The task whose accepted choice the run has not carried out yet.         *)
Decided(r, x, t) == t.run = r /\ t.status = "resolved" /\ t.at = x.at /\ t.rev + 1 = x.rev

(* No job is bound to a revision its run has not reached.                  *)
JobsBehind(r, x, js) == x # NoRun => \A j \in js : j.run = r => j.rev <= x.rev
TasksKnown(r, x, ts) == \A t \in ts : t.run = r => TaskKnown(x, t)
OneTaskPerVisit(r, ts) ==
  \A t, u \in ts : t.run = r /\ u.run = r /\ t.at = u.at /\ t.rev = u.rev => t = u
Moves(r, x, ts, js) ==
  Live(x) => \/ \E t \in ts : t.run = r /\ t.status = "open"
             \/ \E j \in js : j.run = r /\ j.rev = x.rev
(* Once a decision is accepted nothing else is under way for the run: no   *)
(* deadline, no open task, and every job for the revision carries the      *)
(* choice.                                                                 *)
DecisionAlone(r, x, ts, js) ==
  Live(x) => \A t \in ts : Decided(r, x, t) =>
    /\ x.deadline = "none"
    /\ \A u \in ts : u.run = r => u.status # "open"
    /\ \A j \in js : j.run = r /\ j.rev = x.rev => j.trigger = t.choice

LinkedRun(r, x, ts, js) ==
  /\ JobsBehind(r, x, js) /\ TasksKnown(r, x, ts) /\ OneTaskPerVisit(r, ts)
  /\ Moves(r, x, ts, js) /\ DecisionAlone(r, x, ts, js)

Linked == \A r \in RunIds : LinkedRun(r, runs[r], tasks, jobs)

(* Whoever wrote to a document is done.                                    *)
WriterIsDone ==
  \A r \in RunIds : applied[r] # 0 => r <= lastRun /\ ~Running(runs, r)

IInv == Typed /\ Linked /\ WriterIsDone


-----------------------------------------------------------------------------
(* Definitions and the operators on runs, tasks and jobs.                  *)

LEMMA Numbers == MaxAttempts \in Nat \ {0} /\ MaxRuns \in Nat /\ MaxRev \in Nat
  BY FlowAssumption, Zenon

LEMMA NoAttempt == 0 \in 0..MaxAttempts /\ 0 # MaxAttempts
  BY Numbers

LEMMA JobNumbers ==
  ASSUME NEW j \in Jobs
  PROVE  j.attempts \in 0..MaxAttempts /\ j.rev \in Nat /\ j.run \in RunIds \cup {0}
  BY DEF Jobs

LEMMA OneMore ==
  ASSUME NEW a \in 0..MaxAttempts, a # MaxAttempts
  PROVE  /\ a + 1 \in 0..MaxAttempts
         /\ a + 1 = MaxAttempts <=> a + 1 >= MaxAttempts
  BY Numbers

(* What Validate and the built-in definition give for the definition of    *)
(* any run.                                                                *)
LEMMA SpecFacts ==
  ASSUME NEW x \in Runs
  PROVE  /\ SpecOf(x).start \in DOMAIN SpecOf(x).states
         /\ DOMAIN SpecOf(x).states \subseteq DOMAIN Flow.states \cup DOMAIN DocumentChangeSpec.states
         /\ \A k \in DOMAIN SpecOf(x).states :
              /\ SpecOf(x).states[k].kind = "approve" =>
                   /\ SpecOf(x).states[k].choices \subseteq DOMAIN SpecOf(x).states[k].on
                   /\ k \in DOMAIN Flow.states \cup {"review"}
              /\ SpecOf(x).states[k].kind = "change" =>
                   /\ k = "apply"
                   /\ \A e \in DOMAIN SpecOf(x).states[k].on :
                        SpecOf(x).states[SpecOf(x).states[k].on[e]].kind = "end"
              /\ \A e \in DOMAIN SpecOf(x).states[k].on :
                   e # "" /\ SpecOf(x).states[k].on[e] \in DOMAIN SpecOf(x).states
  <1>1. CASE x.def = "flow"
    <2>1. SpecOf(x) = Flow
      BY <1>1 DEF SpecOf
    <2>2. QED
      BY <2>1, FlowAssumption DEF Validate
  <1>2. CASE x.def = "change"
    <2>1. SpecOf(x) = DocumentChangeSpec
      BY <1>2 DEF SpecOf
    <2>2. DocumentChangeSpec.states =
            [review |-> [kind |-> "approve", choices |-> {"apply", "reject"}, timed |-> FALSE,
                         on |-> [apply |-> "apply", reject |-> "end"]],
             apply  |-> [kind |-> "change", choices |-> {}, timed |-> FALSE,
                         on |-> [success |-> "end"]],
             end    |-> [kind |-> "end", choices |-> {}, timed |-> FALSE, on |-> <<>>]]
      BY DEF DocumentChangeSpec
    <2>3. /\ DOMAIN DocumentChangeSpec.states = {"review", "apply", "end"}
          /\ DocumentChangeSpec.states["review"].kind = "approve"
          /\ DocumentChangeSpec.states["apply"].kind = "change"
          /\ DocumentChangeSpec.states["end"].kind = "end"
          /\ DocumentChangeSpec.states["apply"].on = [success |-> "end"]
      BY <2>2
    <2>4. /\ DOMAIN DocumentChangeSpec.states["apply"].on = {"success"}
          /\ DocumentChangeSpec.states["apply"].on["success"] = "end"
      BY <2>3
    <2>5. /\ DocumentChangeSpec.start \in DOMAIN DocumentChangeSpec.states
          /\ \A k \in DOMAIN DocumentChangeSpec.states :
               /\ DocumentChangeSpec.states[k].kind = "approve" =>
                    DocumentChangeSpec.states[k].choices \subseteq DOMAIN DocumentChangeSpec.states[k].on
               /\ \A e \in DOMAIN DocumentChangeSpec.states[k].on :
                    /\ e # ""
                    /\ DocumentChangeSpec.states[k].on[e] \in DOMAIN DocumentChangeSpec.states
      BY FlowAssumption DEF Validate
    <2>6. \A k \in DOMAIN DocumentChangeSpec.states :
            /\ DocumentChangeSpec.states[k].kind = "approve" => k = "review"
            /\ DocumentChangeSpec.states[k].kind = "change" =>
                 /\ k = "apply"
                 /\ \A e \in DOMAIN DocumentChangeSpec.states[k].on :
                      DocumentChangeSpec.states[k].on[e] = "end"
      BY <2>3, <2>4
    <2>7. \A k \in DOMAIN DocumentChangeSpec.states :
            DocumentChangeSpec.states[k].kind = "change" =>
              \A e \in DOMAIN DocumentChangeSpec.states[k].on :
                DocumentChangeSpec.states[DocumentChangeSpec.states[k].on[e]].kind = "end"
      BY <2>3, <2>6
    <2> HIDE DEF DocumentChangeSpec
    <2> DEFINE D == DocumentChangeSpec.states
    <2>8. \A k \in DOMAIN D :
            /\ D[k].kind = "approve" =>
                 D[k].choices \subseteq DOMAIN D[k].on /\ k \in DOMAIN Flow.states \cup {"review"}
            /\ D[k].kind = "change" =>
                 k = "apply" /\ \A e \in DOMAIN D[k].on : D[D[k].on[e]].kind = "end"
            /\ \A e \in DOMAIN D[k].on : e # "" /\ D[k].on[e] \in DOMAIN D
      BY <2>5, <2>6, <2>7, Zenon
    <2>9. DocumentChangeSpec.start \in DOMAIN D
          /\ DOMAIN D \subseteq DOMAIN Flow.states \cup DOMAIN D
      BY <2>5
    <2>10. QED
      BY <2>1, <2>8, <2>9, Zenon
  <1>3. QED
    BY <1>1, <1>2 DEF Runs

LEMMA EventsNamed ==
  ASSUME NEW x \in Runs, NEW k \in DOMAIN SpecOf(x).states, NEW e \in DOMAIN SpecOf(x).states[k].on
  PROVE  e # "" /\ SpecOf(x).states[k].on[e] \in DOMAIN SpecOf(x).states
  BY SpecFacts

LEMMA EffectEnds ==
  ASSUME NEW x \in Runs, NEW k \in DOMAIN SpecOf(x).states, SpecOf(x).states[k].kind = "change",
         NEW e \in DOMAIN SpecOf(x).states[k].on
  PROVE  k = "apply" /\ SpecOf(x).states[SpecOf(x).states[k].on[e]].kind = "end"
  BY SpecFacts

LEMMA DeadlineKnown == ASSUME NEW spec, NEW k PROVE DeadlineOf(spec, k) \in {"none", "armed"}
  BY DEF DeadlineOf

LEMMA SpecOfDef == ASSUME NEW x, NEW y, x.def = y.def PROVE SpecOf(x) = SpecOf(y)
  BY DEF SpecOf

(* The updates of a run keep the fields they do not name.                  *)
KeepsRun(x, y) == y \in Runs /\ y.def = x.def /\ y.doc = x.doc /\ y.base = x.base

LEMMA RunDeadline ==
  ASSUME NEW x \in Runs, NEW dl \in {"none", "armed", "due"}
  PROVE  LET y == [x EXCEPT !.deadline = dl] IN
         KeepsRun(x, y) /\ y.status = x.status /\ y.at = x.at /\ y.rev = x.rev /\ y.deadline = dl
  BY DEF KeepsRun, Runs

LEMMA RunAccepted ==
  ASSUME NEW x \in Runs
  PROVE  /\ KeepsRun(x, Accepted(x)) /\ Accepted(x).status = x.status /\ Accepted(x).at = x.at
         /\ Accepted(x).rev = x.rev + 1 /\ Accepted(x).deadline = "none"
  <1> DEFINE n == x.rev + 1
  <1>1. Accepted(x) = [x EXCEPT !.rev = n, !.deadline = "none"]
    BY DEF Accepted
  <1>2. n \in Nat
    BY DEF Runs
  <1> HIDE DEF n
  <1>3. LET y == [x EXCEPT !.rev = n, !.deadline = "none"] IN
        KeepsRun(x, y) /\ y.status = x.status /\ y.at = x.at /\ y.rev = n /\ y.deadline = "none"
    BY <1>2 DEF KeepsRun, Runs
  <1>4. QED
    BY <1>1, <1>3 DEF n

LEMMA RunMoved ==
  ASSUME NEW x \in Runs, NEW next \in DOMAIN SpecOf(x).states
  PROVE  /\ KeepsRun(x, Moved(x, next)) /\ Moved(x, next).at = next /\ Moved(x, next).rev = x.rev + 1
         /\ Moved(x, next).status = IF SpecOf(x).states[next].kind = "end" THEN "done" ELSE "running"
  <1>1. next \in DOMAIN Flow.states \cup DOMAIN DocumentChangeSpec.states
    BY SpecFacts
  <1>2. DeadlineOf(SpecOf(x), next) \in {"none", "armed"}
    BY DeadlineKnown
  <1> DEFINE dl == DeadlineOf(SpecOf(x), next)
             st == IF SpecOf(x).states[next].kind = "end" THEN "done" ELSE "running"
             n == x.rev + 1
  <1>3. Moved(x, next) = [x EXCEPT !.at = next, !.rev = n, !.deadline = dl, !.status = st]
    BY DEF Moved
  <1>4. dl \in {"none", "armed"} /\ st \in {"done", "running"} /\ n \in Nat
    BY <1>2 DEF Runs
  <1> HIDE DEF dl, st, n
  <1>5. LET y == [x EXCEPT !.at = next, !.rev = n, !.deadline = dl, !.status = st] IN
        KeepsRun(x, y) /\ y.at = next /\ y.rev = n /\ y.status = st
    BY <1>1, <1>4 DEF KeepsRun, Runs
  <1>6. QED
    BY <1>3, <1>5 DEF st, n

LEMMA RunNew ==
  ASSUME TypeOK, NEW def \in {"flow", "change"}, NEW d \in Docs
  PROVE  LET x == NewRun(def, d) IN
         /\ x \in Runs /\ x.def = def /\ x.doc = d /\ x.status = "running" /\ x.rev = 0
         /\ x.at \in DOMAIN SpecOf(x).states
  <1> DEFINE spec == IF def = "flow" THEN Flow ELSE DocumentChangeSpec
             x == NewRun(def, d)
  <1>1. x = [def |-> def, doc |-> d, status |-> "running", at |-> spec.start, rev |-> 0,
             deadline |-> DeadlineOf(spec, spec.start), base |-> docs[d].gen]
    BY DEF NewRun
  <1>2. docs[d].gen \in Nat /\ DeadlineOf(spec, spec.start) \in {"none", "armed"}
    BY DeadlineKnown DEF TypeOK
  <1>3. spec.start \in DOMAIN spec.states
    BY FlowAssumption DEF Validate
  <1>4. DOMAIN spec.states \subseteq DOMAIN Flow.states \cup DOMAIN DocumentChangeSpec.states
    OBVIOUS
  <1> HIDE DEF spec
  <1>5. /\ x \in Runs /\ x.def = def /\ x.doc = d /\ x.status = "running" /\ x.rev = 0
        /\ x.at = spec.start
    BY <1>1, <1>2, <1>3, <1>4 DEF Runs
  <1>6. SpecOf(x) = spec
    BY <1>5 DEF SpecOf, spec
  <1>7. QED
    BY <1>3, <1>5, <1>6

LEMMA SameRev == ASSUME NEW y \in Runs, NEW n, n = y.rev PROVE n <= y.rev
  <1>1. y.rev \in Nat
    BY DEF Runs
  <1>2. \A m \in Nat : m <= m
    OBVIOUS
  <1>3. QED
    BY <1>1, <1>2

(* Closing runs and expiring their tasks.                                  *)
LEMMA FinalizedIs ==
  ASSUME NEW rs \in [RunIds -> Runs \cup {NoRun}], NEW S, \A r \in S : rs[r] \in Runs,
         NEW st \in {"done", "failed", "cancelled"}
  PROVE  /\ Finalized(rs, S, st) \in [RunIds -> Runs \cup {NoRun}]
         /\ \A r \in RunIds \ S : Finalized(rs, S, st)[r] = rs[r]
         /\ \A r \in RunIds \cap S :
              LET y == Finalized(rs, S, st)[r] IN
              KeepsRun(rs[r], y) /\ y.status = st /\ y.at = rs[r].at /\ y.rev = rs[r].rev
  <1>1. \A r \in RunIds : Finalized(rs, S, st)[r] =
          IF r \in S THEN [rs[r] EXCEPT !.status = st] ELSE rs[r]
    BY DEF Finalized
  <1>2. ASSUME NEW r \in RunIds \cap S
        PROVE  LET y == Finalized(rs, S, st)[r] IN
               KeepsRun(rs[r], y) /\ y.status = st /\ y.at = rs[r].at /\ y.rev = rs[r].rev
    <2>1. Finalized(rs, S, st)[r] = [rs[r] EXCEPT !.status = st] /\ rs[r] \in Runs
      BY <1>1
    <2>2. LET y == [rs[r] EXCEPT !.status = st] IN
          KeepsRun(rs[r], y) /\ y.status = st /\ y.at = rs[r].at /\ y.rev = rs[r].rev
      BY <2>1 DEF KeepsRun, Runs
    <2>3. QED
      BY <2>1, <2>2
  <1>3. \A r \in RunIds : Finalized(rs, S, st)[r] \in Runs \cup {NoRun}
    BY <1>1, <1>2 DEF KeepsRun
  <1>4. QED
    BY <1>1, <1>2, <1>3 DEF Finalized

SameAsk(t, u) == u.run = t.run /\ u.at = t.at /\ u.rev = t.rev

(* u is what becomes of t when the runs in S lose their open tasks.        *)
Becomes(t, u, S) ==
  /\ SameAsk(t, u)
  /\ IF t.run \in S /\ t.status = "open"
     THEN u = [t EXCEPT !.status = "expired"] /\ u.status = "expired"
     ELSE u = t

LEMMA ExpiredIs ==
  ASSUME NEW ts \in SUBSET Tasks, NEW S
  PROVE  /\ Expired(ts, S) \in SUBSET Tasks
         /\ \A u \in Expired(ts, S) : \E t \in ts : Becomes(t, u, S)
         /\ \A t \in ts : t.run \notin S \/ t.status # "open" => t \in Expired(ts, S)
  <1>1. ASSUME NEW t \in Tasks
        PROVE  LET u == [t EXCEPT !.status = "expired"] IN
               u \in Tasks /\ SameAsk(t, u) /\ u.status = "expired"
    BY DEF Tasks, SameAsk
  <1> DEFINE ex(t) == IF t.run \in S /\ t.status = "open" THEN [t EXCEPT !.status = "expired"] ELSE t
  <1>2. Expired(ts, S) = {ex(t) : t \in ts}
    BY DEF Expired
  <1>3. \A t \in ts : ex(t) \in Tasks /\ Becomes(t, ex(t), S)
    BY <1>1 DEF Becomes, SameAsk
  <1>4. QED
    BY <1>2, <1>3

(* The updates of a job.                                                   *)
SameJob(j, k) == k.run = j.run /\ k.rev = j.rev /\ k.trigger = j.trigger

LEMMA JobState ==
  ASSUME NEW j \in Jobs, NEW st \in {"pending", "running", "dead"}
  PROVE  LET k == [j EXCEPT !.state = st] IN
         k \in Jobs /\ SameJob(j, k) /\ k.state = st /\ k.attempts = j.attempts
  BY DEF Jobs, SameJob

LEMMA JobFailed ==
  ASSUME NEW j \in Jobs, j.attempts # MaxAttempts
  PROVE  /\ Failed(j) \in Jobs /\ SameJob(j, Failed(j))
         /\ Failed(j).attempts = MaxAttempts <=> Failed(j).state = "dead"
  <1> DEFINE st == IF j.attempts + 1 >= MaxAttempts THEN "dead" ELSE "pending"
             a == j.attempts + 1
  <1>1. Failed(j) = [j EXCEPT !.attempts = a, !.state = st]
    BY DEF Failed
  <1>2. a \in 0..MaxAttempts /\ st \in {"pending", "dead"} /\ (a = MaxAttempts <=> st = "dead")
    BY JobNumbers, OneMore
  <1> HIDE DEF a, st
  <1>3. QED
    BY <1>1, <1>2 DEF Jobs, SameJob

LEMMA JobRetried ==
  ASSUME NEW j \in Jobs
  PROVE  LET k == [j EXCEPT !.state = "pending", !.attempts = 0] IN
         k \in Jobs /\ SameJob(j, k) /\ k.state = "pending" /\ k.attempts = 0
  <1>1. 0 \in 0..MaxAttempts
    BY NoAttempt
  <1>2. ASSUME NEW a \in 0..MaxAttempts
        PROVE  LET k == [j EXCEPT !.state = "pending", !.attempts = a] IN
               k \in Jobs /\ SameJob(j, k) /\ k.state = "pending" /\ k.attempts = a
    BY DEF Jobs, SameJob
  <1>3. QED
    BY <1>1, <1>2

(* The image of a finite set, for a function where the library's theorem   *)
(* has an operator.                                                        *)
LEMMA FiniteImage ==
  ASSUME NEW S, IsFiniteSet(S), NEW f
  PROVE  IsFiniteSet({f[x] : x \in S}) /\ Cardinality({f[x] : x \in S}) <= Cardinality(S)
  <1> DEFINE T == {f[x] : x \in S}
             g == [x \in S |-> f[x]]
  <1>1. g \in Surjection(S, T)
    BY DEF Surjection
  <1> HIDE DEF g, T
  <1>2. IsFiniteSet(T) /\ Cardinality(T) <= Cardinality(S)
    BY <1>1, FS_Surjection
  <1>3. QED
    BY <1>2 DEF T

(* A sweep's successor gets a number no other sweep has.                   *)
LEMMA FreeNumber ==
  ASSUME NEW js \in SUBSET Jobs, IsFiniteSet(js)
  PROVE  \E k \in 1..(Cardinality(js) + 1) : \A j \in js : IsSweep(j) => j.rev # k
  <1> DEFINE n == Cardinality(js)
             f == [j \in js |-> j.rev]
             revs == {f[j] : j \in js}
  <1>1. n \in Nat
    BY FS_CardinalityType
  <1>2. IsFiniteSet(revs) /\ Cardinality(revs) <= n
    BY FiniteImage
  <1>3. SUFFICES ASSUME 1..(n + 1) \subseteq revs PROVE FALSE
    BY <1>1
  <1>4. Cardinality(1..(n + 1)) = n + 1
    BY <1>1, FS_Interval
  <1>5. Cardinality(1..(n + 1)) <= Cardinality(revs) /\ Cardinality(revs) \in Nat
    BY <1>2, <1>3, FS_Subset, FS_CardinalityType
  <1>6. QED
    BY <1>1, <1>2, <1>4, <1>5

LEMMA WithSweepIs ==
  ASSUME NEW js \in SUBSET Jobs, IsFiniteSet(js)
  PROVE  /\ js \subseteq WithSweep(js) /\ WithSweep(js) \subseteq Jobs /\ IsFiniteSet(WithSweep(js))
         /\ \A j \in WithSweep(js) : j \in js \/ (j.run = 0 /\ j.state = "pending" /\ j.attempts = 0)
  <1>1. CASE \E j \in js : IsSweep(j) /\ j.state = "pending"
    BY <1>1 DEF WithSweep
  <1>2. CASE ~ \E j \in js : IsSweep(j) /\ j.state = "pending"
    <2> DEFINE k == CHOOSE k \in 1..(Cardinality(js) + 1) : \A j \in js : IsSweep(j) => j.rev # k
    <2>1. k \in 1..(Cardinality(js) + 1)
      BY FreeNumber
    <2>2. k \in Nat
      BY <2>1, FS_CardinalityType
    <2>3. WithSweep(js) = js \cup {SweepJob(k)}
      BY <1>2 DEF WithSweep
    <2> HIDE DEF k
    <2>4. SweepJob(k) \in Jobs /\ SweepJob(k).run = 0 /\ SweepJob(k).state = "pending"
          /\ SweepJob(k).attempts = 0
      BY <2>2, NoAttempt DEF SweepJob, AdvanceJob, Jobs
    <2>5. IsFiniteSet(js \cup {SweepJob(k)})
      BY FS_AddElement
    <2>6. QED
      BY <2>3, <2>4, <2>5
  <1>3. QED
    BY <1>1, <1>2

-----------------------------------------------------------------------------
(* What a step does to one run, with its tasks and jobs before (x, ts, js) *)
(* and after (y, us, ks).                                                  *)
JobsFrom(r, js, ks) == \A k \in ks : k.run = r => \E j \in js : SameJob(j, k)
JobsTo(r, x, js, ks) == \A j \in js : j.run = r /\ j.rev = x.rev => \E k \in ks : SameJob(j, k)
SameTasks(r, ts, us) ==
  (\A t \in ts : t.run = r => t \in us) /\ (\A u \in us : u.run = r => u \in ts)
TasksExpire(r, ts, us) == \A u \in us : u.run = r => \E t \in ts : Becomes(t, u, {r})

(* The run is left alone.                                                  *)
LEMMA RunKept ==
  ASSUME NEW r, NEW x, NEW ts, NEW js, NEW us, NEW ks, LinkedRun(r, x, ts, js),
         SameTasks(r, ts, us), JobsFrom(r, js, ks),
         JobsTo(r, x, js, ks) \/ \E t \in ts : t.run = r /\ t.status = "open"
  PROVE  LinkedRun(r, x, us, ks)
  <1>1. JobsBehind(r, x, ks)
    BY DEF LinkedRun, JobsBehind, JobsFrom, SameJob
  <1>2. TasksKnown(r, x, us) /\ OneTaskPerVisit(r, us)
    BY DEF LinkedRun, TasksKnown, OneTaskPerVisit, SameTasks
  <1>3. Moves(r, x, us, ks)
    BY DEF LinkedRun, Moves, SameTasks, JobsTo, SameJob
  <1>4. DecisionAlone(r, x, us, ks)
    BY DEF LinkedRun, DecisionAlone, SameTasks, JobsFrom, SameJob, Decided
  <1>5. QED
    BY <1>1, <1>2, <1>3, <1>4 DEF LinkedRun

(* A task of a run that loses its open tasks.                              *)
LEMMA OneStays ==
  ASSUME NEW r, NEW ts, NEW us, OneTaskPerVisit(r, ts), TasksExpire(r, ts, us)
  PROVE  OneTaskPerVisit(r, us) /\ \A u \in us : u.run = r => u.status # "open"
  <1>1. ASSUME NEW u \in us, NEW v \in us, u.run = r, v.run = r, u.at = v.at, u.rev = v.rev
        PROVE  u = v
    <2>1. PICK t1 \in ts : Becomes(t1, u, {r})
      BY <1>1 DEF TasksExpire
    <2>2. PICK t2 \in ts : Becomes(t2, v, {r})
      BY <1>1 DEF TasksExpire
    <2>3. t1 = t2
      BY <1>1, <2>1, <2>2 DEF Becomes, SameAsk, OneTaskPerVisit
    <2>4. QED
      BY <2>1, <2>2, <2>3 DEF Becomes
  <1>2. ASSUME NEW u \in us, u.run = r PROVE u.status # "open"
    BY <1>2 DEF TasksExpire, Becomes, SameAsk
  <1>3. QED
    BY <1>1, <1>2 DEF OneTaskPerVisit

(* The run ends where it is.                                               *)
LEMMA RunClosed ==
  ASSUME NEW r, NEW x, NEW y, NEW ts, NEW js, NEW us, NEW ks, LinkedRun(r, x, ts, js),
         x # NoRun, y # NoRun, KeepsRun(x, y), y.status # "running", y.rev = x.rev,
         TasksExpire(r, ts, us), JobsFrom(r, js, ks)
  PROVE  LinkedRun(r, y, us, ks)
  <1>1. JobsBehind(r, y, ks)
    BY DEF LinkedRun, JobsBehind, JobsFrom, SameJob
  <1>2. ASSUME NEW u \in us, u.run = r PROVE TaskKnown(y, u)
    <2>1. PICK t \in ts : Becomes(t, u, {r})
      BY <1>2 DEF TasksExpire
    <2>2. TaskKnown(x, t) /\ SpecOf(y) = SpecOf(x)
      BY <1>2, <2>1, SpecOfDef DEF LinkedRun, TasksKnown, Becomes, SameAsk, KeepsRun
    <2>3. u.status # "open"
      BY <1>2, OneStays DEF LinkedRun
    <2>4. u.status = "resolved" => u = t
      BY <2>1 DEF Becomes
    <2>5. u.at = t.at /\ u.rev = t.rev
      BY <2>1 DEF Becomes, SameAsk
    <2>6. QED
      BY <2>2, <2>3, <2>4, <2>5 DEF TaskKnown, Live
  <1>3. OneTaskPerVisit(r, us)
    BY OneStays DEF LinkedRun
  <1>4. QED
    BY <1>1, <1>2, <1>3 DEF LinkedRun, TasksKnown, Moves, DecisionAlone, Live

(* The run goes on to its next revision without its tasks: a transition or *)
(* a timeout.                                                              *)
LEMMA RunLeft ==
  ASSUME NEW r, NEW x \in Runs, NEW y \in Runs, NEW ts \in SUBSET Tasks, NEW us \in SUBSET Tasks,
         NEW js \in SUBSET Jobs, NEW ks \in SUBSET Jobs, LinkedRun(r, x, ts, js),
         Live(x), y # NoRun, KeepsRun(x, y), y.rev = x.rev + 1, TasksExpire(r, ts, us),
         \A k \in ks : k.run = r => k.rev = y.rev \/ \E j \in js : SameJob(j, k),
         y.status = "running" => \E k \in ks : k.run = r /\ k.rev = y.rev
  PROVE  LinkedRun(r, y, us, ks)
  <1> USE DEF Live
  <1>1. x.rev \in Nat /\ y.rev = x.rev + 1
    BY DEF Runs
  <1>2. JobsBehind(r, y, ks)
    <2>1. ASSUME NEW k \in ks, k.run = r, NEW j \in js, SameJob(j, k) PROVE k.rev <= y.rev
      <3>1. j.rev <= x.rev /\ k.rev = j.rev /\ j.rev \in Nat
        BY <2>1, JobNumbers DEF SameJob, LinkedRun, JobsBehind
      <3>2. QED
        BY <1>1, <3>1
    <2>2. ASSUME NEW k \in ks, k.rev = y.rev PROVE k.rev <= y.rev
      BY <1>1, <2>2
    <2>3. QED
      BY <2>1, <2>2 DEF JobsBehind
  <1>3. ASSUME NEW u \in us, u.run = r
        PROVE  TaskKnown(y, u) /\ ~Decided(r, y, u)
    <2>1. PICK t \in ts : Becomes(t, u, {r})
      BY <1>3 DEF TasksExpire
    <2>2. u.at = t.at /\ u.rev = t.rev /\ t.run = r
      BY <1>3, <2>1 DEF Becomes, SameAsk
    <2>3. TaskKnown(x, t) /\ SpecOf(y) = SpecOf(x)
      BY <2>2, SpecOfDef DEF LinkedRun, TasksKnown, KeepsRun
    <2>4. u.status # "open"
      BY <1>3, OneStays DEF LinkedRun
    <2>5. u.status = "resolved" => u = t
      BY <2>1 DEF Becomes
    <2>6. t.rev \in Nat /\ t.rev <= x.rev
      BY <2>3 DEF TaskKnown, Tasks
    <2>7. t.rev <= y.rev /\ t.rev # y.rev
      BY <1>1, <2>6
    <2>8. TaskKnown(y, u)
      BY <2>2, <2>3, <2>4, <2>5, <2>7 DEF TaskKnown
    <2>9. ASSUME Decided(r, y, u) PROVE FALSE
      <3>1. t.rev + 1 = x.rev + 1 /\ t.status = "resolved"
        BY <1>1, <2>2, <2>5, <2>9 DEF Decided
      <3>2. t.rev = x.rev
        BY <1>1, <2>6, <3>1
      <3>3. QED
        BY <2>3, <3>1, <3>2 DEF TaskKnown
    <2>10. QED
      BY <2>8, <2>9
  <1>4. OneTaskPerVisit(r, us)
    BY OneStays DEF LinkedRun
  <1>5. DecisionAlone(r, y, us, ks)
    BY <1>3 DEF DecisionAlone, Decided
  <1>6. QED
    BY <1>2, <1>3, <1>4, <1>5 DEF LinkedRun, TasksKnown, Moves

(* The run's deadline falls due.                                           *)
LEMMA RunDue ==
  ASSUME NEW r, NEW x \in Runs, NEW y \in Runs, NEW ts, NEW js, LinkedRun(r, x, ts, js),
         KeepsRun(x, y), x # NoRun, y # NoRun, x.deadline = "armed",
         y.status = x.status, y.at = x.at, y.rev = x.rev
  PROVE  LinkedRun(r, y, ts, js)
  <1>1. SpecOf(y) = SpecOf(x)
    BY SpecOfDef DEF KeepsRun
  <1>2. \A t : Decided(r, y, t) => Decided(r, x, t)
    BY DEF Decided
  <1>3. DecisionAlone(r, y, ts, js)
    BY <1>2 DEF LinkedRun, DecisionAlone, Live
  <1>4. JobsBehind(r, y, js) /\ Moves(r, y, ts, js)
    BY DEF LinkedRun, JobsBehind, Moves, Live
  <1>5. TasksKnown(r, y, ts)
    BY <1>1 DEF LinkedRun, TasksKnown, TaskKnown, Live
  <1>6. QED
    BY <1>3, <1>4, <1>5 DEF LinkedRun

(* A run is new, with its first job.                                       *)
LEMMA RunStarted ==
  ASSUME NEW r, NEW y \in Runs, NEW ts, NEW js, NEW ks, LinkedRun(r, NoRun, ts, js),
         \A j \in js : j.run # r, y # NoRun, y.rev = 0,
         ks = js \cup {AdvanceJob(r, "", 0)}
  PROVE  LinkedRun(r, y, ts, ks)
  <1>1. \A t \in ts : t.run # r
    BY DEF LinkedRun, TasksKnown, TaskKnown
  <1>2. AdvanceJob(r, "", 0).run = r /\ AdvanceJob(r, "", 0).rev = 0
    BY DEF AdvanceJob
  <1>3. JobsBehind(r, y, ks) /\ Moves(r, y, ts, ks)
    <2> DEFINE k == AdvanceJob(r, "", 0)
    <2>1. k.run = r /\ k.rev = y.rev
      BY <1>2
    <2>2. k \in ks /\ \A j \in ks : j = k \/ j \in js
      OBVIOUS
    <2> HIDE DEF k
    <2>3. k.rev <= y.rev
      BY <2>1, SameRev
    <2>4. QED
      BY <2>1, <2>2, <2>3 DEF JobsBehind, Moves
  <1>4. QED
    BY <1>1, <1>3 DEF LinkedRun, TasksKnown, OneTaskPerVisit, DecisionAlone, Decided

(* The run is deleted, and its tasks with it.                              *)
LEMMA RunPurged ==
  ASSUME NEW r, NEW ts, NEW js, \A t \in ts : t.run # r
  PROVE  LinkedRun(r, NoRun, ts, js)
  BY DEF LinkedRun, JobsBehind, TasksKnown, OneTaskPerVisit, Moves, DecisionAlone, Live

(* Its open task is resolved.                                              *)
LEMMA RunDecided ==
  ASSUME NEW r \in RunIds, NEW x \in Runs, NEW y \in Runs, NEW ts \in SUBSET Tasks, NEW js \in SUBSET Jobs,
         LinkedRun(r, x, ts, js), Live(x), y # NoRun, KeepsRun(x, y), y.rev = x.rev + 1,
         y.at = x.at, y.deadline = "none",
         NEW t \in ts, t.run = r, t.status = "open",
         NEW c, c \in SpecOf(x).states[x.at].choices,
         NEW v \in Tasks, SameAsk(t, v), v.status = "resolved", v.choice = c,
         NEW us, us = (ts \ {t}) \cup {v},
         NEW ks, ks = js \cup {AdvanceJob(r, c, t.rev + 1)}
  PROVE  LinkedRun(r, y, us, ks)
  <1> USE DEF Live
  <1> DEFINE k == AdvanceJob(r, c, t.rev + 1)
  <1>1. SpecOf(y) = SpecOf(x)
    BY SpecOfDef DEF KeepsRun
  <1>2. TaskKnown(x, t) /\ t.at = x.at /\ t.rev = x.rev
    BY DEF LinkedRun, TasksKnown, TaskKnown
  <1>3. k.run = r /\ k.rev = y.rev /\ k.trigger = c
    BY <1>2 DEF AdvanceJob
  <1>4. x.rev \in Nat /\ y.rev = x.rev + 1
    BY DEF Runs
  <1>5. \A j \in js : j.run = r => j.rev <= x.rev /\ j.rev \in Nat
    BY JobNumbers DEF LinkedRun, JobsBehind
  <1>6. \A j \in js : j.run = r => j.rev <= y.rev /\ j.rev # y.rev
    BY <1>4, <1>5
  <1>7. v.run = r /\ v.at = x.at /\ v.rev = x.rev
    BY <1>2 DEF SameAsk
  <1>8. ASSUME NEW u \in ts, u.run = r, u # t
        PROVE  u.status # "open" /\ (u.at # x.at \/ u.rev # x.rev)
    <2>1. u.at = x.at /\ u.rev = x.rev => u = t
      BY <1>2, <1>8 DEF LinkedRun, OneTaskPerVisit
    <2>2. TaskKnown(x, u)
      BY <1>8 DEF LinkedRun, TasksKnown
    <2>3. QED
      BY <1>8, <2>1, <2>2 DEF TaskKnown
  <1>9. JobsBehind(r, y, ks) /\ Moves(r, y, us, ks)
    <2>1. k \in ks /\ k.run = r /\ k.rev = y.rev /\ k.rev <= y.rev
      BY <1>3, <1>4
    <2>2. \A j \in ks : j = k \/ j \in js
      OBVIOUS
    <2> HIDE DEF k
    <2>3. QED
      BY <1>6, <2>1, <2>2 DEF JobsBehind, Moves
  <1>10. TasksKnown(r, y, us)
    <2>1. ASSUME NEW u \in ts, u.run = r, u # t PROVE TaskKnown(y, u)
      <3>1. TaskKnown(x, u) /\ u.rev \in Nat
        BY <2>1 DEF LinkedRun, TasksKnown, Tasks
      <3>2. u.rev <= y.rev /\ u.rev # y.rev
        BY <1>4, <3>1 DEF TaskKnown
      <3>3. QED
        BY <1>1, <1>8, <2>1, <3>1, <3>2 DEF TaskKnown
    <2>2. TaskKnown(y, v)
      <3>1. v.rev <= y.rev /\ v.rev # y.rev
        BY <1>4, <1>7
      <3>2. QED
        BY <1>1, <1>2, <1>7, <3>1 DEF TaskKnown
    <2>3. QED
      BY <2>1, <2>2 DEF TasksKnown
  <1>11. OneTaskPerVisit(r, us)
    <2>1. \A u \in us : u = v \/ (u \in ts /\ u # t)
      OBVIOUS
    <2>2. QED
      BY <1>7, <1>8, <2>1 DEF LinkedRun, OneTaskPerVisit
  <1>12. DecisionAlone(r, y, us, ks)
    <2>1. ASSUME NEW u \in us, Decided(r, y, u) PROVE u = v
      <3>1. u.rev + 1 = x.rev + 1 /\ u.rev \in Nat /\ u.at = x.at /\ u.run = r
        BY <1>4, <2>1 DEF Decided, Tasks
      <3>2. u.rev = x.rev
        BY <1>4, <3>1
      <3>3. QED
        BY <1>8, <3>1, <3>2
    <2>2. \A u \in us : u.run = r => u.status # "open"
      BY <1>8
    <2>3. \A j \in ks : j.run = r /\ j.rev = y.rev => j.trigger = v.choice
      <3>1. \A j \in ks : j = k \/ j \in js
        OBVIOUS
      <3>2. k.trigger = c
        BY <1>3
      <3> HIDE DEF k
      <3>3. QED
        BY <1>6, <3>1, <3>2
    <2>4. QED
      BY <2>1, <2>2, <2>3 DEF DecisionAlone
  <1>13. QED
    BY <1>9, <1>10, <1>11, <1>12 DEF LinkedRun

(* The run asks people: one task, which arms the deadline.                 *)
LEMMA RunAsked ==
  ASSUME NEW r \in RunIds, NEW x \in Runs, NEW y \in Runs, NEW ts \in SUBSET Tasks,
         NEW js \in SUBSET Jobs, NEW ks, LinkedRun(r, x, ts, js), Live(x), y # NoRun, KeepsRun(x, y),
         y.status = x.status, y.rev = x.rev, y.at = x.at,
         x.at \in DOMAIN SpecOf(x).states, SpecOf(x).states[x.at].kind = "approve",
         ~ \E t \in ts : t.run = r /\ t.at = x.at /\ t.rev = x.rev,
         NEW j \in js, j.run = r, j.rev = x.rev, j.trigger = "",
         NEW v, v.run = r, v.at = x.at, v.rev = x.rev, v.status = "open",
         NEW us, us = ts \cup {v}, JobsFrom(r, js, ks)
  PROVE  LinkedRun(r, y, us, ks)
  <1> USE DEF Live
  <1>1. SpecOf(y) = SpecOf(x)
    BY SpecOfDef DEF KeepsRun
  <1>2. x.rev <= y.rev
    BY SameRev
  <1>3. TasksKnown(r, y, us)
    <2>1. ASSUME NEW u \in ts, u.run = r PROVE TaskKnown(y, u)
      BY <1>1, <2>1 DEF LinkedRun, TasksKnown, TaskKnown
    <2>2. TaskKnown(y, v)
      BY <1>1, <1>2 DEF TaskKnown
    <2>3. QED
      BY <2>1, <2>2 DEF TasksKnown
  <1>4. OneTaskPerVisit(r, us)
    <2>1. ASSUME NEW t \in us, NEW u \in us, t.run = r, u.run = r, t.at = u.at, t.rev = u.rev
          PROVE  t = u
      <3>1. CASE t = v /\ u = v
        BY <3>1
      <3>2. CASE t = v /\ u # v
        <4>1. u \in ts /\ u.at = x.at /\ u.rev = x.rev
          BY <2>1, <3>2
        <4>2. QED
          BY <2>1, <4>1
      <3>3. CASE t # v /\ u = v
        <4>1. t \in ts /\ t.at = x.at /\ t.rev = x.rev
          BY <2>1, <3>3
        <4>2. QED
          BY <2>1, <4>1
      <3>4. CASE t # v /\ u # v
        BY <2>1, <3>4 DEF LinkedRun, OneTaskPerVisit
      <3>5. QED
        BY <3>1, <3>2, <3>3, <3>4
    <2>2. QED
      BY <2>1 DEF OneTaskPerVisit
  <1>5. JobsBehind(r, y, ks) /\ Moves(r, y, us, ks)
    BY DEF LinkedRun, JobsBehind, JobsFrom, SameJob, Moves
  <1>6. ASSUME NEW u \in us, Decided(r, y, u) PROVE FALSE
    <2>1. u \in ts /\ Decided(r, x, u)
      BY <1>6 DEF Decided
    <2>2. u.choice = ""
      BY <2>1 DEF LinkedRun, DecisionAlone
    <2>3. u.choice \in SpecOf(x).states[x.at].choices
      BY <2>1 DEF Decided, LinkedRun, TasksKnown, TaskKnown
    <2>4. u.choice \in DOMAIN SpecOf(x).states[x.at].on
      BY <2>3, SpecFacts
    <2>5. u.choice # ""
      BY <2>4, EventsNamed
    <2>6. QED
      BY <2>2, <2>5
  <1>7. DecisionAlone(r, y, us, ks)
    BY <1>6 DEF DecisionAlone
  <1>8. QED
    BY <1>3, <1>4, <1>5, <1>7 DEF LinkedRun

-----------------------------------------------------------------------------
(* What every step but the start of an advance does to the typed part.     *)
JobFine(j, n) == j \in Jobs /\ j.run <= n /\ (j.attempts = MaxAttempts <=> j.state = "dead")
JobsFine(js, n) == IsFiniteSet(js) /\ \A j \in js : JobFine(j, n)

LEMMA JobsPlus ==
  ASSUME NEW js, NEW n, JobsFine(js, n), NEW j, JobFine(j, n)
  PROVE  JobsFine(js \cup {j}, n)
  <1>1. IsFiniteSet(js \cup {j})
    BY FS_AddElement DEF JobsFine
  <1>2. QED
    BY <1>1 DEF JobsFine

LEMMA JobsLess ==
  ASSUME NEW js, NEW n, JobsFine(js, n), NEW ks \in SUBSET js
  PROVE  JobsFine(ks, n)
  <1>1. IsFiniteSet(ks)
    BY FS_Subset DEF JobsFine
  <1>2. QED
    BY <1>1 DEF JobsFine

LEMMA NewJobFine ==
  ASSUME NEW r \in RunIds \cup {0}, NEW trigger \in Choices \cup {"", "sweep", "timeout"},
         NEW rev \in Nat, NEW n, r <= n
  PROVE  JobFine(AdvanceJob(r, trigger, rev), n)
  <1> DEFINE j == AdvanceJob(r, trigger, rev)
  <1>1. j \in Jobs /\ j.run = r /\ j.state = "pending" /\ j.attempts = 0
    BY NoAttempt DEF AdvanceJob, Jobs
  <1> HIDE DEF j
  <1>2. JobFine(j, n)
    BY <1>1, NoAttempt DEF JobFine
  <1>3. QED
    BY <1>2 DEF j

(* A run goes on, or is deleted.                                           *)
RunGoes(x, y) ==
  /\ x # NoRun
  /\ y # NoRun =>
       /\ KeepsRun(x, y) /\ y.at \in DOMAIN SpecOf(y).states
       /\ x.rev <= y.rev /\ (y.rev = x.rev => y.at = x.at)
       /\ y.status = "running" => x.status = "running"
RunComes(r, y) == lastRun < r /\ r <= lastRun' /\ y.at \in DOMAIN SpecOf(y).states

RunsTyped ==
  /\ runs' \in [RunIds -> Runs \cup {NoRun}]
  /\ lastRun' \in 0..MaxRuns /\ lastRun <= lastRun'
  /\ \A r \in RunIds : \/ runs'[r] = runs[r] \/ RunGoes(runs[r], runs'[r])
                       \/ RunComes(r, runs'[r])
OthersTyped ==
  /\ docs' \in [Docs -> [state: {"live", "trashed", "purged"}, gen: Nat]]
  /\ sessions' \subseteq Sessions /\ up' \in BOOLEAN
  /\ spent' \in [DOMAIN Bounds -> Nat] /\ applied' \in [RunIds -> Nat]
WorkKept == work' = NoWork \/ (work' = work /\ up' = up /\ work.job \in jobs')

LEMMA JobsTyped == Typed => JobsFine(jobs, lastRun) /\ lastRun \in Nat
  BY Numbers DEF Typed, TypeOK, JobsFine, JobFine

LEMMA RunsKnownStep ==
  ASSUME Typed, RunsTyped
  PROVE  RunsKnown' /\ (WorkKept => WorkKnown')
  <1>1. lastRun \in Nat /\ lastRun' \in Nat /\ lastRun <= lastRun' /\ \A r \in RunIds : r \in Nat
    BY Numbers DEF Typed, TypeOK, RunsTyped, RunIds
  <1>2. ASSUME NEW r \in RunIds, runs'[r] # NoRun
        PROVE  r <= lastRun' /\ runs'[r].at \in DOMAIN SpecOf(runs'[r]).states
    <2>1. CASE runs'[r] = runs[r]
      <3>1. r <= lastRun /\ runs'[r].at \in DOMAIN SpecOf(runs'[r]).states
        BY <1>2, <2>1 DEF Typed, RunsKnown
      <3>2. QED
        BY <1>1, <3>1
    <2>2. CASE RunGoes(runs[r], runs'[r])
      <3>1. r <= lastRun
        BY <2>2 DEF Typed, RunsKnown, RunGoes
      <3>2. r <= lastRun'
        BY <1>1, <3>1
      <3>3. QED
        BY <1>2, <2>2, <3>2 DEF RunGoes
    <2>3. CASE RunComes(r, runs'[r])
      BY <2>3 DEF RunComes
    <2>4. QED
      BY <2>1, <2>2, <2>3 DEF RunsTyped
  <1>3. RunsKnown'
    BY <1>2 DEF RunsKnown, SpecOf
  <1>4. ASSUME WorkKept, work' # NoWork
        PROVE  WorkKnown'
    <2> DEFINE r == work.job.run
               x == runs[r]
               y == runs'[r]
    <2>1. work' = work /\ work # NoWork
      BY <1>4 DEF WorkKept
    <2>2. /\ r \in RunIds /\ work.job.rev = work.run.rev /\ work.job.state = "running"
          /\ work.run.at \in DOMAIN SpecOf(work.run).states
          /\ x # NoRun => /\ x.def = work.run.def /\ x.doc = work.run.doc /\ work.run.rev <= x.rev
                          /\ x.rev = work.run.rev => x.at = work.run.at
      BY <2>1 DEF Typed, WorkKnown
    <2>3. r <= lastRun /\ work.run.rev \in Nat
      BY <2>1 DEF Typed, TypeOK, Runs
    <2>4. r \in Nat
      BY <1>1, <2>2
    <2>5. ~RunComes(r, y)
      BY <1>1, <2>3, <2>4 DEF RunComes
    <2>6. CASE y = NoRun \/ y = x
      BY <2>1, <2>2, <2>6 DEF WorkKnown, SpecOf
    <2>7. CASE y # NoRun /\ RunGoes(x, y)
      <3>1. /\ x # NoRun /\ y.def = x.def /\ y.doc = x.doc
            /\ x.rev <= y.rev /\ (y.rev = x.rev => y.at = x.at) /\ y.rev \in Nat
        BY <2>7 DEF RunGoes, KeepsRun, Runs
      <3>2. x.rev \in Nat
        BY <2>2, <3>1 DEF Typed, TypeOK, Runs
      <3>3. work.run.rev <= y.rev /\ (y.rev = work.run.rev => x.rev = work.run.rev)
        BY <2>2, <2>3, <3>1, <3>2
      <3>4. /\ y.def = work.run.def /\ y.doc = work.run.doc /\ work.run.rev <= y.rev
            /\ y.rev = work.run.rev => y.at = work.run.at
        BY <2>2, <3>1, <3>3
      <3>5. QED
        BY <2>1, <2>2, <3>4 DEF WorkKnown, SpecOf
    <2>8. QED
      BY <2>2, <2>5, <2>6, <2>7 DEF RunsTyped
  <1>5. QED
    BY <1>3, <1>4 DEF WorkKnown

LEMMA TypedStep ==
  ASSUME Typed, RunsTyped, OthersTyped, tasks' \subseteq Tasks, JobsFine(jobs', lastRun'), WorkKept
  PROVE  Typed'
  <1>1. RunsKnown' /\ WorkKnown'
    BY RunsKnownStep
  <1>2. work' \in [job: Jobs, run: Runs] \cup {NoWork} /\ (work' # NoWork => work'.job \in jobs' /\ up')
    BY DEF Typed, TypeOK, WorkKept
  <1>3. /\ jobs' \subseteq Jobs /\ IsFiniteSet(jobs')
        /\ \A j \in jobs' : j.run <= lastRun' /\ (j.attempts = MaxAttempts <=> j.state = "dead")
    BY DEF JobsFine, JobFine
  <1>4. TypeOK'
    BY <1>2, <1>3 DEF TypeOK, RunsTyped, OthersTyped
  <1>5. QED
    BY <1>1, <1>3, <1>4 DEF Typed

LEMMA WriterKept ==
  ASSUME Typed, WriterIsDone, RunsTyped, NEW r \in RunIds, applied[r] # 0
  PROVE  r <= lastRun' /\ ~Running(runs', r)
  <1>1. lastRun \in Nat /\ lastRun' \in Nat /\ lastRun <= lastRun' /\ r \in Nat
    BY Numbers DEF Typed, TypeOK, RunsTyped, RunIds
  <1>2. r <= lastRun /\ ~Running(runs, r)
    BY DEF WriterIsDone
  <1>3. r <= lastRun' /\ ~RunComes(r, runs'[r])
    BY <1>1, <1>2 DEF RunComes
  <1>4. QED
    BY <1>2, <1>3 DEF RunsTyped, RunGoes, Running

LEMMA WriterStep ==
  ASSUME Typed, WriterIsDone, RunsTyped, applied' = applied
  PROVE  WriterIsDone'
  BY WriterKept DEF WriterIsDone, Running

LEMMA SpendTyped ==
  ASSUME Typed, NEW b \in {"starts", "acts", "mishaps"}, Spend(b)
  PROVE  spent' \in [DOMAIN Bounds -> Nat]
  <1>1. DOMAIN Bounds = {"starts", "acts", "mishaps"}
    BY FlowAssumption
  <1>2. spent[b] \in Nat
    BY <1>1 DEF Typed, TypeOK
  <1> DEFINE n == spent[b] + 1
  <1>3. n \in Nat
    BY <1>2
  <1>4. spent' = [spent EXCEPT ![b] = n]
    BY DEF Spend
  <1> HIDE DEF n
  <1>5. QED
    BY <1>3, <1>4 DEF Typed, TypeOK

-----------------------------------------------------------------------------
(* Steps that end the runs in S, if any, and leave the others alone.       *)
Closing(S) ==
  \A r \in RunIds :
    IF r \in S
    THEN /\ Live(runs[r]) /\ runs'[r] # NoRun /\ KeepsRun(runs[r], runs'[r])
         /\ runs'[r].status # "running" /\ runs'[r].at = runs[r].at /\ runs'[r].rev = runs[r].rev
         /\ TasksExpire(r, tasks, tasks')
    ELSE runs'[r] = runs[r] /\ SameTasks(r, tasks, tasks')

(* Jobs keep their run, revision and trigger, and one that is bound to the *)
(* present of its run stays, unless people were asked.                     *)
JobsCarried ==
  \A r \in RunIds :
    /\ JobsFrom(r, jobs, jobs')
    /\ \/ JobsTo(r, runs[r], jobs, jobs') \/ ~Live(runs[r])
       \/ \E t \in tasks : t.run = r /\ t.status = "open"

LEMMA ClosingStep ==
  ASSUME IInv, NEW S, Closing(S), JobsCarried,
         runs' \in [RunIds -> Runs \cup {NoRun}], tasks' \subseteq Tasks, lastRun' = lastRun,
         OthersTyped, applied' = applied
  PROVE  /\ JobsFine(jobs', lastRun) /\ WorkKept => IInv'
         /\ RunsTyped /\ Linked' /\ WriterIsDone'
  <1>1. RunsTyped
    <2>1. lastRun' \in 0..MaxRuns /\ lastRun <= lastRun'
      BY Numbers DEF IInv, Typed, TypeOK
    <2>2. ASSUME NEW r \in RunIds PROVE runs'[r] = runs[r] \/ RunGoes(runs[r], runs'[r])
      <3>1. CASE r \in S
        <4>1. /\ Live(runs[r]) /\ KeepsRun(runs[r], runs'[r])
              /\ runs'[r].status # "running" /\ runs'[r].at = runs[r].at /\ runs'[r].rev = runs[r].rev
          BY <3>1 DEF Closing
        <4>2. runs[r] # NoRun /\ runs'[r].at \in DOMAIN SpecOf(runs'[r]).states
          BY <4>1, SpecOfDef DEF IInv, Typed, RunsKnown, Live, KeepsRun
        <4>3. runs[r].rev <= runs'[r].rev
          BY <4>1, SameRev DEF KeepsRun
        <4>4. QED
          BY <4>1, <4>2, <4>3 DEF RunGoes
      <3>2. QED
        BY <3>1 DEF Closing
    <2>3. QED
      BY <2>1, <2>2 DEF RunsTyped
  <1>2. ASSUME NEW r \in RunIds PROVE LinkedRun(r, runs'[r], tasks', jobs')
    <2>1. LinkedRun(r, runs[r], tasks, jobs)
      BY DEF IInv, Linked
    <2>2. CASE r \in S
      <3>1. /\ runs[r] # NoRun /\ runs'[r] # NoRun /\ KeepsRun(runs[r], runs'[r])
            /\ runs'[r].status # "running" /\ runs'[r].rev = runs[r].rev
            /\ TasksExpire(r, tasks, tasks') /\ JobsFrom(r, jobs, jobs')
        BY <2>2 DEF Closing, Live, JobsCarried
      <3>2. QED
        BY <2>1, <3>1, RunClosed
    <2>3. CASE r \notin S
      <3>1. runs'[r] = runs[r] /\ SameTasks(r, tasks, tasks') /\ JobsFrom(r, jobs, jobs')
        BY <2>3 DEF Closing, JobsCarried
      <3>2. CASE Live(runs[r])
        <4>1. JobsTo(r, runs[r], jobs, jobs') \/ \E t \in tasks : t.run = r /\ t.status = "open"
          BY <3>2 DEF JobsCarried
        <4>2. QED
          BY <2>1, <3>1, <4>1, RunKept
      <3>3. CASE ~Live(runs[r])
        <4>1. JobsBehind(r, runs[r], jobs') /\ TasksKnown(r, runs[r], tasks') /\ OneTaskPerVisit(r, tasks')
          BY <2>1, <3>1 DEF LinkedRun, JobsBehind, JobsFrom, SameJob, TasksKnown, OneTaskPerVisit, SameTasks
        <4>2. QED
          BY <3>1, <3>3, <4>1 DEF LinkedRun, Moves, DecisionAlone
      <3>4. QED
        BY <3>2, <3>3
    <2>4. QED
      BY <2>2, <2>3
  <1>3. Linked'
    BY <1>2 DEF Linked
  <1>4. WriterIsDone'
    BY <1>1, WriterStep DEF IInv
  <1>5. ASSUME JobsFine(jobs', lastRun), WorkKept PROVE Typed'
    BY <1>1, <1>5, TypedStep DEF IInv
  <1>6. QED
    BY <1>1, <1>3, <1>4, <1>5 DEF IInv

(* No run is touched.                                                      *)
LEMMA NothingCloses ==
  ASSUME runs' = runs, tasks' = tasks
  PROVE  Closing({})
  BY DEF Closing, SameTasks

(* finalizeRun and expireOpenTasksForRun, for running runs.                *)
LEMMA RunsClose ==
  ASSUME Typed, NEW S \in SUBSET RunIds, \A r \in S : Running(runs, r),
         NEW st \in {"done", "failed", "cancelled"},
         runs' = Finalized(runs, S, st), tasks' = Expired(tasks, S)
  PROVE  Closing(S) /\ runs' \in [RunIds -> Runs \cup {NoRun}] /\ tasks' \subseteq Tasks
  <1>1. \A r \in S : runs[r] \in Runs /\ Live(runs[r])
    BY DEF Typed, TypeOK, Running, Live
  <1>2. runs \in [RunIds -> Runs \cup {NoRun}] /\ tasks \in SUBSET Tasks
    BY DEF Typed, TypeOK
  <1>3. /\ runs' \in [RunIds -> Runs \cup {NoRun}]
        /\ \A r \in RunIds \ S : runs'[r] = runs[r]
        /\ \A r \in RunIds \cap S :
             /\ KeepsRun(runs[r], runs'[r]) /\ runs'[r].status = st
             /\ runs'[r].at = runs[r].at /\ runs'[r].rev = runs[r].rev
    BY <1>1, <1>2, FinalizedIs
  <1>4. /\ tasks' \in SUBSET Tasks
        /\ \A u \in tasks' : \E t \in tasks : Becomes(t, u, S)
        /\ \A t \in tasks : t.run \notin S \/ t.status # "open" => t \in tasks'
    BY <1>2, ExpiredIs
  <1>5. ASSUME NEW r \in RunIds, r \in S
        PROVE  /\ Live(runs[r]) /\ runs'[r] # NoRun /\ KeepsRun(runs[r], runs'[r])
               /\ runs'[r].status # "running" /\ runs'[r].at = runs[r].at /\ runs'[r].rev = runs[r].rev
               /\ TasksExpire(r, tasks, tasks')
    <2>1. runs'[r] # NoRun
      BY <1>3, <1>5, MarkersAssumption DEF KeepsRun
    <2>2. TasksExpire(r, tasks, tasks')
      BY <1>4, <1>5 DEF TasksExpire, Becomes, SameAsk
    <2>3. QED
      BY <1>1, <1>3, <1>5, <2>1, <2>2
  <1>6. ASSUME NEW r \in RunIds, r \notin S
        PROVE  runs'[r] = runs[r] /\ SameTasks(r, tasks, tasks')
    BY <1>3, <1>4, <1>6 DEF SameTasks, Becomes, SameAsk
  <1>7. QED
    BY <1>3, <1>4, <1>5, <1>6 DEF Closing

(* Jobs that stay, all but one that its run has left behind; and one that  *)
(* changes its state.                                                      *)
LEMMA SameJobs ==
  ASSUME NEW ks, jobs \subseteq ks, \A k \in ks : k \in jobs \/ k.run = 0, jobs' = ks
  PROVE  JobsCarried
  <1>1. 0 \notin RunIds
    BY Numbers DEF RunIds
  <1>2. QED
    BY <1>1 DEF JobsCarried, JobsFrom, JobsTo, SameJob

LEMMA JobDone ==
  ASSUME NEW j \in jobs, jobs' = jobs \ {j},
         j.run \in RunIds => ~Current(j.run, j.rev) \/ \E t \in tasks : t.run = j.run /\ t.status = "open"
  PROVE  JobsCarried
  BY DEF JobsCarried, JobsFrom, JobsTo, SameJob, Current, Running, Live

LEMMA JobChanged ==
  ASSUME NEW j \in jobs, NEW k, SameJob(j, k), jobs' = (jobs \ {j}) \cup {k}
  PROVE  JobsCarried
  BY DEF JobsCarried, JobsFrom, JobsTo, SameJob

-----------------------------------------------------------------------------
(* Steps of people that start nothing and decide nothing.                  *)
LEMMA DocTyped ==
  ASSUME Typed, NEW d \in Docs
  PROVE  /\ [docs EXCEPT ![d].gen = @ + 1] \in [Docs -> [state: {"live", "trashed", "purged"}, gen: Nat]]
         /\ \A st \in {"live", "trashed", "purged"} :
              [docs EXCEPT ![d].state = st] \in [Docs -> [state: {"live", "trashed", "purged"}, gen: Nat]]
  <1>1. docs \in [Docs -> [state: {"live", "trashed", "purged"}, gen: Nat]]
    BY DEF Typed, TypeOK
  <1> DEFINE n == docs[d].gen + 1
  <1>2. n \in Nat
    BY <1>1
  <1>3. [docs EXCEPT ![d].gen = @ + 1] = [docs EXCEPT ![d].gen = n]
    BY <1>1
  <1> HIDE DEF n
  <1>4. [docs EXCEPT ![d].gen = n] \in [Docs -> [state: {"live", "trashed", "purged"}, gen: Nat]]
    BY <1>1, <1>2
  <1>5. QED
    BY <1>1, <1>3, <1>4

LEMMA JobsStay ==
  ASSUME Typed, jobs' = jobs
  PROVE  JobsCarried /\ JobsFine(jobs', lastRun)
  BY JobsTyped, SameJobs

LEMMA QuietStep ==
  ASSUME IInv, UNCHANGED <<runs, tasks, lastRun, jobs, work, up, applied>>,
         docs' \in [Docs -> [state: {"live", "trashed", "purged"}, gen: Nat]],
         spent' \in [DOMAIN Bounds -> Nat], sessions' \subseteq Sessions
  PROVE  IInv'
  <1>1. OthersTyped
    BY DEF OthersTyped, IInv, Typed, TypeOK
  <1>2. Closing({}) /\ JobsCarried /\ JobsFine(jobs', lastRun)
    BY NothingCloses, JobsStay DEF IInv
  <1>3. runs' \in [RunIds -> Runs \cup {NoRun}] /\ tasks' \subseteq Tasks /\ WorkKept
    BY DEF IInv, Typed, TypeOK, WorkKept
  <1>4. QED
    BY <1>1, <1>2, <1>3, ClosingStep

LEMMA DocStep ==
  ASSUME IInv, NEW d \in Docs, NewContent(d) \/ Trash(d, FALSE) \/ Restore(d)
  PROVE  IInv'
  <1>1. /\ UNCHANGED <<runs, tasks, lastRun, jobs, work, up, applied, sessions>>
        /\ spent' \in [DOMAIN Bounds -> Nat]
    BY SpendTyped DEF IInv, Typed, TypeOK, NewContent, Trash, Restore
  <1>2. docs' \in [Docs -> [state: {"live", "trashed", "purged"}, gen: Nat]]
    <2>1. CASE NewContent(d)
      <3>1. docs' = [docs EXCEPT ![d].gen = @ + 1]
        BY <2>1 DEF NewContent
      <3>2. QED
        BY <3>1, DocTyped DEF IInv
    <2>2. CASE Trash(d, FALSE) \/ Restore(d)
      <3>1. PICK st \in {"live", "trashed"} : docs' = [docs EXCEPT ![d].state = st]
        BY <2>2 DEF Trash, Restore
      <3>2. QED
        BY <3>1, DocTyped DEF IInv
    <2>3. QED
      BY <2>1, <2>2
  <1>3. QED
    BY <1>1, <1>2, QuietStep DEF IInv, Typed, TypeOK

LEMMA LogoutStep ==
  ASSUME IInv, NEW s \in Sessions, Logout(s)
  PROVE  IInv'
  <1>1. /\ UNCHANGED <<docs, runs, tasks, lastRun, jobs, work, up, applied>>
        /\ spent' \in [DOMAIN Bounds -> Nat] /\ sessions' \subseteq Sessions
    BY SpendTyped DEF IInv, Typed, TypeOK, Logout
  <1>2. QED
    BY <1>1, QuietStep DEF IInv, Typed, TypeOK

LEMMA ReconcileCloses ==
  ASSUME Typed, NEW ds, NEW D, Reconcile(ds, D)
  PROVE  /\ Closing(StaleReviews(runs, ds, D))
         /\ runs' \in [RunIds -> Runs \cup {NoRun}] /\ tasks' \subseteq Tasks
  <1> DEFINE S == StaleReviews(runs, ds, D)
  <1>1. S \in SUBSET RunIds /\ \A r \in S : Running(runs, r)
    BY DEF StaleReviews
  <1>2. runs' = Finalized(runs, S, "cancelled") /\ tasks' = Expired(tasks, S)
    BY DEF Reconcile
  <1> HIDE DEF S
  <1>3. Closing(S) /\ runs' \in [RunIds -> Runs \cup {NoRun}] /\ tasks' \subseteq Tasks
    BY <1>1, <1>2, RunsClose
  <1>4. QED
    BY <1>3 DEF S

LEMMA CancelStep ==
  ASSUME IInv, NEW r \in RunIds, Cancel(r)
  PROVE  IInv'
  <1>1. /\ UNCHANGED <<docs, lastRun, jobs, work, sessions, up, applied>> /\ Running(runs, r)
        /\ runs' = Finalized(runs, {r}, "cancelled") /\ tasks' = Expired(tasks, {r})
        /\ spent' \in [DOMAIN Bounds -> Nat]
    BY SpendTyped DEF Cancel, IInv
  <1>2. Closing({r}) /\ runs' \in [RunIds -> Runs \cup {NoRun}] /\ tasks' \subseteq Tasks
    BY <1>1, RunsClose DEF IInv
  <1>3. OthersTyped /\ WorkKept
    BY <1>1 DEF OthersTyped, WorkKept, IInv, Typed, TypeOK
  <1>4. JobsCarried /\ JobsFine(jobs', lastRun)
    BY <1>1, JobsStay DEF IInv
  <1>5. QED
    BY <1>1, <1>2, <1>3, <1>4, ClosingStep

LEMMA ObsoleteStep ==
  ASSUME IInv, NEW d \in Docs, Edit(d) \/ Trash(d, TRUE)
  PROVE  IInv'
  <1>1. /\ UNCHANGED <<lastRun, jobs, work, sessions, up, applied>>
        /\ spent' \in [DOMAIN Bounds -> Nat]
    BY SpendTyped DEF Edit, Trash, IInv
  <1>2. docs' \in [Docs -> [state: {"live", "trashed", "purged"}, gen: Nat]]
    <2>1. CASE Edit(d)
      <3>1. docs' = [docs EXCEPT ![d].gen = @ + 1]
        BY <2>1 DEF Edit
      <3>2. QED
        BY <3>1, DocTyped DEF IInv
    <2>2. CASE Trash(d, TRUE)
      BY <2>2, DocTyped DEF IInv, Trash
    <2>3. QED
      BY <2>1, <2>2
  <1>3. PICK ds : Reconcile(ds, {d})
    BY DEF Edit, Trash
  <1>4. PICK S : Closing(S) /\ runs' \in [RunIds -> Runs \cup {NoRun}] /\ tasks' \subseteq Tasks
    BY <1>3, ReconcileCloses DEF IInv
  <1>5. OthersTyped /\ WorkKept
    BY <1>1, <1>2 DEF OthersTyped, WorkKept, IInv, Typed, TypeOK
  <1>6. JobsCarried /\ JobsFine(jobs', lastRun)
    BY <1>1, JobsStay DEF IInv
  <1>7. QED
    BY <1>1, <1>4, <1>5, <1>6, ClosingStep

-----------------------------------------------------------------------------
(* Steps of the dispatcher that leave runs and tasks alone.                *)
LEMMA FailedFine ==
  ASSUME NEW j, NEW n, JobFine(j, n), j.state # "dead"
  PROVE  JobFine(Failed(j), n) /\ SameJob(j, Failed(j))
  BY JobFailed DEF JobFine, SameJob

LEMMA FailStep ==
  ASSUME Typed, NEW j \in jobs, j.state # "dead", Fail(j)
  PROVE  JobsCarried /\ JobsFine(jobs', lastRun) /\ work' = NoWork
  <1>1. JobFine(j, lastRun) /\ JobsFine(jobs, lastRun)
    BY JobsTyped DEF JobsFine
  <1>2. JobFine(Failed(j), lastRun) /\ SameJob(j, Failed(j))
    BY <1>1, FailedFine
  <1>3. JobsFine(jobs \ {j}, lastRun)
    BY <1>1, JobsLess
  <1>4. JobsFine((jobs \ {j}) \cup {Failed(j)}, lastRun)
    BY <1>2, <1>3, JobsPlus
  <1>5. QED
    BY <1>2, <1>4, JobChanged DEF Fail

(* The row of a handled job is deleted, or the server dies first.          *)
LEMMA FinishStep ==
  ASSUME Typed, NEW j, NEW js, JobsFine(js, lastRun), Finish(j, js)
  PROVE  /\ JobsFine(jobs', lastRun) /\ work' = NoWork
         /\ spent' \in [DOMAIN Bounds -> Nat] /\ up' \in BOOLEAN
         /\ jobs' = js \ {j} \/ jobs' = js
  <1>1. CASE jobs' = js \ {j} /\ UNCHANGED <<up, spent>>
    BY <1>1, JobsLess DEF Finish, Typed, TypeOK
  <1>2. CASE jobs' = js /\ Die
    BY <1>2, SpendTyped DEF Finish, Die
  <1>3. QED
    BY <1>1, <1>2 DEF Finish

LEMMA WorkRow ==
  ASSUME Typed, Handling
  PROVE  /\ work # NoWork /\ work.job \in jobs /\ work.job \in Jobs /\ work.run \in Runs
         /\ work.job.run \in RunIds /\ work.job.rev = work.run.rev /\ work.job.state # "dead"
         /\ work.run.at \in DOMAIN SpecOf(work.run).states
  BY DEF Typed, TypeOK, Handling, WorkKnown

(* The run is read, and only its row's state changes.                      *)
LEMMA NoRunChanges ==
  ASSUME IInv, UNCHANGED <<docs, runs, lastRun, tasks, sessions, applied>>,
         spent' \in [DOMAIN Bounds -> Nat], up' \in BOOLEAN, JobsCarried
  PROVE  /\ JobsFine(jobs', lastRun) /\ WorkKept => IInv'
         /\ RunsTyped /\ Linked' /\ WriterIsDone' /\ OthersTyped
  <1>1. OthersTyped
    BY DEF OthersTyped, IInv, Typed, TypeOK
  <1>2. runs' \in [RunIds -> Runs \cup {NoRun}] /\ tasks' \subseteq Tasks
    BY DEF IInv, Typed, TypeOK
  <1>3. QED
    BY <1>1, <1>2, NothingCloses, ClosingStep

LEMMA ErrorStep ==
  ASSUME IInv, NEW j \in jobs, AdvanceError \/ AdvanceFault \/ SweepFault(j)
  PROVE  IInv'
  <1>1. /\ UNCHANGED <<docs, runs, lastRun, tasks, sessions, applied, up>>
        /\ spent' \in [DOMAIN Bounds -> Nat] /\ up' \in BOOLEAN
    BY SpendTyped DEF AdvanceError, AdvanceFault, SweepFault, IInv, Typed, TypeOK
  <1>2. PICK k \in jobs : k.state # "dead" /\ Fail(k)
    BY WorkRow DEF AdvanceError, AdvanceFault, SweepFault, IInv
  <1>3. JobsCarried /\ JobsFine(jobs', lastRun) /\ work' = NoWork
    BY <1>2, FailStep DEF IInv
  <1>4. QED
    BY <1>1, <1>3, NoRunChanges DEF WorkKept

LEMMA SkipStep ==
  ASSUME IInv, NEW j \in jobs, AdvanceSkip(j)
  PROVE  IInv'
  <1>1. /\ UNCHANGED <<docs, runs, lastRun, tasks, sessions, applied, up, spent, work>>
        /\ jobs' = jobs \ {j} /\ ~Current(j.run, j.rev) /\ work = NoWork
        /\ spent' \in [DOMAIN Bounds -> Nat] /\ up' \in BOOLEAN
    BY DEF AdvanceSkip, Idle, IInv, Typed, TypeOK
  <1>2. JobsCarried
    BY <1>1, JobDone
  <1>3. JobsFine(jobs', lastRun)
    BY <1>1, JobsTyped, JobsLess DEF IInv
  <1>4. QED
    BY <1>1, <1>2, <1>3, NoRunChanges DEF WorkKept

LEMMA RetryStep ==
  ASSUME IInv, NEW j \in jobs, RetryDeadJob(j)
  PROVE  IInv'
  <1> DEFINE k == [j EXCEPT !.state = "pending", !.attempts = 0]
  <1>1. /\ UNCHANGED <<docs, runs, lastRun, tasks, sessions, applied, up, work>>
        /\ jobs' = (jobs \ {j}) \cup {k} /\ j.state = "dead"
        /\ spent' \in [DOMAIN Bounds -> Nat] /\ up' \in BOOLEAN
    BY SpendTyped DEF RetryDeadJob, IInv, Typed, TypeOK
  <1>2. j \in Jobs /\ j.run <= lastRun /\ JobsFine(jobs, lastRun)
    BY JobsTyped DEF IInv, JobsFine, JobFine
  <1>3. k \in Jobs /\ SameJob(j, k) /\ k.state = "pending" /\ k.attempts = 0
    BY <1>2, JobRetried
  <1> HIDE DEF k
  <1>4. JobFine(k, lastRun)
    BY <1>2, <1>3, NoAttempt DEF JobFine, SameJob
  <1>5. JobsFine(jobs', lastRun)
    BY <1>1, <1>2, <1>4, JobsLess, JobsPlus
  <1>6. JobsCarried
    BY <1>1, <1>3, JobChanged
  <1>7. WorkKept
    BY <1>1 DEF WorkKept, IInv, Typed, TypeOK, WorkKnown
  <1>8. QED
    BY <1>1, <1>5, <1>6, <1>7, NoRunChanges

LEMMA CrashStep ==
  ASSUME IInv, Crash
  PROVE  IInv'
  <1>1. /\ UNCHANGED <<docs, runs, lastRun, tasks, sessions, applied, jobs>>
        /\ spent' \in [DOMAIN Bounds -> Nat] /\ up' \in BOOLEAN /\ work' = NoWork
    BY SpendTyped DEF Crash, Die, IInv
  <1>2. QED
    BY <1>1, JobsStay, NoRunChanges DEF WorkKept, IInv

LEMMA StaleStep ==
  ASSUME IInv, AdvanceStale
  PROVE  IInv'
  <1> DEFINE j == work.job
  <1>1. /\ UNCHANGED <<docs, runs, lastRun, tasks, sessions, applied>>
        /\ Handling /\ Finish(j, jobs) /\ ~Current(j.run, work.run.rev)
    BY DEF AdvanceStale, MayWrite
  <1>2. j \in jobs /\ j.rev = work.run.rev
    BY <1>1, WorkRow DEF IInv
  <1>3. /\ JobsFine(jobs', lastRun) /\ work' = NoWork
        /\ spent' \in [DOMAIN Bounds -> Nat] /\ up' \in BOOLEAN
        /\ jobs' = jobs \ {j} \/ jobs' = jobs
    BY <1>1, JobsTyped, FinishStep DEF IInv
  <1>4. JobsCarried
    BY <1>1, <1>2, <1>3, JobDone, JobsStay DEF IInv
  <1>5. QED
    BY <1>1, <1>3, <1>4, NoRunChanges DEF WorkKept

LEMMA ReadStep ==
  ASSUME IInv, NEW j \in jobs, AdvanceRead(j)
  PROVE  IInv'
  <1> DEFINE k == AsRunning(j)
             r == j.run
  <1>1. /\ UNCHANGED <<docs, runs, lastRun, tasks, sessions, applied, up, spent>>
        /\ jobs' = (jobs \ {j}) \cup {k} /\ work' = [job |-> k, run |-> runs[r]]
        /\ up /\ j.state = "pending" /\ r # 0 /\ Running(runs, r) /\ runs[r].rev = j.rev
        /\ spent' \in [DOMAIN Bounds -> Nat] /\ up' \in BOOLEAN
    BY DEF AdvanceRead, Idle, Current, IsSweep, IInv, Typed, TypeOK
  <1>2. j \in Jobs /\ JobFine(j, lastRun) /\ JobsFine(jobs, lastRun)
    BY JobsTyped DEF IInv, JobsFine, JobFine
  <1>3. k \in Jobs /\ SameJob(j, k) /\ k.state = "running" /\ k.attempts = j.attempts
    BY <1>2, JobState DEF AsRunning
  <1> HIDE DEF k
  <1>4. JobFine(k, lastRun)
    BY <1>1, <1>2, <1>3 DEF JobFine, SameJob
  <1>5. JobsFine(jobs', lastRun)
    BY <1>1, <1>2, <1>4, JobsLess, JobsPlus
  <1>6. JobsCarried
    BY <1>1, <1>3, JobChanged
  <1>7. RunsTyped /\ Linked' /\ WriterIsDone' /\ OthersTyped
    BY <1>1, <1>6, NoRunChanges
  <1>8. r \in RunIds /\ runs[r] \in Runs /\ runs[r] # NoRun
    BY <1>1, <1>2, JobNumbers DEF IInv, Typed, TypeOK, Running
  <1>9. /\ work'.job = k /\ work'.run = runs[r] /\ k.run = r /\ k.rev = j.rev /\ k \in jobs'
        /\ work' \in [job: Jobs, run: Runs]
    BY <1>1, <1>3, <1>8 DEF SameJob
  <1>10. WorkKnown'
    <2>1. runs'[r].at \in DOMAIN SpecOf(runs[r]).states /\ runs[r].rev <= runs[r].rev
      BY <1>1, <1>8, SameRev DEF IInv, Typed, RunsKnown
    <2>2. QED
      BY <1>1, <1>3, <1>8, <1>9, <2>1 DEF WorkKnown, SpecOf
  <1>11. RunsKnown'
    BY <1>7, RunsKnownStep DEF IInv
  <1>12. TypeOK'
    <2>1. /\ jobs' \subseteq Jobs /\ IsFiniteSet(jobs')
          /\ \A i \in jobs' : i.run <= lastRun' /\ (i.attempts = MaxAttempts <=> i.state = "dead")
      BY <1>1, <1>5 DEF JobsFine, JobFine
    <2>2. tasks' \subseteq Tasks /\ (work' # NoWork => work'.job \in jobs' /\ up')
      BY <1>1, <1>9 DEF IInv, Typed, TypeOK
    <2>3. QED
      BY <1>7, <1>9, <2>1, <2>2 DEF TypeOK, RunsTyped, OthersTyped
  <1>13. QED
    BY <1>5, <1>7, <1>10, <1>11, <1>12 DEF IInv, Typed, JobsFine

-----------------------------------------------------------------------------
(* Restart, time and deletion.                                             *)
LEMMA BootStep ==
  ASSUME IInv, Boot
  PROVE  IInv'
  <1> DEFINE W == WithSweep(jobs)
             f == [j \in W |-> IF j.state = "running" THEN [j EXCEPT !.state = "pending"] ELSE j]
  <1>1. /\ ~up /\ up' = TRUE /\ Reconcile(docs, Docs)
        /\ jobs' = {IF j.state = "running" THEN [j EXCEPT !.state = "pending"] ELSE j : j \in W}
        /\ UNCHANGED <<docs, lastRun, work, sessions, spent, applied>>
    BY DEF Boot
  <1>2. jobs' = {f[j] : j \in W}
    BY <1>1
  <1>3. jobs \in SUBSET Jobs /\ IsFiniteSet(jobs) /\ JobsFine(jobs, lastRun) /\ lastRun \in Nat
    BY JobsTyped DEF IInv, Typed, TypeOK
  <1>4. /\ jobs \subseteq W /\ W \subseteq Jobs /\ IsFiniteSet(W)
        /\ \A j \in W : j \in jobs \/ (j.run = 0 /\ j.state = "pending" /\ j.attempts = 0)
    BY <1>3, WithSweepIs
  <1> HIDE DEF W
  <1>5. ASSUME NEW j \in W
        PROVE  f[j] \in Jobs /\ SameJob(j, f[j]) /\ JobFine(f[j], lastRun)
    <2>1. JobFine(j, lastRun)
      <3>1. CASE j \in jobs
        BY <1>3, <3>1 DEF JobsFine
      <3>2. CASE j.run = 0 /\ j.state = "pending" /\ j.attempts = 0
        <4>1. j.run <= lastRun
          BY <1>3, <3>2
        <4>2. QED
          BY <1>4, <3>2, <4>1, NoAttempt DEF JobFine
      <3>3. QED
        BY <1>4, <3>1, <3>2
    <2>2. CASE j.state = "running"
      <3> DEFINE k == [j EXCEPT !.state = "pending"]
      <3>1. k \in Jobs /\ SameJob(j, k) /\ k.state = "pending" /\ k.attempts = j.attempts
        BY <1>4, JobState
      <3>2. f[j] = k
        BY <2>2
      <3> HIDE DEF k, f
      <3>3. QED
        BY <2>1, <2>2, <3>1, <3>2 DEF JobFine, SameJob
    <2>3. CASE j.state # "running"
      <3>1. f[j] = j
        BY <2>3
      <3> HIDE DEF f
      <3>2. QED
        BY <2>1, <3>1 DEF JobFine, SameJob
    <2>4. QED
      BY <2>2, <2>3
  <1> HIDE DEF f
  <1>6. JobsFine(jobs', lastRun)
    BY <1>2, <1>4, <1>5, FiniteImage DEF JobsFine
  <1>7. JobsCarried
    <2>1. 0 \notin RunIds
      BY Numbers DEF RunIds
    <2>2. ASSUME NEW r \in RunIds PROVE JobsFrom(r, jobs, jobs') /\ JobsTo(r, runs[r], jobs, jobs')
      <3>1. \A k \in jobs' : k.run = r => \E j \in jobs : SameJob(j, k)
        BY <1>2, <1>4, <1>5, <2>1 DEF SameJob
      <3>2. \A j \in jobs : \E k \in jobs' : SameJob(j, k)
        BY <1>2, <1>4, <1>5
      <3>3. QED
        BY <3>1, <3>2 DEF JobsFrom, JobsTo
    <2>3. QED
      BY <2>2 DEF JobsCarried
  <1>8. PICK S : Closing(S) /\ runs' \in [RunIds -> Runs \cup {NoRun}] /\ tasks' \subseteq Tasks
    BY <1>1, ReconcileCloses DEF IInv
  <1>9. OthersTyped /\ WorkKept
    BY <1>1 DEF OthersTyped, WorkKept, IInv, Typed, TypeOK
  <1>10. QED
    BY <1>1, <1>6, <1>7, <1>8, <1>9, ClosingStep

LEMMA DueStep ==
  ASSUME IInv, NEW r \in RunIds, DeadlinePasses(r)
  PROVE  IInv'
  <1> DEFINE y == [runs[r] EXCEPT !.deadline = "due"]
  <1>1. /\ UNCHANGED <<docs, lastRun, tasks, jobs, work, sessions, up, spent, applied>>
        /\ runs[r] # NoRun /\ runs[r].deadline = "armed" /\ runs' = [runs EXCEPT ![r] = y]
    BY DEF DeadlinePasses, Running
  <1>2. runs \in [RunIds -> Runs \cup {NoRun}] /\ runs[r] \in Runs
    BY <1>1 DEF IInv, Typed, TypeOK
  <1>3. /\ KeepsRun(runs[r], y) /\ y.status = runs[r].status /\ y.at = runs[r].at
        /\ y.rev = runs[r].rev
    BY <1>2, RunDeadline
  <1>4. y \in Runs /\ y # NoRun
    BY <1>3, MarkersAssumption DEF KeepsRun
  <1> HIDE DEF y
  <1>5. /\ runs' \in [RunIds -> Runs \cup {NoRun}] /\ runs'[r] = y
        /\ \A q \in RunIds \ {r} : runs'[q] = runs[q]
    BY <1>1, <1>2, <1>4
  <1>6. RunGoes(runs[r], y)
    <2>1. y.at \in DOMAIN SpecOf(y).states
      BY <1>1, <1>3, SpecOfDef DEF IInv, Typed, RunsKnown, KeepsRun
    <2>2. runs[r].rev <= y.rev
      BY <1>3, <1>4, SameRev
    <2>3. QED
      BY <1>1, <1>3, <2>1, <2>2 DEF RunGoes
  <1>7. RunsTyped
    BY <1>1, <1>5, <1>6, Numbers DEF RunsTyped, IInv, Typed, TypeOK
  <1>8. Linked'
    <2>1. \A q \in RunIds : LinkedRun(q, runs'[q], tasks, jobs)
      BY <1>1, <1>2, <1>3, <1>4, <1>5, RunDue DEF IInv, Linked
    <2>2. QED
      BY <1>1, <2>1 DEF Linked
  <1>9. OthersTyped /\ WorkKept /\ tasks' \subseteq Tasks /\ JobsFine(jobs', lastRun')
    BY <1>1, JobsTyped DEF OthersTyped, WorkKept, IInv, Typed, TypeOK
  <1>10. QED
    BY <1>1, <1>7, <1>8, <1>9, TypedStep, WriterStep DEF IInv

LEMMA PurgeStep ==
  ASSUME IInv, NEW d \in Docs, Purge(d)
  PROVE  IInv'
  <1> DEFINE gone == {r \in RunIds : runs[r] # NoRun /\ runs[r].doc = d}
  <1>1. /\ docs' = [docs EXCEPT ![d].state = "purged"]
        /\ runs' = [r \in RunIds |-> IF r \in gone THEN NoRun ELSE runs[r]]
        /\ tasks' = {t \in tasks : t.run \notin gone}
        /\ UNCHANGED <<lastRun, jobs, work, sessions, up, spent, applied>>
    BY DEF Purge
  <1>2. \A r \in gone : r \in RunIds /\ runs[r] # NoRun
    OBVIOUS
  <1> HIDE DEF gone
  <1>3. /\ runs' \in [RunIds -> Runs \cup {NoRun}]
        /\ \A r \in RunIds : IF r \in gone THEN runs'[r] = NoRun ELSE runs'[r] = runs[r]
    BY <1>1 DEF IInv, Typed, TypeOK
  <1>4. RunsTyped
    BY <1>1, <1>2, <1>3, Numbers DEF RunsTyped, RunGoes, IInv, Typed, TypeOK
  <1>5. Linked'
    <2>1. ASSUME NEW r \in RunIds PROVE LinkedRun(r, runs'[r], tasks', jobs')
      <3>1. CASE r \in gone
        <4>1. \A t \in tasks' : t.run # r
          BY <1>1, <3>1
        <4>2. QED
          BY <1>3, <3>1, <4>1, RunPurged
      <3>2. CASE r \notin gone
        <4>1. /\ LinkedRun(r, runs[r], tasks, jobs) /\ SameTasks(r, tasks, tasks')
              /\ JobsFrom(r, jobs, jobs') /\ JobsTo(r, runs[r], jobs, jobs')
          BY <1>1, <3>2 DEF IInv, Linked, SameTasks, JobsFrom, JobsTo, SameJob
        <4>2. QED
          BY <1>3, <3>2, <4>1, RunKept
      <3>3. QED
        BY <3>1, <3>2
    <2>2. QED
      BY <2>1 DEF Linked
  <1>6. OthersTyped
    <2>1. docs' \in [Docs -> [state: {"live", "trashed", "purged"}, gen: Nat]]
      BY <1>1, DocTyped DEF IInv
    <2>2. QED
      BY <1>1, <2>1 DEF OthersTyped, IInv, Typed, TypeOK
  <1>7. WorkKept /\ tasks' \subseteq Tasks /\ JobsFine(jobs', lastRun')
    BY <1>1, JobsTyped DEF WorkKept, IInv, Typed, TypeOK
  <1>8. QED
    BY <1>1, <1>4, <1>5, <1>6, <1>7, TypedStep, WriterStep DEF IInv

-----------------------------------------------------------------------------
(* A run starts, and the runs in S, which ask nobody, fail.                *)
LEMMA InsertStep ==
  ASSUME IInv, NEW def \in {"flow", "change"}, NEW d \in Docs, NEW S \in SUBSET RunIds,
         \A r \in S : Running(runs, r) /\ ~ \E t \in tasks : t.run = r /\ t.status = "open",
         Insert(NewRun(def, d), S), UNCHANGED <<docs, tasks, work, sessions, up, applied>>,
         spent' \in [DOMAIN Bounds -> Nat]
  PROVE  IInv'
  <1> DEFINE n == lastRun + 1
             y == NewRun(def, d)
             k == AdvanceJob(n, "", 0)
             F == Finalized(runs, S, "failed")
  <1>1. n \in RunIds /\ lastRun' = n /\ jobs' = jobs \cup {k} /\ runs' = [F EXCEPT ![n] = y]
    BY DEF Insert, InsertRunId
  <1>2. lastRun \in Nat /\ n \in 0..MaxRuns /\ lastRun < n /\ lastRun <= n /\ n <= n
    <2>1. lastRun \in Nat /\ MaxRuns \in Nat /\ lastRun + 1 \in 1..MaxRuns
      BY <1>1, Numbers, JobsTyped DEF RunIds, IInv
    <2>2. QED
      BY <2>1
  <1>3. y \in Runs /\ y.rev = 0 /\ y.at \in DOMAIN SpecOf(y).states /\ y # NoRun
    BY RunNew, MarkersAssumption DEF IInv, Typed
  <1>4. JobFine(k, n) /\ \A j \in jobs : JobFine(j, n)
    <2>1. JobFine(k, n)
      BY <1>1, <1>2, NewJobFine
    <2>2. ASSUME NEW j \in jobs PROVE JobFine(j, n)
      <3>1. JobFine(j, lastRun) /\ j.run \in Nat
        BY JobsTyped, JobNumbers, Numbers DEF IInv, JobsFine, JobFine, RunIds
      <3>2. j.run <= n
        BY <1>2, <3>1 DEF JobFine
      <3>3. QED
        BY <3>1, <3>2 DEF JobFine
    <2>3. QED
      BY <2>1, <2>2
  <1>5. runs[n] = NoRun /\ n \notin S /\ \A j \in jobs : j.run # n
    <2>1. ~(n <= lastRun)
      BY <1>2
    <2>2. QED
      BY <1>1, <2>1 DEF IInv, Typed, TypeOK, RunsKnown, Running
  <1>6. runs \in [RunIds -> Runs \cup {NoRun}] /\ \A r \in S : runs[r] \in Runs
    BY DEF IInv, Typed, TypeOK, Running
  <1>7. /\ F \in [RunIds -> Runs \cup {NoRun}]
        /\ \A r \in RunIds \ S : F[r] = runs[r]
        /\ \A r \in RunIds \cap S : /\ KeepsRun(runs[r], F[r]) /\ F[r].status = "failed"
                                    /\ F[r].at = runs[r].at /\ F[r].rev = runs[r].rev
    BY <1>6, FinalizedIs
  <1>8. k.run = n
    BY DEF AdvanceJob
  <1>9. JobsFine(jobs', n)
    BY <1>1, <1>4, FS_AddElement DEF JobsFine, IInv, Typed
  <1> HIDE DEF y, F
  <1>10. /\ runs' \in [RunIds -> Runs \cup {NoRun}] /\ runs'[n] = y
         /\ \A r \in RunIds \ {n} : runs'[r] = F[r]
    BY <1>1, <1>3, <1>7
  <1>11. RunsTyped
    <2>1. ASSUME NEW r \in S PROVE RunGoes(runs[r], F[r])
      <3>1. runs[r] # NoRun
        BY <2>1 DEF Running
      <3>2. F[r].at \in DOMAIN SpecOf(F[r]).states
        BY <1>7, <2>1, <3>1, SpecOfDef DEF IInv, Typed, RunsKnown, KeepsRun
      <3>3. runs[r].rev <= F[r].rev
        BY <1>7, <2>1, SameRev DEF KeepsRun
      <3>4. QED
        BY <1>7, <2>1, <3>1, <3>2, <3>3 DEF RunGoes
    <2>2. RunComes(n, runs'[n])
      BY <1>1, <1>2, <1>3, <1>10 DEF RunComes
    <2>3. \A r \in RunIds : \/ runs'[r] = runs[r] \/ RunGoes(runs[r], runs'[r])
                            \/ RunComes(r, runs'[r])
      BY <1>7, <1>10, <2>1, <2>2
    <2>4. QED
      BY <1>1, <1>2, <1>10, <2>3 DEF RunsTyped
  <1>12. Linked'
    <2>1. ASSUME NEW r \in RunIds PROVE LinkedRun(r, runs'[r], tasks, jobs')
      <3>1. LinkedRun(r, runs[r], tasks, jobs)
        BY DEF IInv, Linked
      <3>2. CASE r = n
        <4>1. LinkedRun(n, NoRun, tasks, jobs)
          BY <1>5, <3>1, <3>2
        <4>2. jobs' = jobs \cup {AdvanceJob(n, "", 0)} /\ runs'[r] = y
          BY <1>1, <1>10, <3>2
        <4> HIDE DEF n, k
        <4>3. LinkedRun(n, y, tasks, jobs')
          BY <1>3, <1>5, <4>1, <4>2, RunStarted
        <4>4. QED
          BY <3>2, <4>2, <4>3
      <3>3. r # n => JobsFrom(r, jobs, jobs') /\ JobsTo(r, runs[r], jobs, jobs')
        BY <1>1, <1>8 DEF JobsFrom, JobsTo, SameJob
      <3>4. CASE r # n /\ r \notin S
        <4>1. runs'[r] = runs[r] /\ SameTasks(r, tasks, tasks)
          BY <1>7, <1>10, <3>4 DEF SameTasks
        <4>2. QED
          BY <3>1, <3>3, <3>4, <4>1, RunKept
      <3>5. CASE r \in S
        <4>1. TasksExpire(r, tasks, tasks)
          BY <3>5 DEF TasksExpire, Becomes, SameAsk
        <4>2. /\ runs[r] # NoRun /\ runs'[r] # NoRun /\ KeepsRun(runs[r], runs'[r])
              /\ runs'[r].status # "running" /\ runs'[r].rev = runs[r].rev
          BY <1>5, <1>7, <1>10, <3>5, MarkersAssumption DEF Running, KeepsRun
        <4>3. QED
          BY <1>5, <3>1, <3>3, <3>5, <4>1, <4>2, RunClosed
      <3>6. QED
        BY <3>2, <3>4, <3>5
    <2>2. QED
      BY <2>1 DEF Linked
  <1>13. OthersTyped /\ WorkKept /\ tasks' \subseteq Tasks
    BY <1>1 DEF OthersTyped, WorkKept, IInv, Typed, TypeOK
  <1>14. QED
    BY <1>1, <1>9, <1>11, <1>12, <1>13, TypedStep, WriterStep DEF IInv

LEMMA StartStep ==
  ASSUME IInv, NEW d \in Docs, Start(d) \/ Propose(d)
  PROVE  IInv'
  <1>1. CASE Start(d)
    <2>1. /\ Insert(NewRun("flow", d), {}) /\ UNCHANGED <<docs, tasks, work, sessions, up, applied>>
          /\ spent' \in [DOMAIN Bounds -> Nat]
      BY <1>1, SpendTyped DEF Start, IInv
    <2>2. QED
      BY <2>1, InsertStep
  <1>2. CASE Propose(d)
    <2>1. /\ Insert(NewRun("change", d), Same(d))
          /\ UNCHANGED <<docs, tasks, work, sessions, up, applied>>
          /\ spent' \in [DOMAIN Bounds -> Nat]
      BY <1>2 DEF Propose, IInv, Typed, TypeOK
    <2>2. /\ Same(d) \in SUBSET RunIds
          /\ \A r \in Same(d) : Running(runs, r) /\ ~ \E t \in tasks : t.run = r /\ t.status = "open"
      BY <1>2 DEF Propose, Same, Unusable
    <2>3. QED
      BY <2>1, <2>2, InsertStep
  <1>3. QED
    BY <1>1, <1>2

-----------------------------------------------------------------------------
(* One run changes, and stays; the others keep their tasks and jobs.       *)
LEMMA OneRunStep ==
  ASSUME IInv, NEW r \in RunIds, NEW y \in Runs, runs[r] # NoRun, KeepsRun(runs[r], y),
         runs' = [runs EXCEPT ![r] = y], y.at = runs[r].at, runs[r].rev <= y.rev,
         y.status = runs[r].status, lastRun' = lastRun
  PROVE  RunsTyped /\ runs'[r] = y /\ y # NoRun /\ \A q \in RunIds \ {r} : runs'[q] = runs[q]
  <1>1. /\ runs' \in [RunIds -> Runs \cup {NoRun}] /\ runs'[r] = y
        /\ \A q \in RunIds \ {r} : runs'[q] = runs[q]
    BY DEF IInv, Typed, TypeOK
  <1>2. y.at \in DOMAIN SpecOf(y).states
    BY SpecOfDef DEF IInv, Typed, RunsKnown, KeepsRun
  <1>3. RunGoes(runs[r], y)
    BY <1>2 DEF RunGoes
  <1>4. RunsTyped
    BY <1>1, <1>3, Numbers DEF RunsTyped, IInv, Typed, TypeOK
  <1>5. QED
    BY <1>1, <1>4, MarkersAssumption

LEMMA ResolveStep ==
  ASSUME IInv, NEW t \in tasks, NEW c \in Choices, NEW s \in Sessions, Resolve(t, c, s)
  PROVE  IInv'
  <1> DEFINE r == t.run
             x == runs[r]
             y == Accepted(x)
             v == [t EXCEPT !.status = "resolved", !.choice = c, !.by = s]
             k == AdvanceJob(r, c, t.rev + 1)
  <1>1. /\ t.status = "open" /\ Running(runs, r) /\ t.at = x.at /\ t.rev = x.rev
        /\ c \in SpecOf(x).states[x.at].choices
        /\ tasks' = (tasks \ {t}) \cup {v} /\ runs' = [runs EXCEPT ![r] = y]
        /\ jobs' = jobs \cup {k}
        /\ UNCHANGED <<docs, lastRun, work, sessions, up, spent, applied>>
    BY DEF Resolve, Decide, Actionable, StateOf
  <1>2. t \in Tasks /\ r \in RunIds /\ t.rev \in Nat
    BY DEF IInv, Typed, TypeOK, Tasks
  <1>3. x \in Runs /\ Live(x) /\ x # NoRun
    BY <1>1, <1>2 DEF IInv, Typed, TypeOK, Running, Live
  <1>4. /\ KeepsRun(x, y) /\ y.status = x.status /\ y.at = x.at /\ y.rev = x.rev + 1
        /\ y.deadline = "none" /\ y \in Runs
    BY <1>3, RunAccepted DEF KeepsRun
  <1>5. x.rev <= y.rev
    <2>1. x.rev \in Nat
      BY <1>3 DEF Runs
    <2>2. QED
      BY <1>4, <2>1
  <1>6. v \in Tasks /\ SameAsk(t, v) /\ v.status = "resolved" /\ v.choice = c
    BY <1>2 DEF Tasks, SameAsk
  <1>7. k.run = r /\ JobFine(k, lastRun)
    <2>1. r <= lastRun /\ t.rev + 1 \in Nat
      BY <1>2, <1>3 DEF IInv, Typed, RunsKnown
    <2>2. JobFine(k, lastRun)
      BY <1>2, <2>1, NewJobFine
    <2>3. QED
      BY <2>2 DEF AdvanceJob
  <1>8. JobsFine(jobs', lastRun)
    BY <1>1, <1>7, JobsTyped, JobsPlus DEF IInv
  <1> HIDE DEF y, v
  <1>9. RunsTyped /\ runs'[r] = y /\ y # NoRun /\ \A q \in RunIds \ {r} : runs'[q] = runs[q]
    BY <1>1, <1>2, <1>3, <1>4, <1>5, OneRunStep
  <1>10. LinkedRun(r, y, tasks', jobs')
    <2>1. LinkedRun(r, x, tasks, jobs) /\ tasks \in SUBSET Tasks /\ jobs \in SUBSET Jobs
      BY <1>2 DEF IInv, Linked, Typed, TypeOK
    <2>2. jobs' = jobs \cup {AdvanceJob(r, c, t.rev + 1)} /\ t.run = r
      BY <1>1
    <2>3. /\ t.status = "open" /\ c \in SpecOf(x).states[x.at].choices
          /\ tasks' = (tasks \ {t}) \cup {v}
      BY <1>1
    <2> HIDE DEF x, r, k
    <2>4. QED
      BY <1>2, <1>3, <1>4, <1>6, <1>9, <2>1, <2>2, <2>3, RunDecided
  <1>11. ASSUME NEW q \in RunIds, q # r PROVE LinkedRun(q, runs'[q], tasks', jobs')
    <2>1. LinkedRun(q, runs[q], tasks, jobs)
      BY DEF IInv, Linked
    <2>2. SameTasks(q, tasks, tasks')
      BY <1>1, <1>6, <1>11 DEF SameTasks, SameAsk
    <2>3. JobsFrom(q, jobs, jobs') /\ JobsTo(q, runs[q], jobs, jobs')
      BY <1>1, <1>7, <1>11 DEF JobsFrom, JobsTo, SameJob
    <2>4. QED
      BY <1>9, <1>11, <2>1, <2>2, <2>3, RunKept
  <1>12. Linked'
    BY <1>9, <1>10, <1>11 DEF Linked
  <1>13. OthersTyped /\ WorkKept /\ tasks' \subseteq Tasks /\ lastRun' = lastRun
    BY <1>1, <1>6 DEF OthersTyped, WorkKept, IInv, Typed, TypeOK
  <1>14. QED
    BY <1>1, <1>8, <1>9, <1>12, <1>13, TypedStep, WriterStep DEF IInv

(* What an advance that may write knows of its run.                        *)
LEMMA MayWriteFacts ==
  ASSUME IInv, Handling, MayWrite
  PROVE  LET r == work.job.run IN
         /\ r \in RunIds /\ runs[r] \in Runs /\ runs[r] # NoRun /\ Live(runs[r])
         /\ work.job \in jobs /\ work.job \in Jobs /\ work.job.rev = runs[r].rev
         /\ runs[r].rev = work.run.rev /\ runs[r].at = work.run.at /\ runs[r].doc = work.run.doc
         /\ SpecOf(runs[r]) = SpecOf(work.run) /\ StateOf(runs[r]) = StateOf(work.run)
         /\ runs[r].at \in DOMAIN SpecOf(runs[r]).states
  <1> DEFINE r == work.job.run
  <1>1. Running(runs, r) /\ runs[r].rev = work.run.rev
    BY DEF MayWrite, Current
  <1>2. /\ work # NoWork /\ work.job \in jobs /\ work.job \in Jobs /\ r \in RunIds
        /\ work.job.rev = work.run.rev
    BY WorkRow DEF IInv
  <1>3. runs[r] \in Runs /\ runs[r] # NoRun /\ Live(runs[r])
    BY <1>1, <1>2 DEF IInv, Typed, TypeOK, Running, Live
  <1>4. runs[r].at = work.run.at /\ runs[r].def = work.run.def /\ runs[r].doc = work.run.doc
    BY <1>1, <1>2, <1>3 DEF IInv, Typed, WorkKnown
  <1>5. SpecOf(runs[r]) = SpecOf(work.run)
    BY <1>4, SpecOfDef
  <1>6. runs[r].at \in DOMAIN SpecOf(runs[r]).states
    BY <1>2, <1>3 DEF IInv, Typed, RunsKnown
  <1>7. QED
    BY <1>1, <1>2, <1>3, <1>4, <1>5, <1>6 DEF StateOf

LEMMA TaskStep ==
  ASSUME IInv, AdvanceTask
  PROVE  IInv'
  <1> DEFINE r == work.job.run
             x == runs[r]
             j == work.job
             visit == {t \in tasks : t.run = r /\ t.at = work.run.at /\ t.rev = work.run.rev}
             v == [run |-> r, at |-> work.run.at, rev |-> work.run.rev,
                   status |-> "open", choice |-> "", by |-> ""]
             dl == DeadlineOf(SpecOf(work.run), work.run.at)
             y == [x EXCEPT !.deadline = dl]
  <1>1. /\ Handling /\ MayWrite /\ StateOf(work.run).kind = "approve" /\ Asked = ""
        /\ Finish(j, jobs) /\ UNCHANGED <<docs, lastRun, sessions, applied>>
    BY DEF AdvanceTask
  <1>2. IF visit # {} THEN UNCHANGED <<runs, tasks>>
        ELSE tasks' = tasks \cup {v} /\ runs' = [runs EXCEPT ![r] = y]
    BY DEF AdvanceTask
  <1>3. /\ r \in RunIds /\ x \in Runs /\ x # NoRun /\ Live(x)
        /\ j \in jobs /\ j \in Jobs /\ j.rev = x.rev
        /\ x.rev = work.run.rev /\ x.at = work.run.at
        /\ SpecOf(x) = SpecOf(work.run) /\ x.at \in DOMAIN SpecOf(x).states
    BY <1>1, MayWriteFacts
  <1>4. SpecOf(x).states[x.at].kind = "approve" /\ j.trigger = ""
    BY <1>1, <1>3 DEF StateOf, Asked, Event
  <1>5. /\ JobsFine(jobs', lastRun) /\ work' = NoWork
        /\ spent' \in [DOMAIN Bounds -> Nat] /\ up' \in BOOLEAN
        /\ jobs' = jobs \ {j} \/ jobs' = jobs
    BY <1>1, JobsTyped, FinishStep DEF IInv
  <1>6. CASE visit # {}
    <2>1. PICK t \in tasks : t.run = r /\ t.at = x.at /\ t.rev = x.rev
      BY <1>3, <1>6
    <2>2. t.status = "open"
      BY <1>3, <2>1 DEF IInv, Linked, LinkedRun, TasksKnown, TaskKnown
    <2>3. JobsCarried
      BY <1>3, <1>5, <2>1, <2>2, JobDone, JobsStay DEF IInv
    <2>4. QED
      BY <1>1, <1>2, <1>5, <1>6, <2>3, NoRunChanges DEF WorkKept
  <1>7. CASE visit = {}
    <2>1. tasks' = tasks \cup {v} /\ runs' = [runs EXCEPT ![r] = y]
      BY <1>2, <1>7
    <2>2. ~ \E t \in tasks : t.run = r /\ t.at = x.at /\ t.rev = x.rev
      BY <1>3, <1>7
    <2>3. dl \in {"none", "armed", "due"}
      BY DeadlineKnown
    <2> HIDE DEF dl
    <2>4. /\ KeepsRun(x, y) /\ y.status = x.status /\ y.at = x.at /\ y.rev = x.rev /\ y \in Runs
      BY <1>3, <2>3, RunDeadline DEF KeepsRun
    <2>5. v \in Tasks /\ v.run = r /\ v.at = x.at /\ v.rev = x.rev /\ v.status = "open"
      <3>1. x.at \in DOMAIN Flow.states \cup {"review"} /\ x.rev \in Nat
        BY <1>3, <1>4, SpecFacts DEF Runs
      <3>2. QED
        BY <1>3, <3>1 DEF Tasks
    <2> HIDE DEF y, v
    <2>6. RunsTyped /\ runs'[r] = y /\ y # NoRun /\ \A q \in RunIds \ {r} : runs'[q] = runs[q]
      <3>1. x.rev <= y.rev
        BY <2>4, SameRev
      <3>2. QED
        BY <1>1, <1>3, <2>1, <2>4, <3>1, OneRunStep
    <2>7. \A q \in RunIds : JobsFrom(q, jobs, jobs')
      BY <1>5 DEF JobsFrom, SameJob
    <2>8. LinkedRun(r, y, tasks', jobs')
      <3>1. LinkedRun(r, x, tasks, jobs) /\ tasks \in SUBSET Tasks /\ jobs \in SUBSET Jobs
        BY <1>3 DEF IInv, Linked, Typed, TypeOK
      <3>2. JobsFrom(r, jobs, jobs') /\ j.run = r
        BY <1>3, <2>7
      <3> HIDE DEF x, r, j
      <3>3. QED
        BY <1>3, <1>4, <2>1, <2>2, <2>4, <2>5, <2>6, <3>1, <3>2, RunAsked
    <2>9. ASSUME NEW q \in RunIds, q # r PROVE LinkedRun(q, runs'[q], tasks', jobs')
      <3>1. LinkedRun(q, runs[q], tasks, jobs) /\ JobsFrom(q, jobs, jobs')
        BY <2>7 DEF IInv, Linked
      <3>2. SameTasks(q, tasks, tasks')
        BY <2>1, <2>5, <2>9 DEF SameTasks
      <3>3. JobsTo(q, runs[q], jobs, jobs')
        BY <1>5, <2>9 DEF JobsTo, SameJob
      <3>4. QED
        BY <2>6, <2>9, <3>1, <3>2, <3>3, RunKept
    <2>10. Linked'
      BY <2>6, <2>8, <2>9 DEF Linked
    <2>11. OthersTyped /\ WorkKept /\ tasks' \subseteq Tasks
      BY <1>1, <1>5, <2>1, <2>5 DEF OthersTyped, WorkKept, IInv, Typed, TypeOK
    <2>12. QED
      BY <1>1, <1>5, <2>6, <2>10, <2>11, TypedStep, WriterStep DEF IInv
  <1>8. QED
    BY <1>6, <1>7

(* Runs in S end, runs in L go on to their next revision, and both lose    *)
(* their tasks.                                                            *)
LEMMA LeavingStep ==
  ASSUME IInv, NEW S \in SUBSET RunIds, NEW L \in SUBSET RunIds,
         runs' \in [RunIds -> Runs \cup {NoRun}], lastRun' = lastRun,
         tasks' = Expired(tasks, S \cup L), jobs' \subseteq Jobs,
         \A r \in RunIds \ (S \cup L) : runs'[r] = runs[r],
         \A r \in S : /\ Live(runs[r]) /\ r \notin L /\ KeepsRun(runs[r], runs'[r])
                      /\ runs'[r].status # "running"
                      /\ runs'[r].at = runs[r].at /\ runs'[r].rev = runs[r].rev,
         \A r \in L : /\ Live(runs[r]) /\ KeepsRun(runs[r], runs'[r])
                      /\ runs'[r].rev = runs[r].rev + 1
                      /\ runs'[r].at \in DOMAIN SpecOf(runs[r]).states
                      /\ runs'[r].status = "running" =>
                           \E k \in jobs' : k.run = r /\ k.rev = runs'[r].rev,
         \A k \in jobs' : k.run \in RunIds =>
           \/ \E j \in jobs : SameJob(j, k)
           \/ k.run \in L /\ k.rev = runs'[k.run].rev,
         \A j \in jobs : j.run \in RunIds \ L => \E k \in jobs' : SameJob(j, k)
  PROVE  RunsTyped /\ Linked' /\ tasks' \subseteq Tasks
  <1>1. /\ tasks' \in SUBSET Tasks
        /\ \A u \in tasks' : \E t \in tasks : Becomes(t, u, S \cup L)
        /\ \A t \in tasks : t.run \notin S \cup L \/ t.status # "open" => t \in tasks'
    <2>1. tasks \in SUBSET Tasks
      BY DEF IInv, Typed, TypeOK
    <2>2. QED
      BY <2>1, ExpiredIs
  <1>2. \A r \in S \cup L : TasksExpire(r, tasks, tasks')
    BY <1>1 DEF TasksExpire, Becomes, SameAsk
  <1>3. \A r \in RunIds \ (S \cup L) : SameTasks(r, tasks, tasks')
    <2>1. ASSUME NEW r \in RunIds \ (S \cup L), NEW t \in tasks, t.run = r PROVE t \in tasks'
      BY <1>1, <2>1
    <2>2. ASSUME NEW r \in RunIds \ (S \cup L), NEW u \in tasks', u.run = r PROVE u \in tasks
      <3>1. PICK t \in tasks : Becomes(t, u, S \cup L)
        BY <1>1
      <3>2. t.run = r /\ r \notin S \cup L
        BY <2>2, <3>1 DEF Becomes, SameAsk
      <3>3. u = t
        BY <3>1, <3>2 DEF Becomes
      <3>4. QED
        BY <3>3
    <2>3. QED
      BY <2>1, <2>2 DEF SameTasks
  <1>4. \A r \in S \cup L : runs[r] \in Runs /\ runs[r] # NoRun /\ runs'[r] \in Runs /\ runs'[r] # NoRun
    BY MarkersAssumption DEF IInv, Typed, TypeOK, Live, KeepsRun
  <1>5. RunsTyped
    <2>1. ASSUME NEW r \in S \cup L PROVE RunGoes(runs[r], runs'[r])
      <3>1. runs'[r].at \in DOMAIN SpecOf(runs'[r]).states
        BY <1>4, <2>1, SpecOfDef DEF KeepsRun, IInv, Typed, RunsKnown
      <3>2. runs[r].rev \in Nat /\ runs'[r].rev \in Nat
        BY <1>4 DEF Runs
      <3>3. CASE r \in S
        BY <1>4, <3>1, <3>2, <3>3 DEF RunGoes
      <3>4. CASE r \in L
        <4>1. runs[r].rev <= runs'[r].rev /\ runs'[r].rev # runs[r].rev
          BY <3>2, <3>4
        <4>2. QED
          BY <1>4, <3>1, <3>4, <4>1 DEF RunGoes, Live
      <3>5. QED
        BY <3>3, <3>4
    <2>2. QED
      BY <2>1, Numbers DEF RunsTyped, IInv, Typed, TypeOK
  <1>6. ASSUME NEW r \in RunIds PROVE LinkedRun(r, runs'[r], tasks', jobs')
    <2>1. LinkedRun(r, runs[r], tasks, jobs)
      BY DEF IInv, Linked
    <2>2. r \notin L => JobsFrom(r, jobs, jobs') /\ JobsTo(r, runs[r], jobs, jobs')
      BY DEF JobsFrom, JobsTo, SameJob
    <2>3. CASE r \in S
      <3>1. /\ runs[r] # NoRun /\ runs'[r] # NoRun /\ KeepsRun(runs[r], runs'[r])
            /\ runs'[r].status # "running" /\ runs'[r].rev = runs[r].rev
            /\ TasksExpire(r, tasks, tasks') /\ JobsFrom(r, jobs, jobs')
        BY <1>2, <1>4, <2>2, <2>3
      <3>2. QED
        BY <2>1, <3>1, RunClosed
    <2>4. CASE r \in L
      <3>1. \A k \in jobs' : k.run = r => k.rev = runs'[r].rev \/ \E j \in jobs : SameJob(j, k)
        BY <2>4
      <3>2. /\ tasks \in SUBSET Tasks /\ jobs \in SUBSET Jobs /\ jobs' \in SUBSET Jobs
            /\ tasks' \in SUBSET Tasks
        BY <1>1 DEF IInv, Typed, TypeOK
      <3>3. /\ Live(runs[r]) /\ KeepsRun(runs[r], runs'[r]) /\ runs'[r].rev = runs[r].rev + 1
            /\ runs'[r].status = "running" => \E k \in jobs' : k.run = r /\ k.rev = runs'[r].rev
            /\ runs[r] \in Runs /\ runs'[r] \in Runs /\ runs'[r] # NoRun /\ TasksExpire(r, tasks, tasks')
        BY <1>2, <1>4, <2>4
      <3>4. QED
        <4> DEFINE x == runs[r]
                   y == runs'[r]
                   us == tasks'
                   ks == jobs'
        <4>1. /\ LinkedRun(r, x, tasks, jobs) /\ Live(x) /\ KeepsRun(x, y) /\ y.rev = x.rev + 1
              /\ x \in Runs /\ y \in Runs /\ y # NoRun /\ TasksExpire(r, tasks, us)
              /\ us \in SUBSET Tasks /\ ks \in SUBSET Jobs
          BY <2>1, <3>2, <3>3
        <4>2. \A k \in ks : k.run = r => k.rev = y.rev \/ \E j \in jobs : SameJob(j, k)
          BY <3>1
        <4>3. y.status = "running" => \E k \in ks : k.run = r /\ k.rev = y.rev
          BY <3>3
        <4> HIDE DEF x, y, us, ks
        <4>4. LinkedRun(r, y, us, ks)
          BY <3>2, <4>1, <4>2, <4>3, RunLeft
        <4>5. QED
          BY <4>4 DEF x, y, us, ks
    <2>5. CASE r \notin S \cup L
      BY <1>3, <2>1, <2>2, <2>5, RunKept
    <2>6. QED
      BY <2>3, <2>4, <2>5
  <1>7. QED
    BY <1>1, <1>5, <1>6 DEF Linked

-----------------------------------------------------------------------------
(* The transition: a run moves on, and a review that wrote to its document *)
(* closes the other reviews of it.                                         *)
LEMMA MoveFacts ==
  ASSUME IInv, AdvanceMove
  PROVE  LET r == work.job.run
             x == runs[r]
             next == StateOf(x).on[Asked]
             effect == StateOf(x).kind = "change"
         IN  /\ next \in DOMAIN SpecOf(x).states
             /\ effect => /\ x.at = "apply" /\ SpecOf(x).states[next].kind = "end"
                          /\ MayApply(r)
             /\ \E S \in SUBSET RunIds :
                  /\ \A q \in S : Running(runs, q) /\ q # r
                  /\ runs' = [Finalized(runs, S, "cancelled") EXCEPT ![r] = Moved(x, next)]
                  /\ tasks' = Expired(tasks, S \cup {r})
             /\ applied' = IF effect THEN [applied EXCEPT ![r] = @ + 1] ELSE applied
             /\ docs' = IF effect THEN [docs EXCEPT ![x.doc].gen = @ + 1] ELSE docs
             /\ Finish(work.job, IF SpecOf(x).states[next].kind = "end" THEN jobs
                                 ELSE jobs \cup {AdvanceJob(r, "", x.rev + 1)})
  <1> DEFINE r == work.job.run
             x == runs[r]
             next == StateOf(x).on[Asked]
             effect == StateOf(x).kind = "change"
             ds == IF effect THEN [docs EXCEPT ![x.doc].gen = @ + 1] ELSE docs
             S == IF effect THEN StaleReviews(runs, ds, {x.doc}) ELSE {}
             F == Finalized(runs, S, "cancelled")
  <1>1. Handling /\ MayWrite
    BY DEF AdvanceMove
  <1>2. /\ r \in RunIds /\ x \in Runs /\ x # NoRun /\ Live(x)
        /\ x.rev = work.run.rev /\ x.at = work.run.at /\ x.doc = work.run.doc
        /\ SpecOf(x) = SpecOf(work.run) /\ StateOf(x) = StateOf(work.run)
        /\ x.at \in DOMAIN SpecOf(x).states
    BY <1>1, MayWriteFacts
  <1>3. /\ Asked \in DOMAIN StateOf(x).on /\ (effect => MayApply(r))
        /\ docs' = ds /\ applied' = IF effect THEN [applied EXCEPT ![r] = @ + 1] ELSE applied
        /\ runs' = [F EXCEPT ![r] = Moved(@, next)] /\ tasks' = Expired(tasks, S \cup {r})
        /\ Finish(work.job, IF SpecOf(x).states[next].kind = "end" THEN jobs
                            ELSE jobs \cup {AdvanceJob(r, "", x.rev + 1)})
    BY <1>2 DEF AdvanceMove
  <1>4. next \in DOMAIN SpecOf(x).states
    BY <1>2, <1>3, EventsNamed DEF StateOf
  <1>5. effect => x.at = "apply" /\ SpecOf(x).states[next].kind = "end"
    BY <1>2, <1>3, EffectEnds DEF StateOf
  <1>6. S \in SUBSET RunIds /\ \A q \in S : Running(runs, q) /\ q # r
    BY <1>5 DEF StaleReviews
  <1> HIDE DEF S
  <1>7. runs' = [F EXCEPT ![r] = Moved(x, next)]
    <2>1. F \in [RunIds -> Runs \cup {NoRun}] /\ F[r] = x
      <3>1. runs \in [RunIds -> Runs \cup {NoRun}] /\ \A q \in S : runs[q] \in Runs
        BY <1>6 DEF IInv, Typed, TypeOK, Running
      <3>2. r \in RunIds \ S
        BY <1>2, <1>6
      <3>3. QED
        BY <3>1, <3>2, FinalizedIs
    <2> HIDE DEF F
    <2>2. QED
      BY <1>2, <1>3, <2>1
  <1>8. QED
    BY <1>3, <1>4, <1>5, <1>6, <1>7

LEMMA MoveStep ==
  ASSUME IInv, AdvanceMove
  PROVE  IInv'
  <1> DEFINE r == work.job.run
             j == work.job
             x == runs[r]
             next == StateOf(x).on[Asked]
             effect == StateOf(x).kind = "change"
             ends == SpecOf(x).states[next].kind = "end"
             y == Moved(x, next)
             k == AdvanceJob(r, "", x.rev + 1)
  <1>1. Handling /\ MayWrite /\ UNCHANGED <<lastRun, sessions>>
    BY DEF AdvanceMove
  <1>2. /\ r \in RunIds /\ x \in Runs /\ x # NoRun /\ Live(x)
        /\ j \in jobs /\ j \in Jobs /\ j.rev = x.rev /\ x.at \in DOMAIN SpecOf(x).states
    BY <1>1, MayWriteFacts
  <1>3. /\ next \in DOMAIN SpecOf(x).states /\ (effect => x.at = "apply" /\ ends)
        /\ applied' = IF effect THEN [applied EXCEPT ![r] = @ + 1] ELSE applied
        /\ docs' = IF effect THEN [docs EXCEPT ![x.doc].gen = @ + 1] ELSE docs
        /\ Finish(j, IF ends THEN jobs ELSE jobs \cup {k})
    BY MoveFacts
  <1>4. PICK S \in SUBSET RunIds :
          /\ \A q \in S : Running(runs, q) /\ q # r
          /\ runs' = [Finalized(runs, S, "cancelled") EXCEPT ![r] = y]
          /\ tasks' = Expired(tasks, S \cup {r})
    BY MoveFacts
  <1> DEFINE F == Finalized(runs, S, "cancelled")
             js == IF ends THEN jobs ELSE jobs \cup {k}
  <1>5. /\ F \in [RunIds -> Runs \cup {NoRun}]
        /\ \A q \in RunIds \ S : F[q] = runs[q]
        /\ \A q \in RunIds \cap S :
             /\ KeepsRun(runs[q], F[q]) /\ F[q].status = "cancelled"
             /\ F[q].at = runs[q].at /\ F[q].rev = runs[q].rev
    <2>1. runs \in [RunIds -> Runs \cup {NoRun}] /\ \A q \in S : runs[q] \in Runs
      BY <1>4 DEF IInv, Typed, TypeOK, Running
    <2>2. QED
      BY <2>1, FinalizedIs
  <1>6. /\ KeepsRun(x, y) /\ y.at = next /\ y.rev = x.rev + 1 /\ y \in Runs
        /\ y.status = IF ends THEN "done" ELSE "running"
    BY <1>2, <1>3, RunMoved DEF KeepsRun
  <1>7. r <= lastRun /\ x.rev \in Nat /\ x.rev + 1 \in Nat /\ x.rev # x.rev + 1
    <2>1. x.rev \in Nat
      BY <1>2 DEF Runs
    <2>2. r <= lastRun
      BY <1>2 DEF IInv, Typed, RunsKnown
    <2>3. QED
      BY <2>1, <2>2
  <1>8. k.run = r /\ k.rev = y.rev /\ k # j /\ JobFine(k, lastRun) /\ r # 0
    <2>1. k.run = r /\ k.rev = x.rev + 1
      BY DEF AdvanceJob
    <2>2. JobFine(k, lastRun)
      BY <1>2, <1>7, NewJobFine
    <2>3. r # 0
      BY <1>2, Numbers DEF RunIds
    <2>4. QED
      BY <1>2, <1>6, <1>7, <2>1, <2>2, <2>3
  <1>9. JobsFine(js, lastRun)
    BY <1>8, JobsTyped, JobsPlus DEF IInv
  <1>10. /\ JobsFine(jobs', lastRun) /\ work' = NoWork
         /\ spent' \in [DOMAIN Bounds -> Nat] /\ up' \in BOOLEAN
         /\ jobs' = js \ {j} \/ jobs' = js
    BY <1>3, <1>9, FinishStep DEF IInv
  <1> HIDE DEF k
  <1>11. /\ \A i \in jobs' : i \in jobs \/ i = k
         /\ \A i \in jobs \ {j} : i \in jobs'
         /\ ~ends => k \in jobs'
    BY <1>8, <1>10
  <1> HIDE DEF y, F, js
  <1>12. /\ runs' \in [RunIds -> Runs \cup {NoRun}] /\ runs'[r] = y
         /\ \A q \in RunIds \ {r} : runs'[q] = F[q]
    BY <1>2, <1>4, <1>5, <1>6 DEF F
  <1>13. RunsTyped /\ Linked' /\ tasks' \subseteq Tasks
    <2> DEFINE L == {r}
    <2>1. L \in SUBSET RunIds /\ tasks' = Expired(tasks, S \cup L) /\ jobs' \subseteq Jobs
      BY <1>2, <1>4, <1>10 DEF JobsFine, JobFine
    <2>2. \A q \in RunIds \ (S \cup L) : runs'[q] = runs[q]
      BY <1>5, <1>12
    <2>3. ASSUME NEW q \in S
          PROVE  /\ Live(runs[q]) /\ q \notin L /\ KeepsRun(runs[q], runs'[q])
                 /\ runs'[q].status # "running"
                 /\ runs'[q].at = runs[q].at /\ runs'[q].rev = runs[q].rev
      <3>1. q \in RunIds \cap S /\ q \in RunIds \ {r} /\ Live(runs[q])
        BY <1>4 DEF Running, Live
      <3>2. runs'[q] = F[q] /\ F[q].status # "running"
        BY <1>5, <1>12, <3>1
      <3>3. QED
        BY <1>5, <3>1, <3>2
    <2>4. ASSUME NEW q \in L
          PROVE  /\ Live(runs[q]) /\ KeepsRun(runs[q], runs'[q])
                 /\ runs'[q].rev = runs[q].rev + 1
                 /\ runs'[q].at \in DOMAIN SpecOf(runs[q]).states
                 /\ runs'[q].status = "running" =>
                      \E i \in jobs' : i.run = q /\ i.rev = runs'[q].rev
      BY <1>2, <1>3, <1>6, <1>8, <1>11, <1>12
    <2>5. \A i \in jobs' : i.run \in RunIds =>
            (\E h \in jobs : SameJob(h, i)) \/ (i.run \in L /\ i.rev = runs'[i.run].rev)
      BY <1>8, <1>11, <1>12 DEF SameJob
    <2>6. \A h \in jobs : h.run \in RunIds \ L => \E i \in jobs' : SameJob(h, i)
      BY <1>11 DEF SameJob
    <2> HIDE DEF L
    <2>7. QED
      BY <1>1, <1>12, <2>1, <2>2, <2>3, <2>4, <2>5, <2>6, LeavingStep
  <1>14. applied' \in [RunIds -> Nat] /\ docs' \in [Docs -> [state: {"live", "trashed", "purged"}, gen: Nat]]
    <2>1. applied \in [RunIds -> Nat] /\ x.doc \in Docs
      BY <1>2 DEF IInv, Typed, TypeOK, Runs
    <2>2. [applied EXCEPT ![r] = @ + 1] \in [RunIds -> Nat]
      <3> DEFINE m == applied[r] + 1
      <3>1. m \in Nat
        BY <1>2, <2>1
      <3> HIDE DEF m
      <3>2. [applied EXCEPT ![r] = m] \in [RunIds -> Nat]
        BY <2>1, <3>1
      <3>3. QED
        BY <3>2 DEF m
    <2>3. QED
      BY <1>3, <2>1, <2>2, DocTyped DEF IInv, Typed, TypeOK
  <1>15. WriterIsDone'
    <2>1. ASSUME NEW q \in RunIds, applied'[q] # 0 PROVE q <= lastRun' /\ ~Running(runs', q)
      <3>1. CASE applied[q] # 0
        BY <1>13, <3>1, WriterKept DEF IInv
      <3>2. CASE applied[q] = 0
        <4>1. effect /\ q = r
          BY <1>2, <1>3, <2>1, <3>2 DEF IInv, Typed, TypeOK
        <4>2. QED
          BY <1>1, <1>3, <1>6, <1>7, <1>12, <4>1 DEF Running
      <3>3. QED
        BY <3>1, <3>2
    <2>2. QED
      BY <2>1 DEF WriterIsDone, Running
  <1>16. OthersTyped /\ WorkKept
    BY <1>1, <1>10, <1>14 DEF OthersTyped, WorkKept, IInv, Typed, TypeOK
  <1>17. QED
    BY <1>1, <1>10, <1>13, <1>15, <1>16, TypedStep DEF IInv

-----------------------------------------------------------------------------
(* The sweep: reviews that cannot be applied end, and what is due goes on. *)
LEMMA TimeoutJobs ==
  ASSUME IInv, NEW due \in SUBSET RunIds, \A r \in due : runs[r] \in Runs
  PROVE  LET N == {AdvanceJob(r, "timeout", runs[r].rev + 1) : r \in due} IN
         /\ JobsFine(N, lastRun)
         /\ \A k \in N : k.run \in due /\ k.rev = runs[k.run].rev + 1
         /\ \A r \in due : \E k \in N : k.run = r /\ k.rev = runs[r].rev + 1
  <1> DEFINE f == [r \in due |-> AdvanceJob(r, "timeout", runs[r].rev + 1)]
             N == {AdvanceJob(r, "timeout", runs[r].rev + 1) : r \in due}
  <1>1. N = {f[r] : r \in due}
    OBVIOUS
  <1>2. IsFiniteSet(due)
    <2>1. IsFiniteSet(RunIds)
      BY Numbers, FS_Interval DEF RunIds
    <2>2. QED
      BY <2>1, FS_Subset
  <1>3. ASSUME NEW r \in due
        PROVE  JobFine(f[r], lastRun) /\ f[r].run = r /\ f[r].rev = runs[r].rev + 1
    <2>1. runs[r].rev + 1 \in Nat
      BY DEF Runs
    <2>2. r \in RunIds \cup {0} /\ r <= lastRun
      BY MarkersAssumption DEF IInv, Typed, RunsKnown
    <2>3. JobFine(AdvanceJob(r, "timeout", runs[r].rev + 1), lastRun)
      BY <2>1, <2>2, NewJobFine
    <2>4. QED
      BY <2>3 DEF AdvanceJob
  <1> HIDE DEF f
  <1>4. IsFiniteSet({f[r] : r \in due})
    BY <1>2, FiniteImage
  <1> HIDE DEF N
  <1>5. /\ JobsFine(N, lastRun)
        /\ \A k \in N : k.run \in due /\ k.rev = runs[k.run].rev + 1
        /\ \A r \in due : \E k \in N : k.run = r /\ k.rev = runs[r].rev + 1
    BY <1>1, <1>3, <1>4 DEF JobsFine
  <1>6. QED
    BY <1>5 DEF N

LEMMA SweepStep ==
  ASSUME IInv, NEW j \in jobs, TimeoutSweep(j)
  PROVE  IInv'
  <1> DEFINE S == StaleReviews(runs, docs, Docs)
             L == {r \in RunIds \ S : Running(runs, r) /\ runs[r].deadline = "due"}
             rs == Finalized(runs, S, "cancelled")
             row == AsRunning(j)
             N == {AdvanceJob(r, "timeout", runs[r].rev + 1) : r \in L}
             js == (jobs \ {j}) \cup {row} \cup N
  <1>1. /\ up /\ work = NoWork /\ j.state = "pending" /\ j.run = 0
        /\ runs' = [r \in RunIds |-> IF r \in L THEN Accepted(rs[r]) ELSE rs[r]]
        /\ tasks' = Expired(tasks, S \cup L)
        /\ UNCHANGED <<docs, lastRun, sessions, applied>>
        /\ \/ Finish(row, WithSweep(js))
           \/ jobs' = (js \ {row}) \cup {Failed(row)} /\ Spend("mishaps") /\ UNCHANGED <<work, up>>
           \/ jobs' = js /\ Die /\ UNCHANGED work
    BY DEF TimeoutSweep, Idle, IsSweep
  <1>2. /\ S \in SUBSET RunIds /\ L \in SUBSET RunIds /\ \A r \in S : r \notin L
        /\ \A r \in S \cup L : Running(runs, r)
    BY DEF StaleReviews
  <1> HIDE DEF S, L
  <1>3. /\ runs \in [RunIds -> Runs \cup {NoRun}]
        /\ \A r \in S \cup L : runs[r] \in Runs /\ Live(runs[r])
    BY <1>2 DEF IInv, Typed, TypeOK, Running, Live
  <1>4. /\ rs \in [RunIds -> Runs \cup {NoRun}]
        /\ \A r \in RunIds \ S : rs[r] = runs[r]
        /\ \A r \in RunIds \cap S : /\ KeepsRun(runs[r], rs[r]) /\ rs[r].status = "cancelled"
                                    /\ rs[r].at = runs[r].at /\ rs[r].rev = runs[r].rev
    BY <1>3, FinalizedIs
  <1> HIDE DEF rs
  <1>5. ASSUME NEW r \in L
        PROVE  /\ runs'[r] = Accepted(runs[r]) /\ KeepsRun(runs[r], runs'[r])
               /\ runs'[r].rev = runs[r].rev + 1 /\ runs'[r].at = runs[r].at
    <2>1. runs'[r] = Accepted(runs[r])
      BY <1>1, <1>2, <1>4
    <2>2. QED
      BY <1>3, <2>1, RunAccepted
  <1>6. /\ runs' \in [RunIds -> Runs \cup {NoRun}]
        /\ \A r \in RunIds \ L : runs'[r] = rs[r]
    BY <1>1, <1>2, <1>4, <1>5 DEF KeepsRun
  <1>7. /\ JobsFine(N, lastRun)
        /\ \A k \in N : k.run \in L /\ k.rev = runs[k.run].rev + 1
        /\ \A r \in L : \E k \in N : k.run = r /\ k.rev = runs[r].rev + 1
    BY <1>2, <1>3, TimeoutJobs
  <1>8. 0 \notin RunIds /\ JobsFine(jobs, lastRun) /\ JobFine(j, lastRun) /\ lastRun \in Nat
    BY Numbers, JobsTyped DEF RunIds, IInv, JobsFine
  <1>9. JobFine(row, lastRun) /\ row.run = 0 /\ row.state = "running"
    <2>1. row \in Jobs /\ SameJob(j, row) /\ row.state = "running" /\ row.attempts = j.attempts
      BY <1>8, JobState DEF AsRunning, JobFine
    <2> HIDE DEF row
    <2>2. QED
      BY <1>1, <1>8, <2>1 DEF JobFine, SameJob
  <1> HIDE DEF row, N
  <1>10. JobsFine(js, lastRun)
    <2>1. JobsFine((jobs \ {j}) \cup {row}, lastRun)
      BY <1>8, <1>9, JobsLess, JobsPlus
    <2>2. IsFiniteSet(((jobs \ {j}) \cup {row}) \cup N)
      BY <1>7, <2>1, FS_Union DEF JobsFine
    <2>3. QED
      BY <1>7, <2>1, <2>2 DEF JobsFine
  <1>11. /\ \A i \in js : i.run \in RunIds => i \in jobs \/ i \in N
         /\ \A i \in jobs : i.run \in RunIds => i \in js
         /\ \A k \in N : k \in js /\ k.run \in RunIds
    BY <1>1, <1>2, <1>7, <1>8, <1>9
  <1> HIDE DEF js
  <1>12. /\ work' = NoWork /\ spent' \in [DOMAIN Bounds -> Nat] /\ up' \in BOOLEAN
         /\ JobsFine(jobs', lastRun)
         /\ \A k \in jobs' : k.run \in RunIds => k \in jobs \/ k \in N
         /\ \A i \in jobs : i.run \in RunIds => i \in jobs'
         /\ \A k \in N : k \in jobs'
    <2>1. CASE Finish(row, WithSweep(js))
      <3> DEFINE W == WithSweep(js)
      <3>1. /\ js \subseteq W /\ W \subseteq Jobs /\ IsFiniteSet(W)
            /\ \A i \in W : i \in js \/ (i.run = 0 /\ i.state = "pending" /\ i.attempts = 0)
        BY <1>10, WithSweepIs DEF JobsFine, JobFine
      <3> HIDE DEF W
      <3>2. JobsFine(W, lastRun)
        <4>1. ASSUME NEW i \in W, i.run = 0, i.state = "pending", i.attempts = 0
              PROVE  JobFine(i, lastRun)
          <5>1. i.run <= lastRun
            BY <1>8, <4>1
          <5>2. QED
            BY <3>1, <4>1, <5>1, NoAttempt DEF JobFine
        <4>2. QED
          BY <1>10, <3>1, <4>1 DEF JobsFine
      <3>3. /\ JobsFine(jobs', lastRun) /\ work' = NoWork
            /\ spent' \in [DOMAIN Bounds -> Nat] /\ up' \in BOOLEAN
            /\ jobs' = W \ {row} \/ jobs' = W
        BY <2>1, <3>2, FinishStep DEF W, IInv
      <3>4. QED
        BY <1>8, <1>9, <1>11, <3>1, <3>3
    <2>2. CASE jobs' = (js \ {row}) \cup {Failed(row)} /\ Spend("mishaps") /\ UNCHANGED <<work, up>>
      <3>1. JobFine(Failed(row), lastRun) /\ Failed(row).run = 0
        BY <1>9, FailedFine DEF SameJob
      <3>2. JobsFine(jobs', lastRun)
        BY <1>10, <2>2, <3>1, JobsLess, JobsPlus
      <3>3. spent' \in [DOMAIN Bounds -> Nat] /\ up' \in BOOLEAN /\ work' = NoWork
        BY <1>1, <2>2, SpendTyped DEF IInv, Typed, TypeOK
      <3>4. QED
        BY <1>8, <1>9, <1>11, <2>2, <3>1, <3>2, <3>3
    <2>3. CASE jobs' = js /\ Die /\ UNCHANGED work
      BY <1>1, <1>10, <1>11, <2>3, SpendTyped DEF Die, IInv
    <2>4. QED
      BY <1>1, <2>1, <2>2, <2>3
  <1>13. RunsTyped /\ Linked' /\ tasks' \subseteq Tasks
    <2>1. jobs' \subseteq Jobs /\ \A r \in RunIds \ (S \cup L) : runs'[r] = runs[r]
      BY <1>4, <1>6, <1>12 DEF JobsFine, JobFine
    <2>2. ASSUME NEW r \in S
          PROVE  /\ Live(runs[r]) /\ r \notin L /\ KeepsRun(runs[r], runs'[r])
                 /\ runs'[r].status # "running"
                 /\ runs'[r].at = runs[r].at /\ runs'[r].rev = runs[r].rev
      <3>1. r \in RunIds \cap S /\ r \in RunIds \ L /\ Live(runs[r]) /\ r \notin L
        BY <1>2, <1>3
      <3>2. runs'[r] = rs[r] /\ rs[r].status # "running"
        BY <1>4, <1>6, <3>1
      <3>3. QED
        BY <1>4, <3>1, <3>2
    <2>3. ASSUME NEW r \in L
          PROVE  /\ Live(runs[r]) /\ KeepsRun(runs[r], runs'[r])
                 /\ runs'[r].rev = runs[r].rev + 1
                 /\ runs'[r].at \in DOMAIN SpecOf(runs[r]).states
                 /\ runs'[r].status = "running" =>
                      \E k \in jobs' : k.run = r /\ k.rev = runs'[r].rev
      <3>1. runs[r].at \in DOMAIN SpecOf(runs[r]).states
        BY <1>2, <1>3, MarkersAssumption DEF IInv, Typed, RunsKnown
      <3>2. \E k \in jobs' : k.run = r /\ k.rev = runs'[r].rev
        BY <1>5, <1>7, <1>12
      <3>3. QED
        BY <1>3, <1>5, <3>1, <3>2
    <2>4. \A k \in jobs' : k.run \in RunIds =>
            (\E i \in jobs : SameJob(i, k)) \/ (k.run \in L /\ k.rev = runs'[k.run].rev)
      BY <1>5, <1>7, <1>12 DEF SameJob
    <2>5. \A i \in jobs : i.run \in RunIds \ L => \E k \in jobs' : SameJob(i, k)
      BY <1>12 DEF SameJob
    <2>6. QED
      BY <1>1, <1>2, <1>6, <2>1, <2>2, <2>3, <2>4, <2>5, LeavingStep
  <1>14. OthersTyped /\ WorkKept
    BY <1>1, <1>12 DEF OthersTyped, WorkKept, IInv, Typed, TypeOK
  <1>15. QED
    BY <1>1, <1>12, <1>13, <1>14, TypedStep, WriterStep DEF IInv

-----------------------------------------------------------------------------
(* The invariant holds from the start and in every step.                   *)
LEMMA InitIInv == Init => IInv
  <1> SUFFICES ASSUME Init PROVE IInv
    OBVIOUS
  <1> DEFINE k == SweepJob(1)
  <1>1. k \in Jobs /\ k.run = 0 /\ k.state = "pending" /\ k.attempts = 0
    BY NoAttempt DEF SweepJob, AdvanceJob, Jobs
  <1>2. jobs = {k} /\ IsFiniteSet(jobs)
    BY FS_Singleton DEF Init
  <1> HIDE DEF k
  <1>3. \A r \in RunIds : runs[r] = NoRun
    BY DEF Init
  <1>4. 0 \in 0..MaxRuns /\ 0 <= 0 /\ lastRun = 0
    BY Numbers DEF Init
  <1>5. /\ docs \in [Docs -> [state: {"live", "trashed", "purged"}, gen: Nat]]
        /\ spent \in [DOMAIN Bounds -> Nat] /\ applied \in [RunIds -> Nat]
        /\ runs \in [RunIds -> Runs \cup {NoRun}]
    BY DEF Init
  <1>6. \A j \in jobs : j.run <= lastRun /\ (j.attempts = MaxAttempts <=> j.state = "dead")
    BY <1>1, <1>2, <1>4, NoAttempt
  <1>7. TypeOK
    BY <1>1, <1>2, <1>4, <1>5, <1>6 DEF TypeOK, Init
  <1>8. RunsKnown /\ WorkKnown
    BY <1>3 DEF Init, RunsKnown, WorkKnown
  <1>9. Linked
    BY <1>3, RunPurged DEF Linked, Init
  <1>10. WriterIsDone
    BY DEF Init, WriterIsDone
  <1>11. QED
    BY <1>2, <1>7, <1>8, <1>9, <1>10 DEF IInv, Typed

LEMMA StutterIInv == ASSUME IInv, UNCHANGED vars PROVE IInv'
  BY DEF IInv, Typed, TypeOK, RunsKnown, WorkKnown, Linked, WriterIsDone, Running, SpecOf, vars

LEMMA NextIInv == IInv /\ [Next]_vars => IInv'
  <1> SUFFICES ASSUME IInv, [Next]_vars PROVE IInv'
    OBVIOUS
  <1>1. ASSUME NEW d \in Docs,
               \/ Start(d) \/ Propose(d) \/ Edit(d) \/ NewContent(d) \/ Restore(d) \/ Purge(d)
               \/ \E bulk \in BOOLEAN : Trash(d, bulk)
        PROVE  IInv'
    <2>1. CASE Start(d) \/ Propose(d)
      BY <2>1, StartStep
    <2>2. CASE NewContent(d)
      BY <2>2, DocStep
    <2>3. CASE Restore(d)
      BY <2>3, DocStep
    <2>4. CASE Trash(d, FALSE)
      BY <2>4, DocStep
    <2>5. CASE Edit(d) \/ Trash(d, TRUE)
      BY <2>5, ObsoleteStep
    <2>6. CASE Purge(d)
      BY <2>6, PurgeStep
    <2>7. QED
      BY <1>1, <2>1, <2>2, <2>3, <2>4, <2>5, <2>6
  <1>2. ASSUME NEW t \in tasks, NEW c \in Choices, NEW s \in Sessions, Resolve(t, c, s) PROVE IInv'
    BY <1>2, ResolveStep
  <1>3. ASSUME NEW r \in RunIds, Cancel(r) \/ DeadlinePasses(r) PROVE IInv'
    BY <1>3, CancelStep, DueStep
  <1>4. ASSUME NEW s \in Sessions, Logout(s) PROVE IInv'
    BY <1>4, LogoutStep
  <1>5. ASSUME NEW j \in jobs, RetryDeadJob(j) \/ TimeoutSweep(j) \/ SweepFault(j) PROVE IInv'
    BY <1>5, RetryStep, SweepStep, ErrorStep
  <1>6. CASE Advance
    <2>1. ASSUME NEW j \in jobs, AdvanceSkip(j) \/ AdvanceRead(j) PROVE IInv'
      BY <2>1, SkipStep, ReadStep
    <2>2. CASE AdvanceError
      <3>1. \E j \in jobs : TRUE
        BY <2>2, WorkRow DEF AdvanceError, IInv
      <3>2. QED
        BY <2>2, <3>1, ErrorStep
    <2>3. QED
      BY <1>6, <2>1, <2>2, StaleStep, TaskStep, MoveStep DEF Advance
  <1>7. CASE AdvanceFault
    <2>1. \E j \in jobs : TRUE
      BY <1>7, WorkRow DEF AdvanceFault, IInv
    <2>2. QED
      BY <1>7, <2>1, ErrorStep
  <1>8. CASE Crash \/ Boot
    BY <1>8, CrashStep, BootStep
  <1>9. CASE UNCHANGED vars
    BY <1>9, StutterIInv
  <1>10. QED
    BY <1>1, <1>2, <1>3, <1>4, <1>5, <1>6, <1>7, <1>8, <1>9 DEF Next

LEMMA SpecIInv == Spec => []IInv
  BY InitIInv, NextIInv, PTL DEF Spec

(* Every variable keeps its type; no job is tried too often or is for a    *)
(* run that was never started; the job in hand has its row.                *)
THEOREM ApprovalsTyped == Spec => []TypeOK
  <1>1. IInv => TypeOK
    BY DEF IInv, Typed
  <1>2. QED
    BY <1>1, SpecIInv, PTL

(* No task outlives the visit it was asked for, whatever expires, cancels  *)
(* or retries (expireOpenTasksForRun, insertTask).                         *)
THEOREM TasksAreCurrent == Spec => []OpenTaskIsCurrent
  <1>1. IInv => OpenTaskIsCurrent
    <2> SUFFICES ASSUME IInv, NEW t \in tasks, t.status = "open"
                 PROVE  Running(runs, t.run) /\ runs[t.run].at = t.at /\ runs[t.run].rev = t.rev
      BY DEF OpenTaskIsCurrent
    <2>1. t.run \in RunIds
      BY DEF IInv, Typed, TypeOK, Tasks
    <2>2. TaskKnown(runs[t.run], t)
      BY <2>1 DEF IInv, Linked, LinkedRun, TasksKnown
    <2>3. QED
      BY <2>2 DEF TaskKnown, Live, Running
  <1>2. QED
    BY <1>1, SpecIInv, PTL

(* No running run is left without a task or a job that will move it, even  *)
(* by a crash between a transaction and markDone                           *)
(* (enqueueAdvanceWithTrigger).                                            *)
THEOREM RunsAreMoved == Spec => []NoRunForgotten
  <1>1. IInv => NoRunForgotten
    <2> SUFFICES ASSUME IInv, NEW r \in RunIds, Running(runs, r)
                 PROVE  \/ \E t \in tasks : t.run = r /\ t.status = "open"
                        \/ \E j \in jobs : j.run = r /\ j.rev = runs[r].rev
      BY DEF NoRunForgotten
    <2>1. Moves(r, runs[r], tasks, jobs) /\ Live(runs[r])
      BY DEF IInv, Linked, LinkedRun, Running, Live
    <2>2. QED
      BY <2>1 DEF Moves
  <1>2. QED
    BY <1>1, SpecIInv, PTL

-----------------------------------------------------------------------------
(* Who may take a run to another revision.                                 *)
LEMMA ClosingStays ==
  ASSUME NEW S, Closing(S), NEW r \in RunIds
  PROVE  ~LeavesVisit(r)
  BY DEF Closing, LeavesVisit

LEMMA InsertStays ==
  ASSUME IInv, NEW y, NEW S \in SUBSET RunIds, \A q \in S : Running(runs, q), Insert(y, S),
         NEW r \in RunIds
  PROVE  ~LeavesVisit(r)
  <1> DEFINE n == lastRun + 1
             F == Finalized(runs, S, "failed")
  <1>1. n \in RunIds /\ runs' = [F EXCEPT ![n] = y]
    BY DEF Insert, InsertRunId
  <1>2. /\ F \in [RunIds -> Runs \cup {NoRun}]
        /\ \A q \in RunIds \ S : F[q] = runs[q]
        /\ \A q \in RunIds \cap S : F[q].rev = runs[q].rev
    <2>1. runs \in [RunIds -> Runs \cup {NoRun}] /\ \A q \in S : runs[q] \in Runs
      BY DEF IInv, Typed, TypeOK, Running
    <2>2. QED
      BY <2>1, FinalizedIs
  <1>3. ~(n <= lastRun)
    BY JobsTyped DEF IInv
  <1>4. CASE r = n
    BY <1>1, <1>3, <1>4 DEF IInv, Typed, RunsKnown, LeavesVisit
  <1> HIDE DEF F, n
  <1>5. CASE r # n
    BY <1>1, <1>2, <1>5 DEF LeavesVisit
  <1>6. QED
    BY <1>4, <1>5

LEMMA OthersStay ==
  ASSUME IInv, [Next]_vars, ~AdvanceMove, NEW r \in RunIds, LeavesVisit(r)
  PROVE  \/ \E t \in tasks, c \in Choices, s \in Sessions : Resolve(t, c, s)
         \/ \E j \in jobs : TimeoutSweep(j)
  <1>1. ASSUME NEW d \in Docs,
               \/ Start(d) \/ Propose(d) \/ Edit(d) \/ NewContent(d) \/ Restore(d) \/ Purge(d)
               \/ \E bulk \in BOOLEAN : Trash(d, bulk)
        PROVE  FALSE
    <2>1. CASE Start(d)
      BY <2>1, InsertStays DEF Start
    <2>2. CASE Propose(d)
      <3>1. Same(d) \in SUBSET RunIds /\ \A q \in Same(d) : Running(runs, q)
        BY DEF Same
      <3>2. Insert(NewRun("change", d), Same(d))
        BY <2>2 DEF Propose
      <3>3. QED
        BY <3>1, <3>2, InsertStays
    <2>3. CASE NewContent(d) \/ Restore(d) \/ Trash(d, FALSE)
      BY <2>3 DEF NewContent, Restore, Trash, LeavesVisit
    <2>4. CASE Edit(d) \/ Trash(d, TRUE)
      <3>1. PICK ds : Reconcile(ds, {d})
        BY <2>4 DEF Edit, Trash
      <3>2. QED
        BY <3>1, ReconcileCloses, ClosingStays DEF IInv
    <2>5. CASE Purge(d)
      BY <2>5 DEF Purge, LeavesVisit
    <2>6. QED
      BY <1>1, <2>1, <2>2, <2>3, <2>4, <2>5
  <1>2. ASSUME NEW q \in RunIds, Cancel(q) \/ DeadlinePasses(q) PROVE FALSE
    <2>1. CASE Cancel(q)
      <3>1. Running(runs, q) /\ runs' = Finalized(runs, {q}, "cancelled") /\ tasks' = Expired(tasks, {q})
        BY <2>1 DEF Cancel
      <3>2. Closing({q})
        BY <3>1, RunsClose DEF IInv
      <3>3. QED
        BY <3>2, ClosingStays
    <2>2. CASE DeadlinePasses(q)
      <3>1. runs \in [RunIds -> Runs \cup {NoRun}] /\ runs[q] \in Runs
        BY <2>2 DEF DeadlinePasses, Running, IInv, Typed, TypeOK
      <3> DEFINE y == [runs[q] EXCEPT !.deadline = "due"]
      <3>2. y.rev = runs[q].rev
        BY <3>1, RunDeadline
      <3>3. runs' = [runs EXCEPT ![q] = y]
        BY <2>2 DEF DeadlinePasses
      <3> HIDE DEF y
      <3>4. QED
        BY <3>1, <3>2, <3>3 DEF LeavesVisit
    <2>3. QED
      BY <1>2, <2>1, <2>2
  <1>3. \/ runs' # runs
    BY DEF LeavesVisit
  <1>4. CASE Boot
    BY <1>4, ReconcileCloses, ClosingStays DEF Boot, IInv
  <1>5. CASE AdvanceTask
    <2> DEFINE q == work.job.run
               dl == DeadlineOf(SpecOf(work.run), work.run.at)
               y == [runs[q] EXCEPT !.deadline = dl]
    <2>1. runs' = [runs EXCEPT ![q] = y] /\ Handling /\ MayWrite
      BY <1>3, <1>5 DEF AdvanceTask
    <2>2. dl \in {"none", "armed", "due"}
      BY DeadlineKnown
    <2> HIDE DEF dl
    <2>3. q \in RunIds /\ runs[q] \in Runs /\ runs \in [RunIds -> Runs \cup {NoRun}]
      BY <2>1, MayWriteFacts DEF IInv, Typed, TypeOK
    <2>4. y.rev = runs[q].rev
      BY <2>2, <2>3, RunDeadline
    <2> HIDE DEF y
    <2>5. QED
      BY <2>1, <2>3, <2>4 DEF LeavesVisit
  <1>6. ~ \E s \in Sessions : Logout(s)
    BY <1>3 DEF Logout
  <1>7. ~ \E j \in jobs : RetryDeadJob(j) \/ SweepFault(j) \/ AdvanceSkip(j) \/ AdvanceRead(j)
    BY <1>3 DEF RetryDeadJob, SweepFault, AdvanceSkip, AdvanceRead
  <1>8. ~AdvanceStale /\ ~AdvanceError /\ ~AdvanceFault /\ ~Crash /\ ~UNCHANGED vars
    BY <1>3 DEF AdvanceStale, AdvanceError, AdvanceFault, Crash, vars
  <1>9. QED
    BY <1>1, <1>2, <1>4, <1>5, <1>6, <1>7, <1>8 DEF Next, Advance

LEMMA DecidedFacts ==
  ASSUME IInv, NEW r \in RunIds, NEW t \in tasks, Decided(r, runs[r], t), Live(runs[r])
  PROVE  /\ runs[r].deadline = "none" /\ StateOf(runs[r]).kind = "approve"
         /\ \A u \in tasks : u.run = r => u.status # "open"
         /\ \A j \in jobs : j.run = r /\ j.rev = runs[r].rev => j.trigger = t.choice
         /\ t.choice \in DOMAIN StateOf(runs[r]).on
  <1>1. LinkedRun(r, runs[r], tasks, jobs) /\ t.run = r /\ t.at = runs[r].at /\ t.status = "resolved"
    BY DEF IInv, Linked, Decided
  <1>2. runs[r] \in Runs
    BY DEF Live, IInv, Typed, TypeOK
  <1>3. TaskKnown(runs[r], t)
    BY <1>1 DEF LinkedRun, TasksKnown
  <1>4. /\ t.at \in DOMAIN SpecOf(runs[r]).states
        /\ SpecOf(runs[r]).states[t.at].kind = "approve"
        /\ t.choice \in SpecOf(runs[r]).states[t.at].choices
    BY <1>1, <1>3 DEF TaskKnown
  <1>5. t.choice \in DOMAIN SpecOf(runs[r]).states[t.at].on
    BY <1>2, <1>4, SpecFacts
  <1>6. QED
    BY <1>1, <1>4, <1>5 DEF LinkedRun, DecisionAlone, StateOf

(* No step but the transition of the accepted choice takes a run away from *)
(* a decision: not a timeout that was due, not a second answer, not a job  *)
(* of another visit (enqueueAdvanceWithTrigger, writeCurrentRun).          *)
THEOREM DecisionsStand == Spec => DecisionStands
  <1>1. ASSUME IInv, [Next]_vars, NEW r \in RunIds, LeavesVisit(r), Choice(r) # {}
        PROVE  /\ runs'[r].rev = runs[r].rev + 1
               /\ \E c \in Choice(r) : runs'[r].at = StateOf(runs[r]).on[c]
    <2>1. PICK t \in tasks : Decided(r, runs[r], t) /\ t.choice \in Choice(r)
      BY <1>1 DEF Choice, Decided
    <2>2. CASE AdvanceMove
      <3> DEFINE q == work.job.run
                 x == runs[q]
                 next == StateOf(x).on[Asked]
                 y == Moved(x, next)
      <3>1. next \in DOMAIN SpecOf(x).states
        BY <1>1, <2>2, MoveFacts
      <3>2. PICK S \in SUBSET RunIds :
              /\ \A p \in S : Running(runs, p) /\ p # q
              /\ runs' = [Finalized(runs, S, "cancelled") EXCEPT ![q] = y]
        BY <1>1, <2>2, MoveFacts
      <3> DEFINE F == Finalized(runs, S, "cancelled")
      <3>3. /\ F \in [RunIds -> Runs \cup {NoRun}]
            /\ \A p \in RunIds \ S : F[p] = runs[p]
            /\ \A p \in RunIds \cap S : F[p].rev = runs[p].rev
        <4>1. runs \in [RunIds -> Runs \cup {NoRun}] /\ \A p \in S : runs[p] \in Runs
          BY <1>1, <3>2 DEF IInv, Typed, TypeOK, Running
        <4>2. QED
          BY <4>1, FinalizedIs
      <3>4. Handling /\ MayWrite
        BY <2>2 DEF AdvanceMove
      <3>5. /\ q \in RunIds /\ x \in Runs /\ Live(x) /\ work.job \in jobs /\ work.job.rev = x.rev
            /\ StateOf(x) = StateOf(work.run)
        BY <1>1, <3>4, MayWriteFacts
      <3>6. y.rev = x.rev + 1 /\ y.at = next
        BY <3>1, <3>5, RunMoved
      <3> HIDE DEF y, F
      <3>7. runs' = [F EXCEPT ![q] = y]
        BY <3>2 DEF F
      <3>8. r = q
        BY <1>1, <3>3, <3>5, <3>7 DEF LeavesVisit
      <3>9. runs'[r] = y
        BY <3>3, <3>5, <3>7, <3>8
      <3>10. Asked = t.choice
        <4>1. work.job.trigger = t.choice /\ StateOf(x).kind = "approve"
          BY <1>1, <2>1, <3>5, <3>8, DecidedFacts
        <4>2. QED
          BY <3>5, <4>1 DEF Asked, Event
      <3>11. QED
        BY <2>1, <3>6, <3>8, <3>9, <3>10
    <2>3. ASSUME ~AdvanceMove, NEW u \in tasks, NEW c \in Choices, NEW s \in Sessions, Resolve(u, c, s)
          PROVE  FALSE
      <3>1. /\ u.status = "open" /\ Running(runs, u.run)
            /\ runs' = [runs EXCEPT ![u.run] = Accepted(@)]
        BY <2>3 DEF Resolve, Decide, Actionable
      <3>2. r = u.run
        BY <1>1, <3>1 DEF LeavesVisit, IInv, Typed, TypeOK
      <3>3. Live(runs[r])
        BY <3>1, <3>2 DEF Running, Live
      <3>4. QED
        BY <1>1, <2>1, <3>1, <3>2, <3>3, DecidedFacts
    <2>4. ASSUME ~AdvanceMove, NEW j \in jobs, TimeoutSweep(j) PROVE FALSE
      <3> DEFINE S == StaleReviews(runs, docs, Docs)
                 L == {q \in RunIds \ S : Running(runs, q) /\ runs[q].deadline = "due"}
                 rs == Finalized(runs, S, "cancelled")
      <3>1. runs' = [q \in RunIds |-> IF q \in L THEN Accepted(rs[q]) ELSE rs[q]]
        BY <2>4 DEF TimeoutSweep
      <3>2. S \in SUBSET RunIds /\ \A q \in S : runs[q] \in Runs
        BY <1>1 DEF StaleReviews, Running, IInv, Typed, TypeOK
      <3> HIDE DEF S
      <3>3. /\ \A q \in RunIds \ S : rs[q] = runs[q]
            /\ \A q \in RunIds \cap S : rs[q].rev = runs[q].rev
        BY <1>1, <3>2, FinalizedIs DEF IInv, Typed, TypeOK
      <3> HIDE DEF rs
      <3>4. r \in L
        BY <1>1, <3>1, <3>3 DEF LeavesVisit
      <3>5. Live(runs[r]) /\ runs[r].deadline = "due"
        BY <3>4 DEF Running, Live
      <3>6. QED
        BY <1>1, <2>1, <3>5, DecidedFacts
    <2>5. QED
      BY <1>1, <2>2, <2>3, <2>4, OthersStay
  <1>2. IInv /\ [Next]_vars =>
          [\A r \in RunIds : LeavesVisit(r) /\ Choice(r) # {} =>
             /\ runs'[r].rev = runs[r].rev + 1
             /\ \E c \in Choice(r) : runs'[r].at = StateOf(runs[r]).on[c]]_vars
    BY <1>1
  <1>3. QED
    BY <1>2, SpecIInv, PTL DEF Spec, DecisionStands

(* A review writes to its document at most once, and only to the document  *)
(* as it was proposed for, with the consent of a credential that is still  *)
(* good (applyDocumentChange).                                             *)
THEOREM ChangesAreAuthorized == Spec => ChangeIsAuthorized
  <1>1. ASSUME IInv, [Next]_vars, NEW r \in RunIds, applied'[r] # applied[r]
        PROVE  /\ applied[r] = 0 /\ runs[r].at = "apply" /\ Fresh(docs, runs[r])
               /\ \E t \in tasks : t.run = r /\ t.choice = "apply" /\ t.by \in sessions
    <2>1. AdvanceMove
      BY <1>1 DEF Next, Advance, vars, Start, Propose, Edit, NewContent, Restore, Purge, Trash, Resolve,
           Decide, Cancel, DeadlinePasses, Logout, RetryDeadJob, TimeoutSweep, SweepFault, AdvanceSkip,
           AdvanceRead, AdvanceStale, AdvanceTask, AdvanceError, AdvanceFault, Crash, Boot
    <2> DEFINE q == work.job.run
               x == runs[q]
               effect == StateOf(x).kind = "change"
    <2>2. /\ effect => x.at = "apply" /\ MayApply(q)
          /\ applied' = IF effect THEN [applied EXCEPT ![q] = @ + 1] ELSE applied
      BY <1>1, <2>1, MoveFacts
    <2>3. effect /\ q = r
      BY <1>1, <2>2 DEF IInv, Typed, TypeOK
    <2>4. Live(x) /\ q \in RunIds
      BY <1>1, <2>1, MayWriteFacts DEF AdvanceMove
    <2>5. applied[r] = 0
      BY <1>1, <2>3, <2>4 DEF IInv, WriterIsDone, Running, Live
    <2>6. Fresh(docs, runs[r]) /\ \E t \in DecisionTasks(r, work.run.rev - 2) : t.by \in sessions
      BY <2>2, <2>3 DEF MayApply
    <2>7. QED
      BY <2>2, <2>3, <2>5, <2>6 DEF DecisionTasks
  <1>2. IInv /\ [Next]_vars =>
          [\A r \in RunIds : applied'[r] # applied[r] =>
             /\ applied[r] = 0 /\ runs[r].at = "apply" /\ Fresh(docs, runs[r])
             /\ \E t \in tasks : t.run = r /\ t.choice = "apply" /\ t.by \in sessions]_vars
    BY <1>1
  <1>3. QED
    BY <1>2, SpecIInv, PTL DEF Spec, ChangeIsAuthorized
============================================================================
