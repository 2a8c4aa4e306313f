------------------------ MODULE JobDispatcherProofs ------------------------
(***************************************************************************)
(* What JobDispatcher's runs check on small instances, proved for every    *)
(* number of documents, kinds, subscribers, jobs, restarts and retries.    *)
(***************************************************************************)
EXTENDS JobDispatcher, Enrichment, FiniteSetTheorems, WellFoundedInduction, TLAPS

-----------------------------------------------------------------------------
(* The dispatcher works on a row of its batch, and has one only between a  *)
(* claim and the end of that batch.                                        *)
Working == {"handling", "finalize", "backoff"}

PlaceOK ==
  /\ pc \in Working => cur \in held
  /\ pc \notin Working \cup {"run"} => held = {}
  /\ pc \in {"finalize", "backoff"} => verdict.state # "running"

Typed == TypeOK /\ PlaceOK

(* What runJob decides is always a verdict that leaves running.            *)
LEMMA DecideType ==
  ASSUME NEW a \in 0..(MaxAttempts - 1), NEW e \in Outcomes
  PROVE  /\ Decide(a, e) \in Verdicts
         /\ Decide(a, e).state # "running"
  <1>1. ASSUME NEW b PROVE Backoff(b) \in Int
    BY NumbersAssumption DEF Backoff
  <1>2. QED
    BY <1>1, NumbersAssumption DEF Decide, Verdicts, States

LEMMA UndecidedType == Undecided \in Verdicts
  BY NumbersAssumption DEF Undecided, Verdicts, States

LEMMA PresentRow == TypeOK => \A i \in Present : i \in Ids /\ jobs[i] \in Rows
  BY DEF TypeOK, Present

(* The updates of a row keep it a row.                                     *)
LEMMA RowUpdates ==
  ASSUME NEW r \in Rows, NEW st \in States, NEW a \in 0..(MaxAttempts - 1),
         NEW x \in Int
  PROVE  /\ [r EXCEPT !.state = st, !.due = x] \in Rows
         /\ [r EXCEPT !.state = st, !.attempts = a, !.due = x] \in Rows
  BY DEF Rows

LEMMA Zero == 0 \in Int /\ 0 \in 0..(MaxAttempts - 1) /\ "pending" \in States
  BY NumbersAssumption DEF States

LEMMA RowTick ==
  ASSUME NEW r \in Rows, NEW x \in Int, NEW y \in Nat
  PROVE  [r EXCEPT !.due = x, !.age = y] \in Rows
  BY DEF Rows

LEMMA TypedInit == Init => Typed
  <1> SUFFICES ASSUME Init PROVE Typed
    OBVIOUS
  <1>1. verdict \in Verdicts
    BY UndecidedType DEF Init
  <1>2. nudge \in BOOLEAN /\ stopping \in BOOLEAN
    BY Zenon DEF Init
  <1>3. PICK s \in Starts : /\ docs = s.docs /\ doomed = s.docs
                            /\ restarts = MaxRestarts - s.restarts
                            /\ requeues = MaxRequeues - s.requeues
    BY DEF Init
  <1>4. s.docs \in SUBSET Docs /\ s.restarts \in 0..MaxRestarts /\ s.requeues \in 0..MaxRequeues
    BY StartsAssumption
  <1>5. /\ docs \subseteq Docs /\ doomed \subseteq Docs
        /\ restarts \in 0..MaxRestarts /\ requeues \in 0..MaxRequeues
    BY <1>3, <1>4, NumbersAssumption
  <1>6. QED
    BY <1>1, <1>2, <1>5, NumbersAssumption DEF Init, Typed, TypeOK, PlaceOK, Places, Working

LEMMA TypedEnqueue ==
  ASSUME Typed, NEW k \in Kinds, NEW d \in Docs \cup {NoDoc}, Enqueue(k, d)
  PROVE  Typed'
  <1>1. PICK i \in Ids : jobs' = [jobs EXCEPT ![i] =
            [serial |-> enqueues + 1, kind |-> k, doc |-> d,
             state |-> "pending", attempts |-> 0, due |-> 0, age |-> 0]]
    BY DEF Enqueue
  <1>2. [serial |-> enqueues + 1, kind |-> k, doc |-> d,
             state |-> "pending", attempts |-> 0, due |-> 0, age |-> 0] \in Rows
    BY NumbersAssumption DEF Enqueue, Typed, TypeOK, Rows, Serials, States
  <1>3. jobs' \in [Ids -> Rows \cup {NoRow}]
    BY <1>1, <1>2 DEF Typed, TypeOK
  <1>4. QED
    BY <1>3, NumbersAssumption
    DEF Enqueue, Typed, TypeOK, PlaceOK, archive, loop, signals, history

LEMMA TypedStep == Typed /\ [Next]_vars => Typed'
  <1> SUFFICES ASSUME Typed, [Next]_vars PROVE Typed'
    OBVIOUS
  <1> USE NumbersAssumption, SetsAssumption DEF archive
  <1>1. ASSUME NEW k \in Kinds, NEW d \in Docs \cup {NoDoc}, Enqueue(k, d)
        PROVE  Typed'
    BY <1>1, TypedEnqueue
  <1>2. ASSUME NEW i \in Ids, RetryDeadJob(i) PROVE Typed'
    <2>1. jobs[i] \in Rows
      BY <1>2, PresentRow DEF RetryDeadJob, Typed, InState
    <2>2. [jobs[i] EXCEPT !.state = "pending", !.attempts = 0, !.due = 0] \in Rows
      BY <2>1, RowUpdates, Zero, Zenon
    <2>3. jobs' \in [Ids -> Rows \cup {NoRow}]
      BY <1>2, <2>2 DEF RetryDeadJob, Typed, TypeOK
    <2>4. QED
      BY <1>2, <2>3 DEF RetryDeadJob, Typed, TypeOK, PlaceOK, loop, signals,
                        history
  <1>3. ASSUME NEW i \in Ids, DismissDeadJob(i) PROVE Typed'
    BY <1>3 DEF DismissDeadJob, Typed, TypeOK, PlaceOK, loop, signals, bounds,
                history, InState, Present
  <1>4. ASSUME NEW d \in Docs, Purge(d) PROVE Typed'
    BY <1>4 DEF Purge, Typed, TypeOK, PlaceOK, loop, signals, bounds, history
  <1>5. CASE Start /\ (jobs' = Reclaimed \/ jobs' = jobs)
             /\ (orphans' = {} \/ orphans' = orphans)
    <2>0. ASSUME NEW i \in InState("running")
          PROVE [jobs[i] EXCEPT !.state = "pending", !.due = 0] \in Rows
      <3>1. jobs[i] \in Rows
        BY PresentRow DEF Typed, InState
      <3>2. QED
        BY <3>1, RowUpdates, Zero, Zenon
    <2>1. jobs' \in [Ids -> Rows \cup {NoRow}]
      BY <1>5, <2>0 DEF Typed, TypeOK, Reclaimed
    <2>2. QED
      BY <1>5, <2>1 DEF Start, Typed, TypeOK, PlaceOK, signals, bounds, Places,
                        Working
  <1>6. CASE Gone /\ restarts' \in 0..MaxRestarts
             /\ UNCHANGED <<enqueues, requeues>>
    <2>1. orphans' \subseteq Serials
      BY <1>6 DEF Gone, Typed, TypeOK, SerialsOf, InState, Present, Rows
    <2>2. nudge' \in BOOLEAN /\ stopping' \in BOOLEAN
      BY <1>6, Zenon DEF Gone
    <2>3. QED
      BY <1>6, <2>1, <2>2, UndecidedType
      DEF Gone, Typed, TypeOK, PlaceOK, bounds, Places, Working
  <1>7. CASE Crash
    BY <1>7, <1>6 DEF Crash, Typed, TypeOK
  <1>8. CASE Shutdown
    BY <1>8 DEF Shutdown, Typed, TypeOK, PlaceOK, loop, history
  <1>9. CASE Exit
    BY <1>9, <1>6 DEF Exit, bounds, Typed, TypeOK
  <1>10. CASE SkipPrune
    BY <1>10 DEF SkipPrune, Typed, TypeOK, PlaceOK, signals, bounds, history,
                 Places, Working
  <1>11. CASE Prune
    <2>1. jobs' \in [Ids -> Rows \cup {NoRow}]
      BY <1>11 DEF Prune, Typed, TypeOK
    <2>2. QED
      BY <1>11, <2>1 DEF Prune, Typed, TypeOK, PlaceOK, signals, bounds,
                         history, Places, Working
  <1>12. CASE Claim
    <2>1. PICK S \in SUBSET Due :
            /\ jobs' = [i \in Ids |-> IF i \in S
                     THEN [jobs[i] EXCEPT !.state = "running"] ELSE jobs[i]]
            /\ held' = Claimed(S)
            /\ pc' = IF S = {} THEN "idle" ELSE "run"
      BY <1>12 DEF Claim
    <2>2. \A i \in S : i \in Ids /\ jobs[i] \in Rows
      BY DEF Due, InState, Present, Typed, TypeOK
    <2>3. jobs' \in [Ids -> Rows \cup {NoRow}]
      BY <2>1, <2>2 DEF Typed, TypeOK, Rows, States
    <2>4. held' \subseteq Claims
      BY <2>1, <2>2 DEF Claimed, Claims, Rows
    <2>5. S = {} => held' = {}
      BY <2>1 DEF Claimed
    <2>6. QED
      BY <1>12, <2>1, <2>3, <2>4, <2>5
      DEF Claim, Typed, TypeOK, PlaceOK, signals, bounds, history,
          Places, Working
  <1>13. CASE ClaimFails
    BY <1>13 DEF ClaimFails, Typed, TypeOK, PlaceOK, signals, bounds, history, Places,
                 Working
  <1>14. CASE Wake \/ Select
    BY <1>14 DEF Wake, Select, Typed, TypeOK, PlaceOK, signals, bounds,
                 history, Places, Working
  <1>15. CASE Nudge
    BY <1>15 DEF Nudge, Typed, TypeOK, PlaceOK, loop, bounds, history
  <1>16. ASSUME NEW c \in held, RunUnknown(c) PROVE Typed'
    <2>1. c \in Claims /\ c \in held'
      BY <1>16 DEF RunUnknown, Typed, TypeOK
    <2>2. verdict' \in Verdicts /\ verdict'.state # "running"
      BY <1>16, <2>1 DEF RunUnknown, Verdicts, Claims, States
    <2>3. QED
      BY <1>16, <2>1, <2>2 DEF RunUnknown, Typed, TypeOK, PlaceOK, signals,
                               bounds, history, Places, Working
  <1>17. ASSUME NEW c \in held, RunHandlers(c) PROVE Typed'
    BY <1>17 DEF RunHandlers, Typed, TypeOK, PlaceOK, signals, bounds, history,
                 Places, Working
  <1>18. CASE HandlersReturn
    <2>1. cur \in held /\ cur \in Claims
      BY <1>18 DEF HandlersReturn, Typed, TypeOK, PlaceOK, Working
    <2>2. PICK e \in Outcomes :
            /\ verdict' = Decide(cur.attempts, e)
            /\ succeeded' \in {succeeded, succeeded \cup {cur.serial}}
      BY <1>18 DEF HandlersReturn
    <2>3. verdict' \in Verdicts /\ verdict'.state # "running"
      BY <2>1, <2>2, DecideType DEF Claims
    <2>4. succeeded' \subseteq Serials
      BY <2>1, <2>2 DEF Claims, Typed, TypeOK
    <2>5. QED
      BY <1>18, <2>1, <2>3, <2>4 DEF HandlersReturn, Typed, TypeOK, PlaceOK,
        signals, bounds, Places, Working
  <1>19. CASE FinalizeWrite
    <2>1. cur \in Claims
      BY <1>19 DEF FinalizeWrite, Typed, TypeOK, PlaceOK, Working
    <2>2. ASSUME NEW r \in Rows PROVE Written(r) \in Rows
      BY <2>2 DEF Written, Rows, Typed, TypeOK, Verdicts
    <2>3. jobs' \in [Ids -> Rows \cup {NoRow}]
      BY <1>19, <2>1, <2>2 DEF FinalizeWrite, Typed, TypeOK, Present, Claims
    <2>4. QED
      BY <1>19, <2>3, UndecidedType
      DEF FinalizeWrite, Finished, Typed, TypeOK, PlaceOK, signals, bounds,
          history, Places, Working
  <1>20. CASE FinalizeFails
    BY <1>20 DEF FinalizeFails, Typed, TypeOK, PlaceOK, signals, bounds,
                 history, Places, Working
  <1>21. CASE FinalizeRetry
    BY <1>21 DEF FinalizeRetry, Typed, TypeOK, PlaceOK, signals, bounds,
                 history, Places, Working
  <1>22. CASE Abandon
    <2>1. orphans' \subseteq Serials
      BY <1>22 DEF Abandon, Typed, TypeOK, SerialsOf, InState, Present, Rows
    <2>2. QED
      BY <1>22, <2>1, UndecidedType
      DEF Abandon, Finished, Typed, TypeOK, PlaceOK, signals, bounds, Places,
          Working
  <1>23. CASE Tick
    <2>1. ASSUME NEW x \in Int PROVE Elapse(x) \in Int
      BY DEF Elapse
    <2>a. ASSUME NEW r \in Rows
          PROVE  [r EXCEPT !.due = IF r.state = "pending" THEN Elapse(@) ELSE @,
                           !.age = Older(r)] \in Rows
      <3>1. (IF r.state = "pending" THEN Elapse(r.due) ELSE r.due) \in Int
        BY <2>1 DEF Rows
      <3>2. Older(r) \in Nat
        BY DEF Rows, Older
      <3>3. QED
        BY <3>1, <3>2, RowTick
    <2>2. jobs' \in [Ids -> Rows \cup {NoRow}]
      BY <1>23, <2>a, PresentRow DEF Tick, Typed, TypeOK, InState
    <2>b. ASSUME NEW v \in Verdicts, NEW x \in Int
          PROVE  /\ [v EXCEPT !.due = x] \in Verdicts
                 /\ [v EXCEPT !.due = x].state = v.state
      BY DEF Verdicts
    <2>c. verdict.due \in Int
      BY DEF Typed, TypeOK, Verdicts
    <2>3. verdict' \in Verdicts /\ verdict'.state = verdict.state
      BY <1>23, <2>1, <2>b, <2>c DEF Tick, Typed, TypeOK
    <2>4. pruneIn' \in 0..PruneInterval
      <3>1. pruneIn' = IF pruneIn > 0 THEN pruneIn - 1 ELSE 0
        BY <1>23 DEF Tick
      <3>2. QED
        BY <3>1 DEF Typed, TypeOK
    <2>5. UNCHANGED <<archive, pc, held, cur, writes, signals, bounds, history>>
      BY <1>23 DEF Tick
    <2>6. TypeOK'
      BY <2>2, <2>3, <2>4, <2>5 DEF Typed, TypeOK, signals, bounds, history
    <2>7. PlaceOK'
      BY <2>3, <2>5 DEF Typed, PlaceOK
    <2>8. QED
      BY <2>6, <2>7 DEF Typed
  <1>24. CASE UNCHANGED vars
    BY <1>24 DEF vars, loop, signals, bounds, history, Typed, TypeOK, PlaceOK
  <1>25. QED
    BY <1>1, <1>2, <1>3, <1>4, <1>5, <1>7, <1>8, <1>9, <1>10, <1>11, <1>12,
       <1>13, <1>14, <1>15, <1>16, <1>17, <1>18, <1>19, <1>20, <1>21, <1>22,
       <1>23, <1>24
    DEF Next, Dispatcher, Environment, Boot, BootReclaimFails

(* Every variable keeps its type; in particular no job is ever retried     *)
(* beyond its budget (core/jobs/jobs.go, MaxAttempts).                     *)
THEOREM TypeCorrect == Spec => []TypeOK
  <1>1. Typed => TypeOK
    BY DEF Typed
  <1>2. QED
    BY <1>1, TypedInit, TypedStep, PTL DEF Spec

-----------------------------------------------------------------------------
(* Ownership of rows.  HeldIsRunning and RunningIsOwned are not inductive  *)
(* alone: a held row may only be told from a newer job with the same id    *)
(* because serials are never used twice, and a finalization may only leave *)
(* the other held rows alone because a batch has no id twice.              *)
SerialsKnown ==
  /\ \A i \in Present : jobs[i].serial <= enqueues
  /\ \A c \in held : c.serial <= enqueues

HeldOnce == \A c, d \in held : c.id = d.id => c = d

Owned == SerialsKnown /\ HeldOnce /\ HeldIsRunning /\ RunningIsOwned

(* The steps that neither make a row running nor change a running row      *)
(* other than by deleting it.                                              *)
RunningUntouched ==
  /\ held' = held
  /\ orphans' = orphans
  /\ enqueues' \in Nat /\ enqueues' >= enqueues
  /\ \A i \in Present' :
       \/ /\ i \in Present
          /\ jobs'[i].serial = jobs[i].serial
          /\ jobs[i].state = "running" \/ jobs'[i].state = "running"
               => jobs'[i] = jobs[i]
       \/ /\ jobs'[i].serial > enqueues
          /\ jobs'[i].serial <= enqueues'
          /\ jobs'[i].state # "running"

LEMMA OwnedUntouched ==
  ASSUME Typed, Owned, RunningUntouched PROVE Owned'
  <1>0. /\ enqueues \in Nat
        /\ \A i \in Present : i \in Ids /\ jobs[i].serial \in Nat
        /\ \A c \in held : c.serial \in Nat
    BY PresentRow, NumbersAssumption
    DEF Typed, TypeOK, Rows, Claims, Serials
  <1>1. SerialsKnown'
    BY <1>0 DEF Owned, SerialsKnown, RunningUntouched
  <1>2. HeldOnce'
    BY DEF Owned, HeldOnce, RunningUntouched
  <1>3. HeldIsRunning'
    BY <1>0 DEF Owned, SerialsKnown, HeldIsRunning, RunningUntouched
  <1>4. RunningIsOwned'
    BY DEF Owned, RunningIsOwned, RunningUntouched, InState
  <1>5. QED
    BY <1>1, <1>2, <1>3, <1>4 DEF Owned

(* No row changes: what a step of the loop, a signal or a counter does.    *)
LEMMA OwnedSameRows ==
  ASSUME Typed, Owned, UNCHANGED <<jobs, held, orphans, enqueues>> PROVE Owned'
  <1>1. RunningUntouched
    BY NumbersAssumption DEF RunningUntouched, Present, Typed, TypeOK
  <1>2. QED
    BY <1>1, OwnedUntouched

LEMMA OwnedStep == Typed /\ Owned /\ [Next]_vars => Owned'
  <1> SUFFICES ASSUME Typed, Owned, [Next]_vars PROVE Owned'
    OBVIOUS
  <1>0. enqueues \in Nat
    BY NumbersAssumption DEF Typed, TypeOK
  <1>1. ASSUME NEW k \in Kinds, NEW d \in Docs \cup {NoDoc}, Enqueue(k, d)
        PROVE  Owned'
    <2>1. PICK i \in Ids : NewId(i) /\ jobs' = [jobs EXCEPT ![i] =
            [serial |-> enqueues + 1, kind |-> k, doc |-> d,
             state |-> "pending", attempts |-> 0, due |-> 0, age |-> 0]]
      BY <1>1 DEF Enqueue
    <2>2. \A j \in Present' : j # i => j \in Present /\ jobs'[j] = jobs[j]
      BY <2>1 DEF Present, Typed, TypeOK
    <2>3. jobs'[i].serial = enqueues + 1 /\ jobs'[i].state = "pending"
      BY <2>1 DEF Typed, TypeOK
    <2>4. RunningUntouched
      BY <1>0, <1>1, <2>2, <2>3
      DEF RunningUntouched, Enqueue, loop, history
    <2>5. QED
      BY <2>4, OwnedUntouched
  <1>2. ASSUME NEW i \in Ids, RetryDeadJob(i) PROVE Owned'
    <2>1. \A j \in Present' : j # i => j \in Present /\ jobs'[j] = jobs[j]
      BY <1>2 DEF RetryDeadJob, Present, Typed, TypeOK
    <2>2. i \in Present /\ jobs[i] \in Rows /\ jobs[i].state = "dead"
      BY <1>2, PresentRow DEF RetryDeadJob, InState, Typed
    <2>3. jobs'[i].serial = jobs[i].serial /\ jobs'[i].state = "pending"
      <3>1. jobs'[i] = [jobs[i] EXCEPT !.state = "pending", !.attempts = 0,
                                       !.due = 0]
        BY <1>2 DEF RetryDeadJob, Typed, TypeOK
      <3>2. QED
        BY <2>2, <3>1 DEF Rows
    <2>a. held' = held /\ orphans' = orphans /\ enqueues' = enqueues
      BY <1>2 DEF RetryDeadJob, loop, history
    <2>4. RunningUntouched
      BY <1>0, <2>1, <2>2, <2>3, <2>a DEF RunningUntouched
    <2>5. QED
      BY <2>4, OwnedUntouched
  <1>3. ASSUME NEW i \in Ids, DismissDeadJob(i) PROVE Owned'
    <2>1. \A j \in Present' : j \in Present /\ jobs'[j] = jobs[j]
      BY <1>3 DEF DismissDeadJob, Present, Typed, TypeOK
    <2>2. RunningUntouched
      BY <1>0, <1>3, <2>1
      DEF RunningUntouched, DismissDeadJob, loop, history, bounds
    <2>3. QED
      BY <2>2, OwnedUntouched
  <1>4. ASSUME NEW d \in Docs, Purge(d) PROVE Owned'
    <2>1. \A j \in Present' : j \in Present /\ jobs'[j] = jobs[j]
      BY <1>4 DEF Purge, Present, Typed, TypeOK
    <2>2. RunningUntouched
      BY <1>0, <1>4, <2>1 DEF RunningUntouched, Purge, loop, history, bounds
    <2>3. QED
      BY <2>2, OwnedUntouched
  <1>5. CASE Boot
    <2>1. held = {} /\ held' = {}
      BY <1>5 DEF Boot, Start, Typed, PlaceOK, Working
    <2>2. \A i \in Present' :
            /\ i \in Present
            /\ jobs'[i].serial = jobs[i].serial
            /\ jobs'[i].state # "running"
      <3>1. SUFFICES ASSUME NEW i \in Present'
                     PROVE  /\ i \in Present
                            /\ jobs'[i].serial = jobs[i].serial
                            /\ jobs'[i].state # "running"
        OBVIOUS
      <3>2. i \in Ids /\ jobs'[i] = Reclaimed[i] /\ jobs'[i] # NoRow
        BY <1>5 DEF Boot, Present
      <3>3. i \in Present /\ jobs[i] \in Rows
        BY <3>2, PresentRow DEF Reclaimed, InState, Present, Typed
      <3>4. QED
        BY <3>2, <3>3 DEF Reclaimed, InState, Rows
    <2>3. QED
      BY <1>5, <2>1, <2>2
      DEF Boot, Start, bounds, Owned, SerialsKnown, HeldOnce, HeldIsRunning,
          RunningIsOwned, InState
  <1>6. CASE BootReclaimFails
    BY <1>6, OwnedSameRows DEF BootReclaimFails, Start, bounds
  <1>7. CASE Crash \/ Exit
    <2>1. Gone /\ enqueues' = enqueues
      BY <1>7 DEF Crash, Exit, bounds
    <2>2. QED
      BY <2>1 DEF Gone, Owned, SerialsKnown, HeldOnce, HeldIsRunning,
                  RunningIsOwned, InState, Present, SerialsOf
  <1>8. CASE Shutdown
    BY <1>8, OwnedSameRows DEF Shutdown, loop, history
  <1>9. CASE SkipPrune
    BY <1>9, OwnedSameRows DEF SkipPrune, bounds, history
  <1>10. CASE Prune
    <2>1. \A j \in Present' : j \in Present /\ jobs'[j] = jobs[j]
      BY <1>10 DEF Prune, Present, Typed, TypeOK
    <2>2. RunningUntouched
      BY <1>0, <1>10, <2>1 DEF RunningUntouched, Prune, history, bounds
    <2>3. QED
      BY <2>2, OwnedUntouched
  <1>11. CASE Claim
    <2>1. PICK S \in SUBSET Due :
            /\ jobs' = [i \in Ids |-> IF i \in S
                     THEN [jobs[i] EXCEPT !.state = "running"] ELSE jobs[i]]
            /\ held' = Claimed(S)
      BY <1>11 DEF Claim
    <2>2. /\ held = {} /\ orphans' = orphans /\ enqueues' = enqueues
      BY <1>11 DEF Claim, bounds, history, Typed, PlaceOK, Working
    <2>3. \A i \in S : i \in Present /\ i \in Ids /\ jobs[i] \in Rows
      BY PresentRow DEF Due, InState, Typed
    <2>4. \A i \in S : /\ i \in Present'
                       /\ jobs'[i].serial = jobs[i].serial
                       /\ jobs'[i].attempts = jobs[i].attempts
                       /\ jobs'[i].state = "running"
      <3>1. SUFFICES ASSUME NEW i \in S
                     PROVE  /\ i \in Present'
                            /\ jobs'[i].serial = jobs[i].serial
                            /\ jobs'[i].attempts = jobs[i].attempts
                            /\ jobs'[i].state = "running"
        OBVIOUS
      <3>2. jobs[i] \in Rows /\ jobs'[i] = [jobs[i] EXCEPT !.state = "running"]
        BY <2>1, <2>3
      <3>3. /\ jobs'[i].serial = jobs[i].serial
            /\ jobs'[i].attempts = jobs[i].attempts
            /\ jobs'[i].state = "running"
        BY <3>2 DEF Rows
      <3>4. jobs'[i] # NoRow
        <4>1. ASSUME NEW r \in Rows PROVE [r EXCEPT !.state = "running"] \in Rows
          BY DEF Rows, States
        <4>2. QED
          BY <3>2, <4>1, NoRowAssumption
      <3>5. QED
        BY <2>3, <3>3, <3>4 DEF Present
    <2>5. \A i \in Present' \ S : i \in Present /\ jobs'[i] = jobs[i]
      BY <2>1 DEF Present
    <2>6. \A c \in held' : /\ c.id \in S
                           /\ c.serial = jobs[c.id].serial
                           /\ c.attempts = jobs[c.id].attempts
                           /\ c.kind = jobs[c.id].kind
                           /\ c \in Claims
      BY <2>1, <2>3 DEF Claimed, Claims, Rows
    <2>7. \A i \in S : \E c \in held' : c.id = i /\ c.serial = jobs[i].serial
      <3>1. SUFFICES ASSUME NEW i \in S
                     PROVE \E c \in held' : c.id = i /\ c.serial = jobs[i].serial
        OBVIOUS
      <3> DEFINE w == [id |-> i, serial |-> jobs[i].serial,
                       kind |-> jobs[i].kind, attempts |-> jobs[i].attempts]
      <3>2. w \in held'
        BY <2>1 DEF Claimed
      <3>3. w.id = i /\ w.serial = jobs[i].serial
        OBVIOUS
      <3>4. QED
        BY <3>2, <3>3
    <2>8. SerialsKnown'
      <3>1. \A i \in Present' : i \in Present /\ jobs'[i].serial = jobs[i].serial
        BY <2>3, <2>4, <2>5
      <3>2. \A c \in held' : c.id \in Present /\ c.serial = jobs[c.id].serial
        BY <2>3, <2>6
      <3>3. QED
        BY <2>2, <3>1, <3>2 DEF Owned, SerialsKnown
    <2>9. HeldOnce'
      BY <2>6 DEF HeldOnce, Claims
    <2>10. HeldIsRunning'
      BY <2>4, <2>6 DEF HeldIsRunning
    <2>11. RunningIsOwned'
      BY <2>2, <2>4, <2>5, <2>7 DEF Owned, RunningIsOwned, InState
    <2>12. QED
      BY <2>8, <2>9, <2>10, <2>11 DEF Owned
  <1>12. CASE ClaimFails
    BY <1>12, OwnedSameRows DEF ClaimFails, bounds, history
  <1>13. CASE Wake \/ Select
    BY <1>13, OwnedSameRows DEF Wake, Select, bounds, history
  <1>14. CASE Nudge
    BY <1>14, OwnedSameRows DEF Nudge, loop, bounds, history
  <1>15. ASSUME NEW c \in held, RunUnknown(c) \/ RunHandlers(c) PROVE Owned'
    BY <1>15, OwnedSameRows DEF RunUnknown, RunHandlers, bounds, history
  <1>16. CASE HandlersReturn
    BY <1>16, OwnedSameRows DEF HandlersReturn, bounds
  <1>17. CASE FinalizeWrite
    <2>1. cur \in held /\ cur \in Claims /\ verdict.state # "running"
      BY <1>17 DEF FinalizeWrite, Typed, TypeOK, PlaceOK, Working
    <2>2. /\ held' = held \ {cur} /\ orphans' = orphans /\ enqueues' = enqueues
      BY <1>17 DEF FinalizeWrite, Finished, bounds, history
    <2>3. \A i \in Present' : i # cur.id => i \in Present /\ jobs'[i] = jobs[i]
      BY <1>17, <2>1 DEF FinalizeWrite, Present, Typed, TypeOK, Claims
    <2>4. cur.id \in Present' =>
            /\ cur.id \in Present
            /\ jobs'[cur.id].serial = jobs[cur.id].serial
            /\ jobs'[cur.id].state # "running"
      <3>1. SUFFICES ASSUME cur.id \in Present'
                     PROVE  /\ cur.id \in Present
                            /\ jobs'[cur.id].serial = jobs[cur.id].serial
                            /\ jobs'[cur.id].state # "running"
        OBVIOUS
      <3>2. cur.id \in Present
        BY <1>17, <3>1 DEF FinalizeWrite, Present
      <3>3. jobs[cur.id] \in Rows /\ jobs'[cur.id] = Written(jobs[cur.id])
        BY <1>17, <2>1, <3>2, PresentRow DEF FinalizeWrite, Typed, TypeOK
      <3>4. ASSUME NEW r \in Rows
            PROVE  Written(r).serial = r.serial /\ Written(r).state = verdict.state
        BY DEF Written, Rows
      <3>5. QED
        BY <2>1, <3>2, <3>3, <3>4
    <2>5. \A c \in held' : c \in held /\ c.id # cur.id
      BY <2>1, <2>2 DEF Owned, HeldOnce
    <2>6. SerialsKnown'
      BY <2>2, <2>3, <2>4, <2>5 DEF Owned, SerialsKnown
    <2>7. HeldOnce'
      BY <2>5 DEF Owned, HeldOnce
    <2>8. HeldIsRunning'
      BY <2>3, <2>5 DEF Owned, HeldIsRunning
    <2>9. RunningIsOwned'
      BY <2>2, <2>3, <2>4 DEF Owned, RunningIsOwned, InState
    <2>10. QED
      BY <2>6, <2>7, <2>8, <2>9 DEF Owned
  <1>18. CASE FinalizeFails
    BY <1>18, OwnedSameRows DEF FinalizeFails, bounds, history
  <1>19. CASE FinalizeRetry
    BY <1>19, OwnedSameRows DEF FinalizeRetry, bounds, history
  <1>20. CASE Abandon
    <2>1. /\ held' = held \ {cur} /\ jobs' = jobs /\ enqueues' = enqueues
          /\ orphans' = orphans \cup
               {s \in SerialsOf(InState("running")) : s = cur.serial}
      BY <1>20 DEF Abandon, Finished, bounds
    <2>2. SerialsKnown' /\ HeldOnce' /\ HeldIsRunning'
      BY <2>1 DEF Owned, SerialsKnown, HeldOnce, HeldIsRunning, Present
    <2>3. RunningIsOwned'
      BY <2>1 DEF Owned, RunningIsOwned, InState, Present, SerialsOf
    <2>4. QED
      BY <2>2, <2>3 DEF Owned
  <1>21. CASE Tick
    <2>1. \A i \in Present' :
            /\ i \in Present
            /\ jobs'[i].serial = jobs[i].serial
            /\ jobs'[i].state = jobs[i].state
            /\ jobs[i].state = "running" => jobs'[i] = jobs[i]
      <3>1. SUFFICES ASSUME NEW i \in Present'
                     PROVE  /\ i \in Present
                            /\ jobs'[i].serial = jobs[i].serial
                            /\ jobs'[i].state = jobs[i].state
                            /\ jobs[i].state = "running" => jobs'[i] = jobs[i]
        OBVIOUS
      <3>2. /\ i \in Ids /\ jobs'[i] # NoRow
            /\ jobs'[i] = IF i \notin InState("pending") \cup InState("done")
                THEN jobs[i]
                ELSE [jobs[i] EXCEPT
                  !.due = IF jobs[i].state = "pending" THEN Elapse(@) ELSE @,
                  !.age = Older(jobs[i])]
        BY <1>21 DEF Tick, Present
      <3>3. i \in Present /\ jobs[i] \in Rows
        BY <3>2, PresentRow DEF InState, Present, Typed
      <3>4. ASSUME NEW r \in Rows, NEW x, NEW y
            PROVE  /\ [r EXCEPT !.due = x, !.age = y].serial = r.serial
                   /\ [r EXCEPT !.due = x, !.age = y].state = r.state
        BY DEF Rows
      <3>5. QED
        BY <3>2, <3>3, <3>4 DEF InState
    <2>a. held' = held /\ orphans' = orphans /\ enqueues' = enqueues
      BY <1>21 DEF Tick, history, bounds
    <2>2. RunningUntouched
      BY <1>0, <2>1, <2>a DEF RunningUntouched
    <2>3. QED
      BY <2>2, OwnedUntouched
  <1>22. CASE UNCHANGED vars
    BY <1>22, OwnedSameRows DEF vars, loop, bounds, history
  <1>23. QED
    BY <1>1, <1>2, <1>3, <1>4, <1>5, <1>6, <1>7, <1>8, <1>9, <1>10, <1>11,
       <1>12, <1>13, <1>14, <1>15, <1>16, <1>17, <1>18, <1>19, <1>20, <1>21,
       <1>22
    DEF Next, Dispatcher, Environment

LEMMA OwnedInit == Init => Owned
  BY DEF Init, Owned, SerialsKnown, HeldOnce, HeldIsRunning, RunningIsOwned,
         InState, Present

(* A claimed row stays exclusively the dispatcher's, for every interleaving *)
(* with administrators, purges, enqueuers, retention and time (claim,      *)
(* runJob and finalize of core/jobs/jobs.go).                              *)
THEOREM ClaimsAreExclusive == Spec => []HeldIsRunning
  <1>1. Typed /\ Owned => HeldIsRunning
    BY DEF Owned
  <1>2. QED
    BY <1>1, TypedInit, TypedStep, OwnedInit, OwnedStep, PTL DEF Spec

(* Every running row has an owner or is left for the boot reclamation      *)
(* (finalize and ReclaimOrphaned of core/jobs/jobs.go).                    *)
THEOREM NoRunningRowForgotten == Spec => []RunningIsOwned
  <1>1. Typed /\ Owned => RunningIsOwned
    BY DEF Owned
  <1>2. QED
    BY <1>1, TypedInit, TypedStep, OwnedInit, OwnedStep, PTL DEF Spec

-----------------------------------------------------------------------------
(* Done means handled, as long as no document is purged.  The argument     *)
(* needs that a held row is still the row that was claimed, which purging  *)
(* breaks, and that a verdict "done" comes from a run that succeeded.      *)
HeldIsPresent ==
  \A c \in held : c.id \in Present /\ jobs[c.id].serial = c.serial

VerdictEarned ==
  pc \in {"finalize", "backoff"} /\ verdict.state = "done" =>
    cur.serial \in succeeded

Handled == DoneOnlyIfHandled /\ HeldIsPresent /\ VerdictEarned

(* The steps that leave the running rows alone and settle nothing.         *)
NothingSettled ==
  /\ held' = held
  /\ succeeded' = succeeded
  /\ \A i \in InState("running") : jobs'[i] = jobs[i]
  /\ \A i \in Present' : jobs'[i].state = "done" =>
       i \in Present /\ jobs[i].state = "done" /\ jobs[i].serial = jobs'[i].serial
  /\ \/ UNCHANGED <<pc, cur, verdict>>
     \/ pc' \notin {"finalize", "backoff"}
     \/ verdict'.state # "done"
     \/ pc \in {"finalize", "backoff"} /\ UNCHANGED <<cur, verdict>>
     \/ UNCHANGED <<pc, cur>> /\ verdict'.state = verdict.state

LEMMA HandledFrame ==
  ASSUME doomed = {}, Typed, Owned, Handled, NothingSettled PROVE Handled'
  <1>1. DoneOnlyIfHandled'
    BY DEF Handled, DoneOnlyIfHandled, NothingSettled, InState
  <1>2. HeldIsPresent'
    <2>1. SUFFICES ASSUME NEW c \in held'
                   PROVE c.id \in Present' /\ jobs'[c.id].serial = c.serial
      BY DEF HeldIsPresent
    <2>2. c \in held /\ c.id \in Present /\ jobs[c.id].serial = c.serial
      BY <2>1 DEF NothingSettled, Handled, HeldIsPresent
    <2>3. c.id \in InState("running")
      BY <2>2 DEF Owned, HeldIsRunning, InState
    <2>4. QED
      BY <2>2, <2>3 DEF NothingSettled, Present
  <1>3. VerdictEarned'
    BY DEF Handled, VerdictEarned, NothingSettled
  <1>4. QED
    BY <1>1, <1>2, <1>3 DEF Handled

(* The same for a step that changes no row.                                *)
LEMMA HandledSameRows ==
  ASSUME doomed = {}, Typed, Owned, Handled, UNCHANGED <<jobs, held, succeeded>>,
         \/ UNCHANGED <<pc, cur, verdict>>
         \/ pc' \notin {"finalize", "backoff"}
         \/ verdict'.state # "done"
         \/ pc \in {"finalize", "backoff"} /\ UNCHANGED <<cur, verdict>>
  PROVE  Handled'
  <1>1. NothingSettled
    BY DEF NothingSettled, Present
  <1>2. QED
    BY <1>1, HandledFrame

LEMMA HandledStep ==
  ASSUME doomed = {}, Typed, Owned, Handled, [Next]_vars PROVE Handled'
  <1>1. ASSUME NEW k \in Kinds, NEW d \in Docs \cup {NoDoc}, Enqueue(k, d)
        PROVE  Handled'
    <2>1. PICK i \in Ids : NewId(i) /\ jobs' = [jobs EXCEPT ![i] =
            [serial |-> enqueues + 1, kind |-> k, doc |-> d,
             state |-> "pending", attempts |-> 0, due |-> 0, age |-> 0]]
      BY <1>1 DEF Enqueue
    <2>2. i \notin Present
      BY <2>1 DEF NewId, Ids, Present
    <2>3. jobs'[i].state = "pending"
      BY <2>1 DEF Typed, TypeOK
    <2>4. \A j \in Ids : j # i => jobs'[j] = jobs[j]
      BY <2>1 DEF Typed, TypeOK
    <2>5. NothingSettled
      BY <1>1, <2>2, <2>3, <2>4
      DEF NothingSettled, Enqueue, loop, history, InState, Present
    <2>6. QED
      BY <2>5, HandledFrame
  <1>2. ASSUME NEW i \in Ids, RetryDeadJob(i) PROVE Handled'
    <2>1. i \in Present /\ jobs[i] \in Rows /\ jobs[i].state = "dead"
      BY <1>2, PresentRow DEF RetryDeadJob, InState, Typed
    <2>2. jobs'[i].state = "pending"
      <3>1. jobs'[i] = [jobs[i] EXCEPT !.state = "pending", !.attempts = 0,
                                       !.due = 0]
        BY <1>2 DEF RetryDeadJob, Typed, TypeOK
      <3>2. QED
        BY <2>1, <3>1 DEF Rows
    <2>3. \A j \in Ids : j # i => jobs'[j] = jobs[j]
      BY <1>2 DEF RetryDeadJob, Typed, TypeOK
    <2>4. UNCHANGED <<held, succeeded, pc, cur, verdict>>
      BY <1>2 DEF RetryDeadJob, loop, history
    <2>5. NothingSettled
      BY <2>1, <2>2, <2>3, <2>4 DEF NothingSettled, InState, Present
    <2>6. QED
      BY <2>5, HandledFrame
  <1>3. ASSUME NEW i \in Ids, DismissDeadJob(i) PROVE Handled'
    <2>1. /\ jobs[i].state = "dead" /\ jobs'[i] = NoRow
          /\ \A j \in Ids : j # i => jobs'[j] = jobs[j]
      BY <1>3 DEF DismissDeadJob, InState, Typed, TypeOK
    <2>2. UNCHANGED <<held, succeeded, pc, cur, verdict>>
      BY <1>3 DEF DismissDeadJob, loop, history
    <2>3. NothingSettled
      BY <2>1, <2>2 DEF NothingSettled, InState, Present
    <2>4. QED
      BY <2>3, HandledFrame
  <1>4. ASSUME NEW d \in Docs, Purge(d) PROVE Handled'
    BY <1>4 DEF Purge
  <1>5. CASE Boot
    <2>1. held' = {} /\ succeeded' = succeeded /\ pc' = "loop"
      BY <1>5 DEF Boot, Start, Typed, PlaceOK, Working
    <2>2. \A i \in Present' : jobs'[i].state = "done" =>
            i \in Present /\ jobs'[i] = jobs[i]
      <3>1. SUFFICES ASSUME NEW i \in Present', jobs'[i].state = "done"
                     PROVE i \in Present /\ jobs'[i] = jobs[i]
        OBVIOUS
      <3>2. i \in Ids /\ jobs'[i] = Reclaimed[i] /\ jobs'[i] # NoRow
        BY <1>5 DEF Boot, Present
      <3>3. i \in Present /\ jobs[i] \in Rows
        BY <3>2, PresentRow DEF Reclaimed, InState, Present, Typed
      <3>4. QED
        BY <3>1, <3>2, <3>3 DEF Reclaimed, InState, Rows
    <2>3. QED
      BY <2>1, <2>2 DEF Handled, DoneOnlyIfHandled, HeldIsPresent,
                        VerdictEarned, InState
  <1>6. CASE BootReclaimFails
    BY <1>6, HandledSameRows DEF BootReclaimFails, Start
  <1>7. CASE Crash \/ Exit
    <2>1. Gone
      BY <1>7 DEF Crash, Exit
    <2>2. QED
      BY <2>1 DEF Gone, Handled, DoneOnlyIfHandled, HeldIsPresent,
                  VerdictEarned, InState, Present
  <1>8. CASE Shutdown
    BY <1>8, HandledSameRows DEF Shutdown, loop, history
  <1>9. CASE SkipPrune
    BY <1>9, HandledSameRows DEF SkipPrune, history
  <1>10. CASE Prune
    <2>1. \A j \in Ids : jobs'[j] = IF j \in InState("done") THEN jobs'[j]
                                    ELSE jobs[j]
      BY <1>10 DEF Prune, Expired, Typed, TypeOK
    <2>2. \A j \in Ids : jobs'[j] = NoRow \/ jobs'[j] = jobs[j]
      BY <1>10 DEF Prune, Typed, TypeOK
    <2>3. UNCHANGED <<held, succeeded>> /\ pc' = "claim"
      BY <1>10 DEF Prune, history
    <2>4. NothingSettled
      BY <2>1, <2>2, <2>3 DEF NothingSettled, InState, Present
    <2>5. QED
      BY <2>4, HandledFrame
  <1>11. CASE Claim
    <2>1. PICK S \in SUBSET Due :
            /\ jobs' = [i \in Ids |-> IF i \in S
                     THEN [jobs[i] EXCEPT !.state = "running"] ELSE jobs[i]]
            /\ held' = Claimed(S)
            /\ pc' = IF S = {} THEN "idle" ELSE "run"
      BY <1>11 DEF Claim
    <2>2. succeeded' = succeeded
      BY <1>11 DEF Claim, history
    <2>3. \A i \in S : i \in Ids /\ jobs[i] \in Rows
      BY PresentRow DEF Due, InState, Typed
    <2>4. ASSUME NEW r \in Rows
          PROVE  /\ [r EXCEPT !.state = "running"].serial = r.serial
                 /\ [r EXCEPT !.state = "running"].state = "running"
                 /\ [r EXCEPT !.state = "running"] \in Rows
      BY DEF Rows, States
    <2>5. \A i \in S : /\ jobs'[i].serial = jobs[i].serial
                       /\ jobs'[i].state = "running"
                       /\ jobs'[i] \in Rows
      BY <2>1, <2>3, <2>4
    <2>6. \A i \in Ids \ S : jobs'[i] = jobs[i]
      BY <2>1
    <2>7. DoneOnlyIfHandled'
      BY <2>2, <2>5, <2>6 DEF Handled, DoneOnlyIfHandled, InState, Present
    <2>8. \A c \in held' : c.id \in S /\ c.serial = jobs[c.id].serial
      BY <2>1 DEF Claimed
    <2>9. HeldIsPresent'
      BY <2>3, <2>5, <2>8, NoRowAssumption DEF HeldIsPresent, Present
    <2>10. QED
      BY <2>1, <2>7, <2>9 DEF Handled, VerdictEarned
  <1>12. CASE ClaimFails
    BY <1>12, HandledSameRows DEF ClaimFails, history
  <1>13. CASE Wake \/ Select
    BY <1>13, HandledSameRows DEF Wake, Select, history
  <1>14. CASE Nudge
    BY <1>14, HandledSameRows DEF Nudge, loop, history
  <1>15. ASSUME NEW c \in held, RunUnknown(c) \/ RunHandlers(c) PROVE Handled'
    BY <1>15, HandledSameRows DEF RunUnknown, RunHandlers, history
  <1>16. CASE HandlersReturn
    <2>1. UNCHANGED <<jobs, held, cur>>
      BY <1>16 DEF HandlersReturn
    <2>2. PICK results \in [1..Subscribers[cur.kind] -> Outcomes],
               e \in Outcomes :
            /\ LastErr(results, e)
            /\ verdict' = Decide(cur.attempts, e)
            /\ succeeded' = IF \A n \in DOMAIN results : results[n] = "ok"
                            THEN succeeded \cup {cur.serial} ELSE succeeded
      BY <1>16 DEF HandlersReturn
    <2>3. verdict'.state = "done" => e = "ok"
      BY <2>2 DEF Decide
    <2>4. e = "ok" => cur.serial \in succeeded'
      BY <2>2 DEF LastErr
    <2>5. succeeded \subseteq succeeded'
      BY <2>2
    <2>6. QED
      BY <2>1, <2>3, <2>4, <2>5
      DEF Handled, DoneOnlyIfHandled, HeldIsPresent, VerdictEarned, InState,
          Present
  <1>17. CASE FinalizeWrite
    <2>1. cur \in held /\ cur \in Claims
      BY <1>17 DEF FinalizeWrite, Typed, TypeOK, PlaceOK, Working
    <2>2. /\ held' = held \ {cur} /\ succeeded' = succeeded
          /\ pc' \in {"loop", "run"}
      BY <1>17 DEF FinalizeWrite, Finished, history
    <2>3. cur.id \in Present /\ jobs[cur.id].serial = cur.serial
      BY <2>1 DEF Handled, HeldIsPresent
    <2>4. /\ \A i \in Ids : i # cur.id => jobs'[i] = jobs[i]
          /\ jobs'[cur.id] = Written(jobs[cur.id])
          /\ jobs[cur.id] \in Rows
      BY <1>17, <2>3, PresentRow DEF FinalizeWrite, Typed, TypeOK
    <2>5. /\ jobs'[cur.id].serial = cur.serial
          /\ jobs'[cur.id].state = verdict.state
      <3>1. ASSUME NEW r \in Rows
            PROVE  Written(r).serial = r.serial /\ Written(r).state = verdict.state
        BY DEF Written, Rows
      <3>2. QED
        BY <2>3, <2>4, <3>1
    <2>6. verdict.state = "done" => cur.serial \in succeeded
      BY <1>17 DEF FinalizeWrite, Handled, VerdictEarned
    <2>7. DoneOnlyIfHandled'
      BY <2>2, <2>4, <2>5, <2>6 DEF Handled, DoneOnlyIfHandled, InState, Present
    <2>8. \A c \in held' : c \in held /\ c.id # cur.id
      BY <2>1, <2>2 DEF Owned, HeldOnce
    <2>9. HeldIsPresent'
      BY <2>4, <2>8 DEF Handled, HeldIsPresent, Present
    <2>10. QED
      BY <2>2, <2>7, <2>9 DEF Handled, VerdictEarned
  <1>18. CASE FinalizeFails
    BY <1>18, HandledSameRows DEF FinalizeFails, history
  <1>19. CASE FinalizeRetry
    BY <1>19, HandledSameRows DEF FinalizeRetry, history
  <1>20. CASE Abandon
    <2>1. /\ held' = held \ {cur} /\ jobs' = jobs /\ succeeded' = succeeded
          /\ pc' \in {"loop", "run"}
      BY <1>20 DEF Abandon, Finished
    <2>2. QED
      BY <2>1 DEF Handled, DoneOnlyIfHandled, HeldIsPresent, VerdictEarned,
                  InState, Present
  <1>21. CASE Tick
    <2>1. \A i \in Present' :
            /\ i \in Present
            /\ jobs'[i].serial = jobs[i].serial
            /\ jobs'[i].state = jobs[i].state
      <3>1. SUFFICES ASSUME NEW i \in Present'
                     PROVE  /\ i \in Present
                            /\ jobs'[i].serial = jobs[i].serial
                            /\ jobs'[i].state = jobs[i].state
        OBVIOUS
      <3>2. /\ i \in Ids /\ jobs'[i] # NoRow
            /\ jobs'[i] = IF i \notin InState("pending") \cup InState("done")
                THEN jobs[i]
                ELSE [jobs[i] EXCEPT
                  !.due = IF jobs[i].state = "pending" THEN Elapse(@) ELSE @,
                  !.age = Older(jobs[i])]
        BY <1>21 DEF Tick, Present
      <3>3. i \in Present /\ jobs[i] \in Rows
        BY <3>2, PresentRow DEF InState, Present, Typed
      <3>4. ASSUME NEW r \in Rows, NEW x, NEW y
            PROVE  /\ [r EXCEPT !.due = x, !.age = y].serial = r.serial
                   /\ [r EXCEPT !.due = x, !.age = y].state = r.state
        BY DEF Rows
      <3>5. QED
        BY <3>2, <3>3, <3>4
    <2>2. \A i \in InState("running") : jobs'[i] = jobs[i]
      BY <1>21 DEF Tick, InState, Present
    <2>3. UNCHANGED <<held, succeeded, pc, cur>>
      BY <1>21 DEF Tick, history
    <2>4. verdict'.state = verdict.state
      <3>1. ASSUME NEW v \in Verdicts, NEW x
            PROVE [v EXCEPT !.due = x].state = v.state
        BY DEF Verdicts
      <3>2. verdict' = IF verdict.state = "pending"
                       THEN [verdict EXCEPT !.due = Elapse(@)] ELSE verdict
        BY <1>21 DEF Tick
      <3>3. QED
        BY <3>1, <3>2 DEF Typed, TypeOK
    <2>5. NothingSettled
      BY <2>1, <2>2, <2>3, <2>4 DEF NothingSettled
    <2>6. QED
      BY <2>5, HandledFrame
  <1>22. CASE UNCHANGED vars
    BY <1>22, HandledSameRows DEF vars, loop, history
  <1>23. QED
    BY <1>1, <1>2, <1>3, <1>4, <1>5, <1>6, <1>7, <1>8, <1>9, <1>10, <1>11,
       <1>12, <1>13, <1>14, <1>15, <1>16, <1>17, <1>18, <1>19, <1>20, <1>21,
       <1>22
    DEF Next, Dispatcher, Environment

(* Which documents may be purged is settled at the start.                  *)
LEMMA DoomedStays == [Next]_vars => doomed' = doomed
  <1> SUFFICES ASSUME [Next]_vars PROVE doomed' = doomed
    OBVIOUS
  <1>1. CASE Dispatcher
    BY <1>1 DEF Dispatcher, Exit, SkipPrune, Prune, Claim, ClaimFails, Select, Wake, RunUnknown,
       RunHandlers, HandlersReturn, FinalizeWrite, FinalizeFails, FinalizeRetry, Abandon, Gone, archive
  <1>2. CASE Environment
    BY <1>2 DEF Environment, Enqueue, RetryDeadJob, DismissDeadJob, Purge, Boot, BootReclaimFails,
       Crash, Shutdown, Nudge, Start, Gone, archive
  <1>3. CASE Tick
    BY <1>3 DEF Tick, archive
  <1>4. CASE UNCHANGED vars
    BY <1>4 DEF vars, archive
  <1>5. QED
    BY <1>1, <1>2, <1>3, <1>4 DEF Next

HandledUnlessPurged == doomed = {} => Handled

(* Where nobody purges documents, a job is marked done only after one run  *)
(* of all its subscribers returned nil (runJob and markDone of             *)
(* core/jobs/jobs.go).  A purge during a run would free the id of the row  *)
(* for the next job, which the late markDone then settles.                 *)
THEOREM DoneMeansHandled == Spec => []DoneOnlyIfHandled
  <1>1. Init => HandledUnlessPurged
    BY DEF Init, HandledUnlessPurged, Handled, DoneOnlyIfHandled, HeldIsPresent, VerdictEarned,
           InState, Present
  <1>2. Typed /\ Owned /\ HandledUnlessPurged /\ [Next]_vars => HandledUnlessPurged'
    <2> SUFFICES ASSUME Typed, Owned, HandledUnlessPurged, [Next]_vars, doomed' = {}
                 PROVE  Handled'
      BY DEF HandledUnlessPurged
    <2>1. doomed = {}
      BY DoomedStays
    <2>2. QED
      BY <2>1, HandledStep DEF HandledUnlessPurged
  <1>3. HandledUnlessPurged => DoneOnlyIfHandled
    BY DEF HandledUnlessPurged, Handled, DoneOnlyIfHandled
  <1>4. QED
    BY <1>1, <1>2, <1>3, TypedInit, TypedStep, OwnedInit, OwnedStep, PTL
    DEF Spec


-----------------------------------------------------------------------------
(* The table implements JobOutbox.  Beyond ownership and earned verdicts   *)
(* the map needs that no two rows have one serial, so that a job has one   *)
(* status.                                                                 *)
SerialOnce ==
  \A i, j \in Present : jobs[i].serial = jobs[j].serial => i = j

(* What every step but HandlersReturn does to the table when no document   *)
(* is purged: rows keep their serial and change state as the outbox        *)
(* allows, only settled rows go, and a new row is the next enqueue.        *)
RowMoves ==
  {<<"pending", "running">>, <<"running", "pending">>, <<"running", "dead">>,
   <<"dead", "pending">>}

Follows(i) ==
  \/ /\ i \in Present' /\ jobs'[i].serial = jobs[i].serial
     /\ \/ jobs'[i].state = jobs[i].state
        \/ <<jobs[i].state, jobs'[i].state>> \in RowMoves
        \/ /\ jobs[i].state = "running" /\ jobs'[i].state = "done"
           /\ jobs[i].serial \in succeeded
  \/ i \notin Present' /\ jobs[i].state \in {"done", "dead"}

NewRow(i) ==
  /\ jobs'[i].serial = enqueues + 1 /\ enqueues' = enqueues + 1
  /\ jobs'[i].state = "pending"

TableMoves ==
  /\ succeeded' = succeeded
  /\ \A i \in Present : Follows(i)
  /\ \A i \in Present' : i \in Present \/ NewRow(i)
  /\ \A i, j \in Present' \ Present : i = j
  /\ enqueues' = enqueues \/ (enqueues' = enqueues + 1 /\ Present' \ Present # {})

(* A step that changes no row.                                             *)
LEMMA SameTable ==
  ASSUME UNCHANGED <<jobs, succeeded, enqueues>> PROVE TableMoves
  BY DEF TableMoves, Follows, Present

LEMMA TableStep ==
  ASSUME doomed = {}, Typed, Owned, Handled, [Next]_vars, ~HandlersReturn
  PROVE  TableMoves
  <1>1. ASSUME NEW k \in Kinds, NEW d \in Docs \cup {NoDoc}, Enqueue(k, d)
        PROVE  TableMoves
    <2>1. PICK i \in Ids : NewId(i) /\ jobs' = [jobs EXCEPT ![i] =
            [serial |-> enqueues + 1, kind |-> k, doc |-> d,
             state |-> "pending", attempts |-> 0, due |-> 0, age |-> 0]]
      BY <1>1 DEF Enqueue
    <2>2. i \notin Present
      BY <2>1 DEF NewId, Ids, Present
    <2>3. /\ jobs'[i] = [serial |-> enqueues + 1, kind |-> k, doc |-> d,
             state |-> "pending", attempts |-> 0, due |-> 0, age |-> 0]
          /\ \A j \in Ids : j # i => jobs'[j] = jobs[j]
      BY <2>1 DEF Typed, TypeOK
    <2>4. enqueues' = enqueues + 1 /\ succeeded' = succeeded
      BY <1>1 DEF Enqueue, history
    <2>5. jobs'[i] \in Rows
      BY <1>1, <2>3, NumbersAssumption DEF Enqueue, Typed, TypeOK, Rows, Serials, States
    <2>6. i \in Present' /\ NewRow(i)
      BY <2>3, <2>4, <2>5, NoRowAssumption DEF Present, NewRow
    <2>7. \A j \in Present : j \in Present' /\ jobs'[j] = jobs[j]
      BY <2>2, <2>3 DEF Present
    <2>8. \A j \in Present' : j \in Present \/ j = i
      BY <2>3 DEF Present
    <2>9. QED
      BY <2>2, <2>4, <2>6, <2>7, <2>8 DEF TableMoves, Follows
  <1>2. ASSUME NEW i \in Ids, RetryDeadJob(i) PROVE TableMoves
    <2>1. i \in Present /\ jobs[i] \in Rows /\ jobs[i].state = "dead"
      BY <1>2, PresentRow DEF RetryDeadJob, InState, Typed
    <2>2. /\ jobs'[i] = [jobs[i] EXCEPT !.state = "pending", !.attempts = 0, !.due = 0]
          /\ \A j \in Ids : j # i => jobs'[j] = jobs[j]
      BY <1>2 DEF RetryDeadJob, Typed, TypeOK
    <2>3. /\ jobs'[i].state = "pending" /\ jobs'[i].serial = jobs[i].serial
          /\ jobs'[i] \in Rows
      <3>1. [jobs[i] EXCEPT !.state = "pending", !.attempts = 0, !.due = 0] \in Rows
        BY <2>1, RowUpdates, Zero, Zenon
      <3>2. QED
        BY <2>1, <2>2, <3>1 DEF Rows
    <2>4. UNCHANGED <<enqueues, succeeded>>
      BY <1>2 DEF RetryDeadJob, history
    <2>5. \A j \in Present' : j \in Present
      BY <2>1, <2>2 DEF Present
    <2>6. \A j \in Present : Follows(j)
      BY <2>1, <2>2, <2>3, NoRowAssumption DEF Follows, RowMoves, Present
    <2>7. QED
      BY <2>4, <2>5, <2>6 DEF TableMoves
  <1>3. ASSUME NEW i \in Ids, DismissDeadJob(i) PROVE TableMoves
    <2>1. /\ jobs[i].state = "dead" /\ jobs'[i] = NoRow
          /\ \A j \in Ids : j # i => jobs'[j] = jobs[j]
      BY <1>3 DEF DismissDeadJob, InState, Typed, TypeOK
    <2>2. UNCHANGED <<enqueues, succeeded>>
      BY <1>3 DEF DismissDeadJob, bounds, history
    <2>3. QED
      BY <2>1, <2>2 DEF TableMoves, Follows, Present
  <1>4. ASSUME NEW d \in Docs, Purge(d) PROVE TableMoves
    BY <1>4 DEF Purge
  <1>5. CASE Boot
    <2>1. \A i \in Present : /\ i \in Present' /\ jobs'[i].serial = jobs[i].serial
                             /\ \/ jobs'[i].state = jobs[i].state
                                \/ jobs[i].state = "running" /\ jobs'[i].state = "pending"
      <3>1. SUFFICES ASSUME NEW i \in Present
                     PROVE  /\ i \in Present' /\ jobs'[i].serial = jobs[i].serial
                            /\ \/ jobs'[i].state = jobs[i].state
                               \/ jobs[i].state = "running" /\ jobs'[i].state = "pending"
        OBVIOUS
      <3>2. i \in Ids /\ jobs[i] \in Rows /\ jobs'[i] = Reclaimed[i]
        BY <1>5, PresentRow DEF Boot, Typed
      <3>a. ASSUME NEW r \in Rows, NEW x \in Int
            PROVE  /\ [r EXCEPT !.state = "pending", !.due = x] \in Rows
                   /\ [r EXCEPT !.state = "pending", !.due = x].serial = r.serial
                   /\ [r EXCEPT !.state = "pending", !.due = x].state = "pending"
        BY DEF Rows, States
      <3>3. ASSUME NEW r \in Rows
            PROVE  /\ [r EXCEPT !.state = "pending", !.due = 0] \in Rows
                   /\ [r EXCEPT !.state = "pending", !.due = 0].serial = r.serial
                   /\ [r EXCEPT !.state = "pending", !.due = 0].state = "pending"
        BY <3>a, Zero, Zenon
      <3>4. jobs'[i] \in Rows
        BY <3>2, <3>3 DEF Reclaimed
      <3>5. QED
        BY <3>2, <3>3, <3>4, NoRowAssumption DEF Reclaimed, InState, Present
    <2>2. \A i \in Present' : i \in Present
      BY <1>5 DEF Boot, Reclaimed, Present, InState
    <2>3. UNCHANGED <<enqueues, succeeded>>
      BY <1>5 DEF Boot, Start, bounds
    <2>4. QED
      BY <2>1, <2>2, <2>3 DEF TableMoves, Follows, RowMoves
  <1>6. CASE BootReclaimFails
    BY <1>6, SameTable DEF BootReclaimFails, Start, bounds
  <1>7. CASE Crash \/ Exit
    BY <1>7, SameTable DEF Crash, Exit, Gone, bounds
  <1>8. CASE Shutdown
    BY <1>8, SameTable DEF Shutdown, history
  <1>9. CASE SkipPrune
    BY <1>9, SameTable DEF SkipPrune, bounds, history
  <1>10. CASE Prune
    <2>1. \A j \in Ids : jobs'[j] = jobs[j] \/ (jobs'[j] = NoRow /\ j \in InState("done"))
      BY <1>10 DEF Prune, Expired, Typed, TypeOK
    <2>2. UNCHANGED <<enqueues, succeeded>>
      BY <1>10 DEF Prune, bounds, history
    <2>3. QED
      BY <2>1, <2>2 DEF TableMoves, Follows, Present, InState
  <1>11. CASE Claim
    <2>1. PICK S \in SUBSET Due :
            jobs' = [i \in Ids |-> IF i \in S
                     THEN [jobs[i] EXCEPT !.state = "running"] ELSE jobs[i]]
      BY <1>11 DEF Claim
    <2>2. \A i \in S : i \in Ids /\ jobs[i] \in Rows /\ jobs[i].state = "pending" /\ i \in Present
      BY PresentRow DEF Due, InState, Typed
    <2>3. ASSUME NEW r \in Rows
          PROVE  /\ [r EXCEPT !.state = "running"].serial = r.serial
                 /\ [r EXCEPT !.state = "running"].state = "running"
                 /\ [r EXCEPT !.state = "running"] \in Rows
      BY DEF Rows, States
    <2>4. \A i \in S : /\ jobs'[i].serial = jobs[i].serial
                       /\ jobs'[i].state = "running" /\ jobs'[i] \in Rows
      BY <2>1, <2>2, <2>3
    <2>5. \A i \in Ids \ S : jobs'[i] = jobs[i]
      BY <2>1
    <2>6. UNCHANGED <<enqueues, succeeded>>
      BY <1>11 DEF Claim, bounds, history
    <2>7. \A i \in Present : Follows(i)
      BY <2>2, <2>4, <2>5, NoRowAssumption DEF Follows, RowMoves, Present
    <2>8. \A i \in Present' : i \in Present
      BY <2>2, <2>5 DEF Present
    <2>9. QED
      BY <2>6, <2>7, <2>8 DEF TableMoves
  <1>12. CASE ClaimFails
    BY <1>12, SameTable DEF ClaimFails, bounds, history
  <1>13. CASE Wake \/ Select
    BY <1>13, SameTable DEF Wake, Select, bounds, history
  <1>14. CASE Nudge
    BY <1>14, SameTable DEF Nudge, bounds, history
  <1>15. ASSUME NEW c \in held, RunUnknown(c) \/ RunHandlers(c) PROVE TableMoves
    BY <1>15, SameTable DEF RunUnknown, RunHandlers, bounds, history
  <1>16. CASE FinalizeWrite
    <2>1. /\ cur \in held /\ verdict.state \in {"pending", "dead", "done"}
      BY <1>16 DEF FinalizeWrite, Typed, TypeOK, PlaceOK, Working, Verdicts, States
    <2>2. cur.id \in Present /\ jobs[cur.id].serial = cur.serial
      BY <2>1 DEF Handled, HeldIsPresent
    <2>3. jobs[cur.id].state = "running"
      BY <2>1, <2>2 DEF Owned, HeldIsRunning
    <2>4. verdict.state = "done" => cur.serial \in succeeded
      BY <1>16 DEF FinalizeWrite, Handled, VerdictEarned
    <2>5. /\ \A i \in Ids : i # cur.id => jobs'[i] = jobs[i]
          /\ jobs'[cur.id] = Written(jobs[cur.id])
          /\ jobs[cur.id] \in Rows
      BY <1>16, <2>2, PresentRow DEF FinalizeWrite, Typed, TypeOK
    <2>6. ASSUME NEW r \in Rows
          PROVE  /\ Written(r).serial = r.serial /\ Written(r).state = verdict.state
                 /\ Written(r) \in Rows
      BY <2>6 DEF Written, Rows, Typed, TypeOK, Verdicts
    <2>7. Follows(cur.id)
      BY <2>1, <2>2, <2>3, <2>4, <2>5, <2>6, NoRowAssumption DEF Follows, RowMoves, Present
    <2>8. \A i \in Present : i # cur.id => Follows(i)
      BY <2>5 DEF Follows, Present
    <2>9. \A i \in Present' : i \in Present
      BY <2>2, <2>5 DEF Present
    <2>10. UNCHANGED <<enqueues, succeeded>>
      BY <1>16 DEF FinalizeWrite, bounds, history
    <2>11. QED
      BY <2>7, <2>8, <2>9, <2>10 DEF TableMoves
  <1>17. CASE FinalizeFails
    BY <1>17, SameTable DEF FinalizeFails, bounds, history
  <1>18. CASE FinalizeRetry
    BY <1>18, SameTable DEF FinalizeRetry, bounds, history
  <1>19. CASE Abandon
    BY <1>19, SameTable DEF Abandon, bounds
  <1>20. CASE Tick
    <2>1. \A i \in Ids : \/ jobs'[i] = jobs[i]
                         \/ /\ i \in Present /\ i \in Present'
                            /\ jobs'[i].serial = jobs[i].serial
                            /\ jobs'[i].state = jobs[i].state
      <3>1. SUFFICES ASSUME NEW i \in Ids, jobs'[i] # jobs[i]
                     PROVE  /\ i \in Present /\ i \in Present'
                            /\ jobs'[i].serial = jobs[i].serial
                            /\ jobs'[i].state = jobs[i].state
        OBVIOUS
      <3>2. /\ i \in InState("pending") \cup InState("done")
            /\ jobs'[i] = [jobs[i] EXCEPT
                  !.due = IF jobs[i].state = "pending" THEN Elapse(@) ELSE @,
                  !.age = Older(jobs[i])]
        BY <1>20, <3>1 DEF Tick
      <3>3. i \in Present /\ jobs[i] \in Rows
        BY <3>2, PresentRow DEF InState, Typed
      <3>4. /\ (IF jobs[i].state = "pending" THEN Elapse(jobs[i].due) ELSE jobs[i].due) \in Int
            /\ Older(jobs[i]) \in Nat
        BY <3>3 DEF Rows, Elapse, Older
      <3>5. QED
        <4> DEFINE x == IF jobs[i].state = "pending" THEN Elapse(jobs[i].due) ELSE jobs[i].due
                   y == Older(jobs[i])
        <4>1. jobs'[i] = [jobs[i] EXCEPT !.due = x, !.age = y]
          BY <3>2
        <4> HIDE DEF x, y
        <4>2. x \in Int /\ y \in Nat
          BY <3>4 DEF x, y
        <4>3. /\ jobs'[i].serial = jobs[i].serial /\ jobs'[i].state = jobs[i].state
              /\ jobs'[i] \in Rows
          BY <3>3, <4>1, <4>2 DEF Rows
        <4>4. QED
          BY <3>3, <4>3, NoRowAssumption DEF Present
    <2>2. UNCHANGED <<enqueues, succeeded>>
      BY <1>20 DEF Tick, bounds, history
    <2>3. QED
      BY <2>1, <2>2 DEF TableMoves, Follows, Present
  <1>21. CASE UNCHANGED vars
    BY <1>21, SameTable DEF vars, bounds, history
  <1>22. QED
    BY <1>1, <1>2, <1>3, <1>4, <1>5, <1>6, <1>7, <1>8, <1>9, <1>10, <1>11, <1>12,
       <1>13, <1>14, <1>15, <1>16, <1>17, <1>18, <1>19, <1>20, <1>21
    DEF Next, Dispatcher, Environment

LEMMA SerialOnceFrame ==
  ASSUME Typed, Owned, SerialOnce, TableMoves PROVE SerialOnce'
  <1>0. enqueues \in Nat /\ \A i \in Present : jobs[i].serial \in Nat
    BY PresentRow, NumbersAssumption DEF Typed, TypeOK, Rows, Serials
  <1>1. \A i \in Present : i \in Present' => jobs'[i].serial = jobs[i].serial
    BY DEF TableMoves, Follows
  <1>2. \A i \in Present' : i \in Present \/ jobs'[i].serial = enqueues + 1
    BY DEF TableMoves, NewRow
  <1>3. \A i \in Present : jobs[i].serial # enqueues + 1
    BY <1>0 DEF Owned, SerialsKnown
  <1>4. SUFFICES ASSUME NEW i \in Present', NEW j \in Present', jobs'[i].serial = jobs'[j].serial
                 PROVE  i = j
    BY DEF SerialOnce
  <1>5. CASE i \in Present /\ j \in Present
    BY <1>1, <1>4, <1>5 DEF SerialOnce
  <1>6. CASE i \notin Present /\ j \notin Present
    BY <1>6 DEF TableMoves
  <1>7. QED
    BY <1>1, <1>2, <1>3, <1>4, <1>5, <1>6

(* The status of a job, read off its row.                                  *)
StatusRead ==
  doomed = {} => \A s \in Serials :
    /\ \A i \in Present : jobs[i].serial = s => Status(s) = jobs[i].state
    /\ s > enqueues => Status(s) = "absent"
    /\ s <= enqueues /\ (\A i \in Present : jobs[i].serial # s) => Status(s) = "gone"
    /\ Status(s) \in Outbox!States

LEMMA StatusIs == Typed /\ Owned /\ SerialOnce => StatusRead
  <1> SUFFICES ASSUME Typed, Owned, SerialOnce, doomed = {}, NEW s \in Serials
      PROVE  /\ \A i \in Present : jobs[i].serial = s => Status(s) = jobs[i].state
             /\ s > enqueues => Status(s) = "absent"
             /\ s <= enqueues /\ (\A i \in Present : jobs[i].serial # s) => Status(s) = "gone"
             /\ Status(s) \in Outbox!States
    BY DEF StatusRead
  <1>0. enqueues \in Nat /\ s \in Nat
    BY NumbersAssumption DEF Typed, TypeOK, Serials
  <1>1. ASSUME NEW i \in Present, jobs[i].serial = s PROVE Status(s) = jobs[i].state
    <2> DEFINE c == CHOOSE j \in Present : jobs[j].serial = s
    <2>1. c \in Present /\ jobs[c].serial = s
      BY <1>1
    <2>2. c = i
      BY <1>1, <2>1 DEF SerialOnce
    <2>3. s <= enqueues
      BY <1>1 DEF Owned, SerialsKnown
    <2>4. ~(s > enqueues)
      BY <1>0, <2>3
    <2>5. Status(s) = jobs[c].state
      BY <1>1, <2>4 DEF Status
    <2>6. QED
      BY <2>2, <2>5
  <1>2. s > enqueues => Status(s) = "absent"
    BY DEF Status
  <1>3. s <= enqueues /\ (\A i \in Present : jobs[i].serial # s) => Status(s) = "gone"
    BY <1>0 DEF Status
  <1>4. Status(s) \in Outbox!States
    <2>1. \A i \in Present : jobs[i].state \in States
      BY PresentRow DEF Typed, Rows
    <2>2. QED
      BY <1>0, <1>1, <1>2, <1>3, <2>1 DEF States, Outbox!States
  <1>5. QED
    BY <1>1, <1>2, <1>3, <1>4

(* A step of the table moves every job as the outbox allows.               *)
LEMMA StatusMoves ==
  ASSUME doomed = {}, doomed' = {}, Typed, Owned, SerialOnce, StatusRead, StatusRead', TableMoves,
         NEW s \in Serials, enqueues' \in Nat, Status(s)' # Status(s)
  PROVE  <<Status(s), Status(s)'>> \in Outbox!Moves(s)
  <1>0. /\ enqueues \in Nat /\ s \in Nat
    BY NumbersAssumption DEF Typed, TypeOK, Serials, TableMoves
  <1>a. /\ \A i \in Present : jobs[i].serial = s => Status(s) = jobs[i].state
        /\ s > enqueues => Status(s) = "absent"
        /\ s <= enqueues /\ (\A i \in Present : jobs[i].serial # s) => Status(s) = "gone"
    BY DEF StatusRead
  <1>b. /\ \A i \in Present' : jobs'[i].serial = s => Status(s)' = jobs'[i].state
        /\ s > enqueues' => Status(s)' = "absent"
        /\ s <= enqueues' /\ (\A i \in Present' : jobs'[i].serial # s) => Status(s)' = "gone"
    BY DEF StatusRead
  <1>c. \A i \in Present : jobs[i].serial <= enqueues /\ jobs[i].serial \in Nat
    BY PresentRow, NumbersAssumption DEF Owned, SerialsKnown, Typed, TypeOK, Rows, Serials
  <1>1. CASE s > enqueues
    <2>1. enqueues' = enqueues + 1 /\ s = enqueues + 1
      BY <1>0, <1>1, <1>a, <1>b DEF TableMoves
    <2>2. PICK i \in Present' : i \notin Present
      BY <2>1, <1>0 DEF TableMoves
    <2>3. jobs'[i].serial = s /\ jobs'[i].state = "pending"
      BY <2>1, <2>2 DEF TableMoves, NewRow
    <2>4. Status(s) = "absent" /\ Status(s)' = "pending"
      BY <1>1, <1>a, <1>b, <2>2, <2>3
    <2>5. QED
      BY <2>4 DEF Outbox!Moves
  <1>2. ASSUME NEW i \in Present, jobs[i].serial = s
        PROVE  <<Status(s), Status(s)'>> \in Outbox!Moves(s)
    <2>1. Follows(i) /\ Status(s) = jobs[i].state
      BY <1>2, <1>a DEF TableMoves
    <2>2. CASE i \in Present'
      <3>1. jobs'[i].serial = s
        BY <1>2, <2>1, <2>2 DEF Follows
      <3>2. Status(s)' = jobs'[i].state
        BY <1>b, <2>2, <3>1
      <3>3. \/ <<Status(s), Status(s)'>> \in RowMoves
            \/ Status(s) = "running" /\ Status(s)' = "done" /\ s \in succeeded
        BY <1>2, <2>1, <2>2, <3>2 DEF Follows
      <3>4. QED
        BY <3>3 DEF RowMoves, Outbox!Moves
    <2>3. CASE i \notin Present'
      <3>1. jobs[i].state \in {"done", "dead"}
        BY <2>1, <2>3 DEF Follows
      <3>2. s <= enqueues'
        BY <1>0, <1>2, <1>c DEF TableMoves
      <3>3. ASSUME NEW j \in Present' PROVE jobs'[j].serial # s
        <4>1. CASE j \in Present
          <5>1. jobs'[j].serial = jobs[j].serial
            BY <4>1 DEF TableMoves, Follows
          <5>2. QED
            BY <1>2, <2>3, <4>1, <5>1 DEF SerialOnce
        <4>2. CASE j \notin Present
          BY <1>0, <1>2, <1>c, <4>2 DEF TableMoves, NewRow
        <4>3. QED
          BY <4>1, <4>2
      <3>4. Status(s)' = "gone"
        BY <1>b, <3>2, <3>3
      <3>5. QED
        BY <2>1, <3>1, <3>4 DEF Outbox!Moves
    <2>4. QED
      BY <2>2, <2>3
  <1>3. CASE s <= enqueues /\ \A i \in Present : jobs[i].serial # s
    <2>1. \A i \in Present' : jobs'[i].serial # s
      <3>1. \A i \in Present' : i \in Present => jobs'[i].serial = jobs[i].serial
        BY DEF TableMoves, Follows
      <3>2. \A i \in Present' : i \notin Present => jobs'[i].serial = enqueues + 1
        BY DEF TableMoves, NewRow
      <3>3. QED
        BY <1>0, <1>3, <3>1, <3>2
    <2>2. s <= enqueues'
      BY <1>0, <1>3 DEF TableMoves
    <2>3. QED
      BY <1>3, <1>a, <1>b, <2>1, <2>2
  <1>4. QED
    BY <1>0, <1>1, <1>2, <1>3

(* Everything the map relies on; only SerialOnce is new.                   *)
Mapped == Typed /\ Owned /\ (doomed = {} => Handled /\ SerialOnce)

LEMMA MappedStep == Mapped /\ [Next]_vars => Mapped'
  <1> SUFFICES ASSUME Mapped, [Next]_vars PROVE Mapped'
    OBVIOUS
  <1>1. Typed' /\ Owned' /\ doomed' = doomed
    BY TypedStep, OwnedStep, DoomedStays DEF Mapped
  <1>2. CASE doomed = {}
    <2>1. Typed /\ Owned /\ Handled /\ SerialOnce
      BY <1>2 DEF Mapped
    <2>2. Handled'
      BY <1>2, <2>1, HandledStep
    <2>3. SerialOnce'
      <3>1. CASE HandlersReturn
        BY <2>1, <3>1 DEF HandlersReturn, SerialOnce, Present
      <3>2. CASE ~HandlersReturn
        BY <1>2, <2>1, <3>2, TableStep, SerialOnceFrame
      <3>3. QED
        BY <3>1, <3>2
    <2>4. QED
      BY <1>1, <2>2, <2>3 DEF Mapped
  <1>3. QED
    BY <1>1, <1>2 DEF Mapped

LEMMA MappedInit == Init => Mapped
  BY TypedInit, OwnedInit
  DEF Init, Mapped, Handled, DoneOnlyIfHandled, HeldIsPresent, VerdictEarned, InState, Present,
      SerialOnce

(* Every step of the dispatcher, the table's other writers and time is a   *)
(* step of the outbox or leaves it alone.                                  *)
LEMMA OutboxStep ==
  ASSUME Mapped, Mapped', StatusRead, StatusRead', [Next]_vars
  PROVE  [Outbox!Next]_<<[s \in Serials |-> Status(s)], IF doomed = {} THEN succeeded ELSE {}>>
  <1>0. doomed' = doomed
    BY DoomedStays
  <1>1. CASE doomed # {}
    <2>1. \A s \in Serials : Status(s) = "absent" /\ Status(s)' = "absent"
      BY <1>0, <1>1 DEF Status
    <2>2. [s \in Serials |-> Status(s)]' = [s \in Serials |-> Status(s)]
      BY <2>1
    <2>3. QED
      BY <1>0, <1>1, <2>2
  <1>2. CASE doomed = {} /\ ~HandlersReturn
    <2>1. Typed /\ Owned /\ Handled /\ SerialOnce /\ Typed'
      BY <1>2 DEF Mapped
    <2>2. TableMoves
      BY <1>2, <2>1, TableStep
    <2>3. enqueues' \in Nat /\ doomed' = {} /\ succeeded' = succeeded
      BY <1>0, <1>2, <2>1, <2>2, NumbersAssumption DEF Typed, TypeOK, TableMoves
    <2>4. \A s \in Serials : Status(s)' # Status(s) => <<Status(s), Status(s)'>> \in Outbox!Moves(s)
      BY <1>2, <2>1, <2>2, <2>3, StatusMoves
    <2>5. \A s \in Serials : Status(s)' \in Outbox!States
      BY <2>3 DEF StatusRead
    <2>6. Outbox!Move
      BY <1>2, <2>3, <2>4, <2>5 DEF Outbox!Move
    <2>7. QED
      BY <2>6 DEF Outbox!Next
  <1>3. CASE doomed = {} /\ HandlersReturn
    <2>1. Typed /\ Owned /\ Handled
      BY <1>3 DEF Mapped
    <2>2. UNCHANGED <<jobs, enqueues, doomed>>
      BY <1>3 DEF HandlersReturn, archive, bounds
    <2>3. cur \in held /\ succeeded' \in {succeeded, succeeded \cup {cur.serial}}
      BY <1>3, <2>1 DEF HandlersReturn, Typed, PlaceOK, Working
    <2>4. \A s \in Serials : Status(s)' = Status(s)
      BY <2>2 DEF Status, Present
    <2>5. [s \in Serials |-> Status(s)]' = [s \in Serials |-> Status(s)]
      BY <2>4
    <2>6. cur.serial \in Serials /\ Status(cur.serial) = "running"
      <3>1. cur.serial \in Serials
        BY <2>1, <2>3 DEF Typed, TypeOK, Claims
      <3>2. cur.id \in Present /\ jobs[cur.id].serial = cur.serial /\ jobs[cur.id].state = "running"
        BY <2>1, <2>3 DEF Handled, HeldIsPresent, Owned, HeldIsRunning
      <3>3. QED
        BY <1>3, <3>1, <3>2 DEF StatusRead
    <2>7. CASE succeeded' = succeeded
      BY <1>3, <2>2, <2>5, <2>7
    <2>8. CASE succeeded' = succeeded \cup {cur.serial}
      <3>1. Outbox!Complete(cur.serial)
        BY <1>3, <2>2, <2>5, <2>6, <2>8 DEF Outbox!Complete
      <3>2. QED
        BY <2>6, <3>1 DEF Outbox!Next
    <2>9. QED
      BY <2>3, <2>7, <2>8
  <1>4. QED
    BY <1>1, <1>2, <1>3

(* The dispatcher, its table and everyone who writes to it implement the   *)
(* outbox of JobOutbox, as long as no document is purged: work is settled  *)
(* as done only after its handlers, is handed out again only from running  *)
(* or dead, and is forgotten only once settled (core/jobs/jobs.go).        *)
THEOREM OutboxImplemented == Spec => ImplementsOutbox
  <1>1. Init => Outbox!Init
    <2> SUFFICES ASSUME Init PROVE Outbox!Init
      OBVIOUS
    <2>1. \A s \in Serials : Status(s) = "absent"
      BY NumbersAssumption DEF Init, Status, Serials
    <2>2. QED
      BY <2>1 DEF Init, Outbox!Init
  <1>2. Mapped => StatusRead
    BY StatusIs DEF Mapped, StatusRead
  <1>3. Mapped /\ Mapped' /\ StatusRead /\ StatusRead' /\ [Next]_vars
        => [Outbox!Next]_<<[s \in Serials |-> Status(s)], IF doomed = {} THEN succeeded ELSE {}>>
    BY OutboxStep
  <1>4. QED
    BY <1>1, <1>2, <1>3, MappedInit, MappedStep, PTL DEF Spec, ImplementsOutbox, Outbox!Spec
-----------------------------------------------------------------------------
(* Enrichment: one document between people, rules and the machine.         *)

(* Documents, and what rules and the model can act on.                     *)
DocRecs ==
  [val: [Fields -> {0, 1}], rev: [Tracked -> Nat], owner: {"auto", "human", "rule"},
   locked: BOOLEAN, mark: {"off", "machine", "kept"}, live: BOOLEAN, named: BOOLEAN,
   said: [Fields -> Nat]]
Kept == {"title", "cat", "tag", "lang"}
Inputs == {"model", "context", "question", "date"}

(* A document d becomes e: revisions grow, and whoever says something      *)
(* about a field moves its revision on, except where a tag is already      *)
(* there, or a rule repeats a title of its own.                            *)
Grew(d, e) ==
  /\ \A f \in Tracked : d.rev[f] <= e.rev[f]
  /\ \A f \in {"cat", "lang"} : d.rev[f] = e.rev[f] => d.said[f] = e.said[f]
  /\ \A f \in {"title", "tag"} :
       d.rev[f] = e.rev[f] => d.val[f] = e.val[f] /\ (d.val[f] = 0 => d.said[f] = e.said[f])
  /\ d.rev["title"] = e.rev["title"] /\ d.owner = "auto"
       => e.owner = "auto" /\ d.said["title"] = e.said["title"]

(* A review whose revision is the document's knows what was said.          *)
Knows(r, d) ==
  LET same == r.base.rev[r.f] = d.rev[r.f]
      heard == r.said = d.said[r.f]
  IN  /\ r.f \in Kept => r.base.rev[r.f] <= d.rev[r.f]
      /\ r.f \in {"cat", "lang"} /\ same => heard
      /\ r.f = "tag" /\ same /\ d.val["tag"] = 0 => heard
      /\ r.f = "title" /\ same => d.owner = "auto" /\ heard

ReviewShaped(r) ==
  r.f \in Changeable /\ r.base.rev \in [Tracked -> Nat] /\ {"f", "said", "base"} \subseteq DOMAIN r

DocInv ==
  doc \in DocRecs /\ Grew(NewDoc, doc) /\ job.asked \in DocRecs /\ Grew(job.asked, doc)
JobParts == {"at", "ptr", "asked", "near", "qs", "by", "ans"}
ReviewInv == \A r \in reviews : ReviewShaped(r) /\ Knows(r, doc)
AnswerInv ==
  /\ rules \in Books /\ DOMAIN job = JobParts
  /\ job.at = "answered" =>
       job.ans.fields \in Seq(Changeable) /\ job.ans.yes \subseteq {q[1] : q \in job.qs}

(* Runtimes: the ones to come are new.                                     *)
Old(p) == p \in Nat /\ (p > Built \/ p <= FirstRuntime)
PointerInv ==
  /\ left \in [{"edit", "decide", "admin", "other", "fail"} -> Nat]
  /\ Old(rt.ptr) /\ Old(job.ptr) /\ (rt.ver = None <=> rt.ptr = None)
  /\ \A s \in saves : DOMAIN s = {"mine", "at", "read"}
  /\ \A s \in saves : s.mine \in Nat /\ s.mine > Built /\ s.mine # rt.ptr /\ s.mine # job.ptr
  /\ \A s, t \in saves : s.mine = t.mine => s = t
  /\ job.at \in {"load", "asking", "answered"} => job.ptr # None
  /\ job.at = "answered" /\ rt.ptr = job.ptr => job.by = job.ptr
NoFaults == faults \cap (Kept \cup Inputs) = {}

EnrichInv ==
  DocInv /\ ReviewInv /\ AnswerInv /\ PointerInv /\ NoFaults /\ PathFollows

-----------------------------------------------------------------------------
(* Induction up to n, over the set of numbers that have a property.        *)
LEMMA UpTo ==
  ASSUME NEW n \in Nat, NEW G, 0 \in G, \A m \in 0..n : m \in G /\ m # n => m + 1 \in G
  PROVE  \A m \in 0..n : m \in G
<1> DEFINE Bad == (0..n) \ G
<1>1. SUFFICES ASSUME Bad # {} PROVE FALSE OBVIOUS
<1>2. Bad \subseteq Nat OBVIOUS
<1>3. PICK k \in Bad : \A j \in Bad : ~(<<j, k>> \in OpToRel(<, Nat))
  <2> HIDE DEF Bad
  <2> QED BY <1>1, <1>2, NatLessThanWellFounded, WFMin
<1>4. k \in 0..n /\ k \notin G /\ k # 0 OBVIOUS
<1>5. k - 1 \in 0..n /\ k - 1 # n /\ k - 1 < k /\ (k - 1) + 1 = k BY <1>4
<1>6. <<k - 1, k>> \in OpToRel(<, Nat) BY <1>4, <1>5 DEF OpToRel
<1>7. k - 1 \notin Bad BY <1>3, <1>6
<1> QED BY <1>4, <1>5, <1>7

IsChain(f, n, C, base, step) ==
  f \in [0..n -> C] /\ f[0] = base /\ \A i \in 1..n : f[i] = step[i][f[i - 1]]

LEMMA Chain ==
  ASSUME NEW n \in Nat, NEW C, NEW base \in C, NEW step \in [1..n -> [C -> C]]
  PROVE  \E f : IsChain(f, n, C, base, step)
<1> DEFINE Good(m) == \E f \in [0..m -> C] : f[0] = base /\ \A i \in 1..m : f[i] = step[i][f[i - 1]]
           G == {m \in 0..n : Good(m)}
<1>1. Good(0)
  <2> DEFINE f == [i \in 0..0 |-> base]
  <2>1. f \in [0..0 -> C] /\ f[0] = base /\ \A i \in 1..0 : f[i] = step[i][f[i - 1]] OBVIOUS
  <2> HIDE DEF f
  <2> QED BY <2>1
<1>2. ASSUME NEW m \in 0..n, m # n, Good(m) PROVE Good(m + 1)
  <2>1. PICK f \in [0..m -> C] : f[0] = base /\ \A i \in 1..m : f[i] = step[i][f[i - 1]]
    BY <1>2
  <2>2. m \in 0..m /\ m + 1 \in 1..n BY <1>2
  <2>3. f[m] \in C /\ step[m + 1] \in [C -> C] BY <2>1, <2>2
  <2>4. step[m + 1][f[m]] \in C BY <2>3
  <2> DEFINE g == [i \in 0..(m + 1) |-> IF i <= m THEN f[i] ELSE step[m + 1][f[m]]]
  <2>5. g \in [0..(m + 1) -> C] BY <2>4
  <2>6. g[0] = base BY <2>1
  <2>7. ASSUME NEW i \in 1..(m + 1) PROVE g[i] = step[i][g[i - 1]]
    <3>1. CASE i <= m BY <3>1, <2>1
    <3>2. CASE i = m + 1 BY <3>2
    <3> QED BY <3>1, <3>2
  <2> HIDE DEF g
  <2> QED BY <2>5, <2>6, <2>7
<1> HIDE DEF Good
<1>3. 0 \in G /\ \A m \in 0..n : m \in G /\ m # n => m + 1 \in G
  BY <1>1, <1>2
<1>4. \A m \in 0..n : m \in G
  <2> HIDE DEF G
  <2> QED BY <1>3, UpTo
<1> QED BY <1>4 DEF Good, IsChain

LEMMA LockStep ==
  ASSUME NEW n \in Nat, NEW f, NEW h, f[0] = h[0],
         \A i \in 1..n : f[i - 1] = h[i - 1] => f[i] = h[i]
  PROVE  \A i \in 0..n : f[i] = h[i]
<1> DEFINE G == {i \in 0..n : f[i] = h[i]}
<1>1. 0 \in G OBVIOUS
<1>2. ASSUME NEW m \in 0..n, m \in G, m # n PROVE m + 1 \in G
  <2>1. m + 1 \in 1..n /\ (m + 1) - 1 = m BY <1>2
  <2> QED BY <1>2, <2>1
<1>3. \A m \in 0..n : m \in G
  <2> HIDE DEF G
  <2> QED BY <1>1, <1>2, UpTo
<1> QED BY <1>3

-----------------------------------------------------------------------------
(* What the writes of a document do to its revisions.                      *)
LEMMA GrewSelf == \A d : Grew(d, d) \/ d \notin DocRecs
  BY DEF Grew, DocRecs

LEMMA GrewOn ==
  ASSUME NEW d \in DocRecs, NEW e \in DocRecs, NEW g \in DocRecs, Grew(d, e), Grew(e, g)
  PROVE  Grew(d, g)
<1>1. \A f \in Tracked :
        /\ d.rev[f] \in Nat /\ e.rev[f] \in Nat /\ g.rev[f] \in Nat
        /\ d.rev[f] <= e.rev[f] /\ e.rev[f] <= g.rev[f]
  BY DEF Grew, DocRecs
<1>2. \A f \in Tracked :
        d.rev[f] <= g.rev[f] /\ (d.rev[f] = g.rev[f] => d.rev[f] = e.rev[f] /\ e.rev[f] = g.rev[f])
  BY <1>1
<1> QED BY <1>2 DEF Grew, Tracked

LEMMA KnowsOn ==
  ASSUME NEW r, ReviewShaped(r), NEW d \in DocRecs, NEW e \in DocRecs, Knows(r, d), Grew(d, e)
  PROVE  Knows(r, e)
<1>1. \A f \in Tracked :
        /\ d.rev[f] \in Nat /\ e.rev[f] \in Nat /\ r.base.rev[f] \in Nat
        /\ d.rev[f] <= e.rev[f]
  BY DEF Grew, DocRecs, ReviewShaped
<1>2. Kept \subseteq Tracked BY DEF Kept, Tracked
<1>3. r.f \in Kept => r.base.rev[r.f] <= d.rev[r.f] BY DEF Knows
<1>4. r.f \in Kept => r.base.rev[r.f] <= e.rev[r.f]
  BY <1>1, <1>2, <1>3
<1>5. r.f \in Kept /\ r.base.rev[r.f] = e.rev[r.f] =>
        r.base.rev[r.f] = d.rev[r.f] /\ d.rev[r.f] = e.rev[r.f]
  BY <1>1, <1>2, <1>3
<1> QED BY <1>4, <1>5 DEF Knows, Grew, Kept

(* e is d with other values, revisions and counts.                         *)
With(d, e, val, rev, said) ==
  /\ e \in DocRecs /\ e.val = val /\ e.rev = rev /\ e.said = said
  /\ e.owner = d.owner /\ e.mark = d.mark /\ e.live = d.live
Counted(d, f) == [d.rev EXCEPT ![f] = d.rev[f] + 1]
Set(d, f, v) == [d.val EXCEPT ![f] = v]

LEMMA BumpWrites ==
  ASSUME NEW d \in DocRecs, NEW f
  PROVE  With(d, Bump(d, f), d.val, Counted(d, f), d.said)
  BY DEF Bump, DocRecs, With, Counted

LEMMA PlainWrites ==
  ASSUME NEW d \in DocRecs, NEW f, NEW v \in {0, 1}
  PROVE  With(d, Plain(d, f, v), Set(d, f, v), d.rev, d.said)
  BY DEF Plain, DocRecs, With, Set

LEMMA ColumnWrites ==
  ASSUME NEW d \in DocRecs, NEW f, NEW v \in {0, 1}
  PROVE  With(d, Column(d, f, v), Set(d, f, v), Counted(d, f), d.said)
<1>1. Column(d, f, v) = Bump(Plain(d, f, v), f)
  BY DEF Column, Plain
<1>2. With(d, Plain(d, f, v), Set(d, f, v), d.rev, d.said)
  BY PlainWrites
<1>3. PICK p : p = Plain(d, f, v)
  OBVIOUS
<1>4. p \in DocRecs BY <1>2, <1>3 DEF With
<1>5. With(p, Bump(p, f), p.val, Counted(p, f), p.said)
  BY <1>4, BumpWrites
<1> QED BY <1>1, <1>2, <1>3, <1>5 DEF With, Counted

LEMMA RowWrites ==
  ASSUME NEW d \in DocRecs, NEW f, NEW v \in {0, 1}
  PROVE  \/ d.val[f] = v /\ Row(d, f, v) = d
         \/ d.val[f] # v /\ With(d, Row(d, f, v), Set(d, f, v), Counted(d, f), d.said)
  BY ColumnWrites DEF Row

LEMMA SayWrites ==
  ASSUME NEW d \in DocRecs, NEW f
  PROVE  With(d, Say(d, f), d.val, d.rev, [d.said EXCEPT ![f] = d.said[f] + 1])
  BY DEF Say, DocRecs, With

(* A write that counts, by people, rules or the machine.                   *)
LEMMA CountedGrows ==
  ASSUME NEW d \in DocRecs, NEW e \in DocRecs, NEW f \in Tracked,
         e.rev = Counted(d, f),
         \A g \in Fields \ {f} : e.val[g] = d.val[g] /\ e.said[g] = d.said[g],
         e.owner = d.owner \/ f = "title" \/ e.owner = "auto"
  PROVE  Grew(d, e)
<1>1. \A g \in Tracked : d.rev[g] \in Nat /\ e.rev[g] = IF g = f THEN d.rev[g] + 1 ELSE d.rev[g]
  BY DEF DocRecs, Counted
<1>2. \A g \in Tracked : d.rev[g] <= e.rev[g] /\ (d.rev[g] = e.rev[g] => g # f)
  BY <1>1
<1> QED BY <1>2 DEF Grew, Tracked, Fields

(* A write that does not count.                                            *)
LEMMA UncountedGrows ==
  ASSUME NEW d \in DocRecs, NEW e \in DocRecs, e.rev = d.rev,
         \A g \in Kept : e.val[g] = d.val[g] /\ e.said[g] = d.said[g],
         e.owner = d.owner \/ e.owner = "auto"
  PROVE  Grew(d, e)
<1>1. \A g \in Tracked : d.rev[g] \in Nat /\ e.rev[g] = d.rev[g]
  BY DEF DocRecs
<1>2. \A g \in Tracked : d.rev[g] <= e.rev[g]
  BY <1>1
<1> QED BY <1>2 DEF Grew, Kept

Heard(d, f) == [d.said EXCEPT ![f] = d.said[f] + 1]

LEMMA SpokenColumn ==
  ASSUME NEW d \in DocRecs, NEW f \in {"title", "corr", "cat", "tag", "lang"}, NEW v \in {0, 1},
         NEW e, e = Say(Column(d, f, v), f)
  PROVE  With(d, e, Set(d, f, v), Counted(d, f), Heard(d, f)) /\ Grew(d, e)
<1>1. PICK c : c = Column(d, f, v) OBVIOUS
<1>2. With(d, c, Set(d, f, v), Counted(d, f), d.said)
  BY <1>1, ColumnWrites
<1>3. c \in DocRecs BY <1>2 DEF With
<1>4. With(c, e, c.val, c.rev, Heard(c, f))
  BY <1>1, <1>3, SayWrites DEF Heard
<1>5. With(d, e, Set(d, f, v), Counted(d, f), Heard(d, f))
  BY <1>2, <1>4 DEF With, Heard
<1>6. \A g \in Fields \ {f} : e.val[g] = d.val[g] /\ e.said[g] = d.said[g]
  BY <1>5 DEF With, Set, Heard, DocRecs
<1>7. e \in DocRecs /\ e.rev = Counted(d, f) /\ e.owner = d.owner /\ f \in Tracked
  BY <1>5 DEF With, Tracked
<1> QED BY <1>5, <1>6, <1>7, CountedGrows

LEMMA SpokenPlain ==
  ASSUME NEW d \in DocRecs, NEW f \in {"custom", "layout"}, NEW v \in {0, 1},
         NEW e, e = Say(Plain(d, f, v), f)
  PROVE  With(d, e, Set(d, f, v), d.rev, Heard(d, f)) /\ Grew(d, e)
<1>1. PICK c : c = Plain(d, f, v) OBVIOUS
<1>2. With(d, c, Set(d, f, v), d.rev, d.said)
  BY <1>1, PlainWrites
<1>3. c \in DocRecs BY <1>2 DEF With
<1>4. With(c, e, c.val, c.rev, Heard(c, f))
  BY <1>1, <1>3, SayWrites DEF Heard
<1>5. With(d, e, Set(d, f, v), d.rev, Heard(d, f))
  BY <1>2, <1>4 DEF With, Heard
<1>6. \A g \in Kept : e.val[g] = d.val[g] /\ e.said[g] = d.said[g]
  BY <1>5 DEF With, Set, Heard, DocRecs, Kept, Fields
<1>7. e \in DocRecs /\ e.rev = d.rev /\ e.owner = d.owner
  BY <1>5 DEF With
<1> QED BY <1>5, <1>6, <1>7, UncountedGrows

(* A row that is already there is not counted, though it is spoken of.     *)
LEMMA SpokenRow ==
  ASSUME NEW d \in DocRecs, NEW f \in {"corr", "tag"}, NEW v \in {0, 1}, f = "tag" => v = 1,
         NEW e, e = Say(Row(d, f, v), f)
  PROVE  /\ Grew(d, e) /\ e \in DocRecs /\ e.val = Set(d, f, v)
         /\ e.owner = d.owner /\ e.mark = d.mark /\ e.live = d.live
<1>1. CASE d.val[f] = v
  <2>1. With(d, e, d.val, d.rev, Heard(d, f))
    BY <1>1, SayWrites DEF Row, Heard
  <2>2. Set(d, f, v) = d.val
    BY <1>1 DEF Set, DocRecs, Fields
  <2>3. \A g \in Fields \ {f} : e.said[g] = d.said[g]
    BY <2>1 DEF With, Heard, DocRecs
  <2>4. \A g \in Tracked : d.rev[g] \in Nat /\ d.rev[g] <= e.rev[g]
    BY <2>1 DEF With, DocRecs
  <2>5. Grew(d, e)
    BY <1>1, <2>1, <2>3, <2>4 DEF Grew, With, Fields
  <2> QED BY <2>1, <2>2, <2>5 DEF With
<1>2. CASE d.val[f] # v
  <2>1. e = Say(Column(d, f, v), f)
    BY <1>2 DEF Row
  <2> QED BY <2>1, SpokenColumn DEF With
<1> QED BY <1>1, <1>2

(* Taking a row away counts in any case.                                   *)
LEMMA SpokenTaken ==
  ASSUME NEW d \in DocRecs, NEW f \in {"corr", "tag"}, NEW e, e = Say(Bump(Row(d, f, 0), f), f)
  PROVE  /\ Grew(d, e) /\ e \in DocRecs /\ e.val = Set(d, f, 0)
         /\ e.owner = d.owner /\ e.mark = d.mark /\ e.live = d.live
<1>1. PICK c : c = Row(d, f, 0) OBVIOUS
<1>2. /\ c \in DocRecs /\ c.val = Set(d, f, 0) /\ c.said = d.said
      /\ c.owner = d.owner /\ c.mark = d.mark /\ c.live = d.live
      /\ c.rev \in {d.rev, Counted(d, f)}
  <2>1. CASE d.val[f] = 0
    <3>1. Set(d, f, 0) = d.val
      BY <2>1 DEF Set, DocRecs, Fields
    <3> QED BY <1>1, <2>1, <3>1 DEF Row
  <2>2. CASE d.val[f] # 0
    BY <1>1, <2>2, RowWrites DEF With
  <2> QED BY <2>1, <2>2
<1>3. PICK b : b = Bump(c, f) OBVIOUS
<1>4. With(c, b, c.val, Counted(c, f), c.said)
  BY <1>2, <1>3, BumpWrites
<1>5. b \in DocRecs BY <1>4 DEF With
<1>6. With(b, e, b.val, b.rev, Heard(b, f))
  BY <1>1, <1>3, <1>5, SayWrites DEF Heard
<1>7. f \in Tracked /\ d.rev[f] \in Nat
  BY DEF Tracked, DocRecs
<1>8. \A g \in Tracked : d.rev[g] \in Nat /\ d.rev[g] <= e.rev[g] /\ (d.rev[g] = e.rev[g] => g # f)
  BY <1>2, <1>4, <1>6, <1>7 DEF With, Counted, DocRecs
<1>9. \A g \in Fields \ {f} : e.val[g] = d.val[g] /\ e.said[g] = d.said[g]
  BY <1>2, <1>4, <1>6 DEF With, Set, Heard, DocRecs
<1>10. e \in DocRecs /\ e.val = Set(d, f, 0) /\ e.owner = d.owner /\ e.mark = d.mark /\ e.live = d.live
  BY <1>2, <1>4, <1>6 DEF With
<1> QED BY <1>8, <1>9, <1>10 DEF Grew, Tracked, Fields

(* The same document for the rendered view's mark, and not brought back.   *)
Stays(d, e) == e \in DocRecs /\ Grew(d, e) /\ e.mark = d.mark /\ (e.live => d.live)

LEMMA StaysSelf == \A d \in DocRecs : Stays(d, d)
  BY GrewSelf DEF Stays

LEMMA StaysOn ==
  ASSUME NEW d \in DocRecs, NEW e, NEW g, Stays(d, e), Stays(e, g)
  PROVE  Stays(d, g)
<1>1. e \in DocRecs /\ g \in DocRecs /\ Grew(d, e) /\ Grew(e, g)
  BY DEF Stays
<1>2. Grew(d, g) BY <1>1, GrewOn
<1> QED BY <1>2 DEF Stays

LEMMA RuleTitled ==
  ASSUME NEW d \in DocRecs, d.owner # "human", NEW e, e = Say(RuleTitle(d), "title")
  PROVE  Stays(d, e)
<1>1. CASE d.val["title"] = 1 /\ d.owner = "rule"
  <2>1. With(d, e, d.val, d.rev, Heard(d, "title"))
    BY <1>1, SayWrites DEF RuleTitle, Heard
  <2>2. \A g \in Fields \ {"title"} : e.said[g] = d.said[g]
    BY <2>1 DEF With, Heard, DocRecs
  <2>3. \A g \in Tracked : d.rev[g] \in Nat /\ d.rev[g] <= e.rev[g]
    BY <2>1 DEF With, DocRecs
  <2>4. Grew(d, e)
    BY <1>1, <2>1, <2>2, <2>3 DEF Grew, With, Fields
  <2> QED BY <2>1, <2>4 DEF Stays, With
<1>2. CASE ~(d.val["title"] = 1 /\ d.owner = "rule")
  <2>1. PICK c : c = Column(d, "title", 1) OBVIOUS
  <2>2. With(d, c, Set(d, "title", 1), Counted(d, "title"), d.said)
    BY <2>1, ColumnWrites
  <2>3. PICK o : o = [c EXCEPT !.owner = "rule"] OBVIOUS
  <2>4. /\ o \in DocRecs /\ o.val = c.val /\ o.rev = c.rev /\ o.said = c.said
        /\ o.mark = c.mark /\ o.live = c.live
    BY <2>2, <2>3 DEF With, DocRecs
  <2>5. e = Say(o, "title")
    BY <1>2, <2>1, <2>3 DEF RuleTitle
  <2>6. With(o, e, o.val, o.rev, Heard(o, "title"))
    BY <2>4, <2>5, SayWrites DEF Heard
  <2>7. \A g \in Fields \ {"title"} : e.val[g] = d.val[g] /\ e.said[g] = d.said[g]
    BY <2>2, <2>4, <2>6 DEF With, Set, Heard, DocRecs
  <2>8. e \in DocRecs /\ e.rev = Counted(d, "title") /\ "title" \in Tracked
    BY <2>2, <2>4, <2>6 DEF With, Tracked
  <2>9. Grew(d, e)
    BY <2>7, <2>8, CountedGrows
  <2> QED BY <2>2, <2>4, <2>6, <2>9 DEF With, Stays
<1> QED BY <1>1, <1>2

LEMMA Executed ==
  ASSUME NEW d \in DocRecs, NEW a \in Actions, ~SkipTitle(d, a), NEW e, e = Execute(d, a)
  PROVE  Stays(d, e)
<1>1. CASE a.do = "remove"
  <2>1. a.f \in {"corr", "tag", "custom", "layout"} BY <1>1 DEF Actions
  <2>2. e = Say(TakeAway(d, a.f), a.f) BY <1>1, <2>1 DEF Execute, Fields
  <2>3. CASE a.f \in {"corr", "tag"}
    <3>1. e = Say(Bump(Row(d, a.f, 0), a.f), a.f) BY <2>2, <2>3 DEF TakeAway
    <3> QED BY <2>3, <3>1, SpokenTaken DEF Stays
  <2>4. CASE a.f \in {"custom", "layout"}
    <3>1. e = Say(Plain(d, a.f, 0), a.f) BY <2>2, <2>4 DEF TakeAway
    <3> QED BY <2>4, <3>1, SpokenPlain DEF Stays, With
  <2> QED BY <2>1, <2>3, <2>4
<1>2. CASE a.do # "remove"
  <2>1. a.f \in {"title", "corr", "cat", "tag", "custom", "layout", "owner", "trash"}
    BY <1>2 DEF Actions
  <2>2. CASE a.f = "title"
    <3>1. e = Say(RuleTitle(d), "title") BY <1>2, <2>2 DEF Execute, Assign, Fields
    <3> QED BY <2>2, <3>1, RuleTitled DEF SkipTitle
  <2>3. CASE a.f = "cat"
    <3>1. e = Say(Column(d, "cat", 1), "cat") BY <1>2, <2>3 DEF Execute, Assign, Fields
    <3> QED BY <3>1, SpokenColumn DEF Stays, With
  <2>4. CASE a.f \in {"corr", "tag"}
    <3>1. e = Say(Row(d, a.f, 1), a.f) BY <1>2, <2>4 DEF Execute, Assign, Fields
    <3> QED BY <2>4, <3>1, SpokenRow DEF Stays
  <2>5. CASE a.f \in {"custom", "layout"}
    <3>1. e = Say(Plain(d, a.f, 1), a.f) BY <1>2, <2>5 DEF Execute, Assign, Fields
    <3> QED BY <2>5, <3>1, SpokenPlain DEF Stays, With
  <2>6. CASE a.f = "owner"
    <3>1. e = Bump(d, "source") BY <1>2, <2>6 DEF Execute, Assign, Fields
    <3>2. With(d, e, d.val, Counted(d, "source"), d.said) BY <3>1, BumpWrites
    <3>3. "source" \in Tracked BY DEF Tracked
    <3>4. Grew(d, e) BY <3>2, <3>3, CountedGrows DEF With
    <3> QED BY <3>2, <3>4 DEF Stays, With
  <2>7. CASE a.f = "trash"
    <3>1. e = [d EXCEPT !.live = FALSE] BY <1>2, <2>7 DEF Execute, Assign, Fields
    <3>2. e \in DocRecs /\ e.rev = d.rev /\ e.val = d.val /\ e.said = d.said /\ e.owner = d.owner
          /\ e.mark = d.mark /\ ~e.live
      BY <3>1 DEF DocRecs
    <3>3. Grew(d, e) BY <3>2, UncountedGrows
    <3> QED BY <3>2, <3>3 DEF Stays
  <2> QED BY <2>1, <2>2, <2>3, <2>4, <2>5, <2>6, <2>7
<1> QED BY <1>1, <1>2

(* The actions of a rule, one after the other.                             *)
ActedTo(d) == {acc \in [ok: BOOLEAN, d: DocRecs] : Stays(d, acc.d)}

LEMMA ActedStays ==
  ASSUME NEW d \in DocRecs, NEW acc \in ActedTo(d), NEW a \in Actions
  PROVE  Acted(acc, a) \in ActedTo(d)
<1>1. acc.ok \in BOOLEAN /\ acc.d \in DocRecs /\ Stays(d, acc.d)
  BY DEF ActedTo
<1>2. CASE ~acc.ok \/ SkipTitle(acc.d, a)
  <2>1. Acted(acc, a) = acc
    BY <1>2 DEF Acted
  <2> QED BY <2>1
<1>3. CASE ~(~acc.ok \/ SkipTitle(acc.d, a)) /\ ~acc.d.live /\ a.f # "trash"
  <2>1. Acted(acc, a) = [acc EXCEPT !.ok = FALSE]
    BY <1>3 DEF Acted
  <2>2. [acc EXCEPT !.ok = FALSE] \in [ok: BOOLEAN, d: DocRecs] /\ [acc EXCEPT !.ok = FALSE].d = acc.d
    BY DEF ActedTo
  <2> QED BY <1>1, <2>1, <2>2 DEF ActedTo
<1>4. CASE ~(~acc.ok \/ SkipTitle(acc.d, a)) /\ ~(~acc.d.live /\ a.f # "trash")
  <2>1. PICK e : e = Execute(acc.d, a) OBVIOUS
  <2>2. PICK c : c = acc.d OBVIOUS
  <2>3. Stays(c, e)
    BY <1>1, <1>4, <2>1, <2>2, Executed
  <2>4. Stays(d, e)
    BY <1>1, <2>2, <2>3, StaysOn
  <2>5. Acted(acc, a) = [acc EXCEPT !.d = e]
    BY <1>4, <2>1 DEF Acted
  <2> QED BY <1>1, <2>4, <2>5 DEF ActedTo, Stays
<1> QED BY <1>2, <1>3, <1>4

LEMMA ActOnStays ==
  ASSUME NEW d \in DocRecs, NEW acts \in Seq(Actions)
  PROVE  ActOn(d, acts).ok \in BOOLEAN /\ Stays(d, ActOn(d, acts).d)
<1>1. PICK n : n = Len(acts) OBVIOUS
<1>2. PICK C : C = ActedTo(d) OBVIOUS
<1>3. PICK base : base = [ok |-> TRUE, d |-> d] OBVIOUS
<1>4. PICK step : step = [i \in 1..n |-> [c \in C |-> Acted(c, acts[i])]] OBVIOUS
<1>5. n \in Nat /\ \A i \in 1..n : acts[i] \in Actions BY <1>1
<1>6. base \in C BY <1>2, <1>3, StaysSelf DEF ActedTo
<1>7. step \in [1..n -> [C -> C]] BY <1>2, <1>4, <1>5, ActedStays
<1>8. PICK f : IsChain(f, n, C, base, step)
  BY <1>5, <1>6, <1>7, Chain
<1>9. f \in [0..n -> C] /\ f[0] = base /\ \A i \in 1..n : f[i] = step[i][f[i - 1]]
  BY <1>8 DEF IsChain
<1>10. ASSUME NEW i \in 1..n PROVE f[i] = Acted(f[i - 1], acts[i])
  <2>1. i - 1 \in 0..n BY <1>5
  <2>2. f[i - 1] \in C BY <1>9, <2>1
  <2> QED BY <1>9, <1>4, <2>2
<1> DEFINE Is(h) == h = [m \in 0..Len(acts) |-> IF m = 0 THEN [ok |-> TRUE, d |-> d]
                                                ELSE Acted(h[m - 1], acts[m])]
<1>11. Is(f)
  BY <1>1, <1>3, <1>5, <1>9, <1>10
<1>12. Is(CHOOSE h : Is(h))
  <2> HIDE DEF Is
  <2> QED BY <1>11
<1>13. ASSUME NEW h, Is(h) PROVE h[n] = f[n]
  <2>1. h[0] = f[0] BY <1>1, <1>3, <1>5, <1>9, <1>13
  <2>2. ASSUME NEW i \in 1..n, h[i - 1] = f[i - 1] PROVE h[i] = f[i]
    <3>1. i \in 0..n /\ i # 0 BY <1>5
    <3>2. h[i] = Acted(h[i - 1], acts[i]) BY <1>1, <1>13, <3>1
    <3> QED BY <2>2, <3>2, <1>10
  <2>3. \A i \in 0..n : h[i] = f[i]
    <3> HIDE DEF Is
    <3> QED BY <2>1, <2>2, <1>5, LockStep, ZenonT(30)
  <2> QED BY <2>3, <1>5
<1>14. ActOn(d, acts) = f[n]
  <2>1. ActOn(d, acts) = (CHOOSE h : Is(h))[n] BY <1>1 DEF ActOn
  <2> HIDE DEF Is
  <2> QED BY <2>1, <1>12, <1>13
<1> QED BY <1>2, <1>5, <1>9, <1>14 DEF ActedTo

-----------------------------------------------------------------------------
(* What the machine writes, alone or for a person who agreed.              *)
LEMMA WriteGrows ==
  ASSUME NEW d \in DocRecs, NEW f \in Changeable, NEW reviewed \in BOOLEAN,
         NEW e, e = WriteValue(d, f, reviewed)
  PROVE  Stays(d, e) /\ e.said = d.said /\ e.live = d.live /\ e.val = Set(d, f, 1)
<1>1. f \in {"title", "lang", "cat", "custom", "corr", "tag"}
  BY DEF Changeable, Fields
<1>2. PICK c : c = Column(d, f, 1) OBVIOUS
<1>3. With(d, c, Set(d, f, 1), Counted(d, f), d.said)
  BY <1>2, ColumnWrites
<1>4. ASSUME f # "custom", e.rev = Counted(d, f), e.val = Set(d, f, 1), e.said = d.said, e \in DocRecs,
             e.owner = d.owner \/ f = "title"
      PROVE  Grew(d, e)
  <2>1. \A g \in Fields \ {f} : e.val[g] = d.val[g] /\ e.said[g] = d.said[g]
    BY <1>4 DEF Set, DocRecs
  <2>2. f \in Tracked BY <1>1, <1>4 DEF Tracked
  <2> QED BY <1>4, <2>1, <2>2, CountedGrows
<1>5. CASE f = "title"
  <2>1. e = [c EXCEPT !.owner = IF reviewed THEN "human" ELSE "auto", !.named = reviewed]
    BY <1>2, <1>5 DEF WriteValue
  <2>2. /\ e \in DocRecs /\ e.rev = c.rev /\ e.val = c.val /\ e.said = c.said
        /\ e.mark = c.mark /\ e.live = c.live
    BY <2>1, <1>3 DEF With, DocRecs
  <2> QED BY <2>2, <1>3, <1>4, <1>5 DEF With, Stays
<1>6. CASE f = "lang"
  <2>1. e = [c EXCEPT !.locked = reviewed]
    BY <1>2, <1>6 DEF WriteValue
  <2>2. /\ e \in DocRecs /\ e.rev = c.rev /\ e.val = c.val /\ e.said = c.said
        /\ e.mark = c.mark /\ e.live = c.live /\ e.owner = c.owner
    BY <2>1, <1>3 DEF With, DocRecs
  <2> QED BY <2>2, <1>3, <1>4, <1>6 DEF With, Stays
<1>7. CASE f = "cat"
  <2>1. e = c
    BY <1>2, <1>7 DEF WriteValue
  <2> QED BY <2>1, <1>3, <1>4, <1>7 DEF With, Stays
<1>8. CASE f = "custom"
  <2>1. e = Plain(d, f, 1)
    BY <1>8 DEF WriteValue
  <2>2. With(d, e, Set(d, f, 1), d.rev, d.said)
    BY <2>1, PlainWrites
  <2>3. \A g \in Kept : e.val[g] = d.val[g] /\ e.said[g] = d.said[g]
    BY <1>8, <2>2 DEF With, Set, DocRecs, Kept, Fields
  <2>4. Grew(d, e)
    BY <2>2, <2>3, UncountedGrows DEF With
  <2> QED BY <2>2, <2>4 DEF With, Stays
<1>9. CASE f \in {"corr", "tag"}
  <2>1. e = Row(d, f, 1)
    BY <1>9 DEF WriteValue
  <2>2. CASE d.val[f] = 1
    <3>1. e = d BY <2>1, <2>2 DEF Row
    <3>2. Set(d, f, 1) = d.val BY <1>9, <2>2 DEF Set, DocRecs, Fields
    <3> QED BY <3>1, <3>2, StaysSelf
  <2>3. CASE d.val[f] # 1
    <3>1. e = c BY <1>2, <2>1, <2>3 DEF Row
    <3> QED BY <3>1, <1>3, <1>4, <1>9 DEF With, Stays
  <2> QED BY <2>2, <2>3
<1> QED BY <1>1, <1>5, <1>6, <1>7, <1>8, <1>9

(* A batch of changes, as far as it has come.                              *)
Waiting(p, asked) ==
  /\ p.said = asked.said[p.f] /\ SameRevision(doc, p.f, Base(asked))
  /\ p.f = "title" => asked.val["title"] = 0

Batches(asked, sup) ==
  {b \in [d: DocRecs, rs: SUBSET reviews, pend: SUBSET [f: Changeable, sup: {sup}, said: Nat],
          claimed: SUBSET Changeable, moved: BOOLEAN, bad: SUBSET Changeable] :
     /\ Stays(doc, b.d) /\ b.d.said = doc.said /\ b.d.live = doc.live
     /\ \A f \in Fields : b.d.val[f] = 0 => doc.val[f] = 0
     /\ ~b.moved => b.d = doc
     /\ \A p \in b.pend : Waiting(p, asked)
     /\ b.bad \cap Kept = {}}

(* What was said about a field that is as it was asked about is known.     *)
LEMMA HeardOf ==
  ASSUME NEW asked \in DocRecs, doc \in DocRecs, Grew(asked, doc), NEW f \in Kept,
         SameRevision(doc, f, Base(asked)),
         f = "tag" => doc.val["tag"] = 0, f = "title" => asked.val["title"] = 0
  PROVE  asked.said[f] = doc.said[f]
<1>1. asked.rev[f] = doc.rev[f]
  BY DEF SameRevision, Base, Kept, Tracked
<1> QED BY <1>1 DEF Grew, Kept

LEMMA ProposeKeeps ==
  ASSUME NEW asked \in DocRecs, doc \in DocRecs, Grew(asked, doc), NEW sup, NEW sure,
         NEW b \in Batches(asked, sup), NEW f \in Changeable,
         f = "title" => asked.val["title"] = 0
  PROVE  Propose(b, f, asked, doc, sup, sure) \in Batches(asked, sup)
<1>0. PICK next : next = Propose(b, f, asked, doc, sup, sure) OBVIOUS
<1> DEFINE T == [d: DocRecs, rs: SUBSET reviews, pend: SUBSET [f: Changeable, sup: {sup}, said: Nat],
                 claimed: SUBSET Changeable, moved: BOOLEAN, bad: SUBSET Changeable]
<1>1. /\ b \in T /\ Stays(doc, b.d) /\ b.d.said = doc.said /\ b.d.live = doc.live
      /\ \A g \in Fields : b.d.val[g] = 0 => doc.val[g] = 0
      /\ ~b.moved => b.d = doc
      /\ \A p \in b.pend : Waiting(p, asked)
      /\ b.bad \cap Kept = {}
  BY DEF Batches
<1>2. CASE ~SameRevision(doc, f, Base(asked)) \/ (f = "custom" /\ b.d.val[f] # asked.val[f])
  <2>1. next = b BY <1>0, <1>2 DEF Propose
  <2> QED BY <1>0, <2>1
<1>3. CASE SameRevision(doc, f, Base(asked)) /\ ~(f = "custom" /\ b.d.val[f] # asked.val[f])
  <2>1. CASE ~(opts.auto /\ sure)
    <3>1. PICK p : p = [f |-> f, sup |-> sup, said |-> asked.said[f]] OBVIOUS
    <3>2. next = [b EXCEPT !.pend = @ \cup {p}]
      BY <1>0, <1>3, <2>1, <3>1 DEF Propose
    <3>3. f \in Fields /\ asked.said[f] \in Nat
      BY DEF Changeable, DocRecs
    <3>4. p \in [f: Changeable, sup: {sup}, said: Nat]
      BY <3>1, <3>3
    <3>5. Waiting(p, asked)
      BY <1>3, <3>1 DEF Waiting
    <3>6. /\ next \in T /\ next.d = b.d /\ next.moved = b.moved /\ next.bad = b.bad
          /\ next.pend = b.pend \cup {p}
      BY <1>1, <3>2, <3>4
    <3> QED BY <1>0, <1>1, <3>5, <3>6 DEF Batches
  <2>2. CASE opts.auto /\ sure
    <3>1. CASE Stale(b.d, f, Base(b.d), sup, FALSE) \/ ~Effective(b.d, f, Base(b.d), FALSE)
      <4>1. next = b BY <1>0, <1>3, <2>2, <3>1 DEF Propose
      <4> QED BY <1>0, <4>1
    <3>2. CASE ~Stale(b.d, f, Base(b.d), sup, FALSE) /\ Effective(b.d, f, Base(b.d), FALSE)
      <4>1. PICK c : c = b.d OBVIOUS
      <4>2. PICK e : e = WriteValue(c, f, FALSE) OBVIOUS
      <4>3. Stays(c, e) /\ e.said = c.said /\ e.live = c.live /\ e.val = Set(c, f, 1)
        <5>1. c \in DocRecs /\ FALSE \in BOOLEAN BY <1>1, <4>1
        <5> QED BY <5>1, <4>2, WriteGrows
      <4>4. PICK bad : bad = IF asked.said[f] # e.said[f] THEN b.bad \cup {f} ELSE b.bad OBVIOUS
      <4>5. PICK rs : rs = Reconcile(e, b.rs) OBVIOUS
      <4>6. next = [b EXCEPT !.d = e, !.rs = rs, !.moved = TRUE, !.bad = bad]
        BY <1>0, <1>3, <2>2, <3>2, <4>1, <4>2, <4>4, <4>5 DEF Propose
      <4>7. f \in Kept => asked.said[f] = e.said[f]
        <5>1. SUFFICES ASSUME f \in Kept PROVE asked.said[f] = doc.said[f]
          BY <1>1, <4>1, <4>3
        <5>2. f = "tag" => doc.val["tag"] = 0
          BY <1>1, <3>2 DEF Effective, Fields
        <5> QED BY <1>3, <5>1, <5>2, HeardOf
      <4>8. bad \subseteq Changeable /\ bad \cap Kept = {}
        BY <1>1, <4>4, <4>7
      <4>9. rs \subseteq reviews
        BY <1>1, <4>5 DEF Reconcile
      <4>10. \A g \in Fields : e.val[g] = 0 => c.val[g] = 0
        BY <1>1, <4>1, <4>3 DEF Set, DocRecs
      <4>11. Stays(doc, e) /\ e \in DocRecs
        BY <1>1, <4>1, <4>3, StaysOn DEF Stays
      <4>12. /\ next \in T /\ next.d = e /\ next.moved /\ next.bad = bad /\ next.pend = b.pend
        BY <1>1, <4>6, <4>8, <4>9, <4>11
      <4> QED BY <1>0, <1>1, <4>1, <4>3, <4>8, <4>10, <4>11, <4>12 DEF Batches
    <3> QED BY <3>1, <3>2
  <2> QED BY <2>1, <2>2
<1> QED BY <1>2, <1>3

LEMMA NewBatchKeeps ==
  ASSUME NEW asked, NEW sup, doc \in DocRecs
  PROVE  NewBatch(doc, reviews) \in Batches(asked, sup)
  BY StaysSelf DEF NewBatch, Batches

(* What is put off becomes reviews that know what was said.                *)
LEMMA ProposedKnows ==
  ASSUME NEW asked \in DocRecs, doc \in DocRecs, Grew(asked, doc), ReviewInv,
         NEW sup, NEW b \in Batches(asked, sup), NEW r \in Proposed(b)
  PROVE  ReviewShaped(r) /\ Knows(r, b.d)
<1>1. /\ Stays(doc, b.d) /\ b.d.said = doc.said /\ b.d \in DocRecs /\ b.rs \subseteq reviews
      /\ b.pend \subseteq [f: Changeable, sup: {sup}, said: Nat]
      /\ \A g \in Fields : b.d.val[g] = 0 => doc.val[g] = 0
      /\ \A p \in b.pend : Waiting(p, asked)
  BY DEF Batches
<1>2. CASE r \in b.rs
  <2>1. ReviewShaped(r) /\ Knows(r, doc) BY <1>1, <1>2 DEF ReviewInv
  <2>2. PICK e : e = b.d OBVIOUS
  <2>3. Knows(r, e) BY <1>1, <2>1, <2>2, KnowsOn DEF Stays
  <2> QED BY <2>1, <2>2, <2>3
<1>3. CASE r \notin b.rs
  <2>1. PICK p \in b.pend :
          /\ ~Stale(b.d, p.f, Base(b.d), p.sup, FALSE)
          /\ r = [f |-> p.f, sup |-> p.sup, said |-> p.said, base |-> Base(b.d), at |-> "review"]
    BY <1>3 DEF Proposed
  <2>2. p.f \in Changeable /\ Waiting(p, asked) BY <1>1
  <2>3. r.f = p.f /\ r.said = p.said /\ r.base.rev = b.d.rev /\ {"f", "said", "base"} \subseteq DOMAIN r
    BY <2>1 DEF Base
  <2>4. ReviewShaped(r)
    BY <1>1, <2>2, <2>3 DEF ReviewShaped, DocRecs
  <2>5. p.f = "title" => b.d.owner = "auto"
    BY <2>1 DEF Stale
  <2>6. ASSUME p.f \in Kept, p.f = "tag" => b.d.val["tag"] = 0 PROVE p.said = b.d.said[p.f]
    <3>1. p.f = "tag" => doc.val["tag"] = 0 BY <1>1, <2>6 DEF Fields
    <3>2. PICK f : f = p.f OBVIOUS
    <3>3. asked.said[f] = doc.said[f]
      BY <2>2, <2>6, <3>1, <3>2, HeardOf DEF Waiting
    <3> QED BY <1>1, <2>2, <3>2, <3>3 DEF Waiting
  <2>7. p.f \in Kept => b.d.rev[p.f] \in Nat /\ b.d.rev[p.f] <= b.d.rev[p.f]
    BY <1>1 DEF DocRecs, Kept, Tracked
  <2>8. Knows(r, b.d)
    BY <2>3, <2>5, <2>6, <2>7 DEF Knows, Kept
  <2> QED BY <2>4, <2>8
<1> QED BY <1>2, <1>3

(* An answer of the model: what the rules that asked say, then the model.  *)
Answerable == [do: {"assign", "model"}, f: Changeable]

LEMMA AnsweredKeeps ==
  ASSUME DocInv, NEW b \in Batches(job.asked, job.near), NEW a \in Answerable
  PROVE  Answered(b, a) \in Batches(job.asked, job.near)
<1>1. CASE ~Open(b, a)
  <2>1. Answered(b, a) = b BY <1>1 DEF Answered
  <2> QED BY <2>1
<1>2. CASE Open(b, a)
  <2>1. PICK f : f = a.f OBVIOUS
  <2>2. PICK asked : asked = job.asked OBVIOUS
  <2>3. PICK next : next = Propose(b, f, asked, doc, job.near, job.ans.sure) OBVIOUS
  <2>4. f \in Changeable /\ a.do \in {"assign", "model"} BY <2>1 DEF Answerable
  <2>5. f = "title" => asked.val["title"] = 0
    BY <1>2, <2>1, <2>2 DEF Open
  <2>6. asked \in DocRecs /\ doc \in DocRecs /\ Grew(asked, doc) /\ b \in Batches(asked, job.near)
    BY <2>2 DEF DocInv
  <2>7. next \in Batches(asked, job.near)
    BY <2>3, <2>4, <2>5, <2>6, ProposeKeeps
  <2>8. Answered(b, a) = IF a.do = "model" THEN next ELSE [next EXCEPT !.claimed = @ \cup {f}]
    BY <1>2, <2>1, <2>2, <2>3 DEF Answered
  <2>9. [next EXCEPT !.claimed = @ \cup {f}] \in Batches(asked, job.near)
    BY <2>4, <2>7 DEF Batches
  <2> QED BY <2>2, <2>7, <2>8, <2>9
<1> QED BY <1>1, <1>2

LEMMA AnsweredAllKeeps ==
  ASSUME DocInv, NEW acc \in Batches(job.asked, job.near), NEW acts \in Seq(Answerable)
  PROVE  AnsweredAll(acc, acts) \in Batches(job.asked, job.near)
<1>1. PICK n : n = Len(acts) OBVIOUS
<1>2. PICK C : C = Batches(job.asked, job.near) OBVIOUS
<1>3. PICK step : step = [i \in 1..n |-> [c \in C |-> Answered(c, acts[i])]] OBVIOUS
<1>4. n \in Nat /\ \A i \in 1..n : acts[i] \in Answerable BY <1>1
<1>5. acc \in C BY <1>2
<1>6. step \in [1..n -> [C -> C]] BY <1>2, <1>3, <1>4, AnsweredKeeps
<1>7. PICK f : IsChain(f, n, C, acc, step)
  BY <1>4, <1>5, <1>6, Chain
<1>8. f \in [0..n -> C] /\ f[0] = acc /\ \A i \in 1..n : f[i] = step[i][f[i - 1]]
  BY <1>7 DEF IsChain
<1>9. ASSUME NEW i \in 1..n PROVE f[i] = Answered(f[i - 1], acts[i])
  <2>1. i - 1 \in 0..n BY <1>4
  <2>2. f[i - 1] \in C BY <1>8, <2>1
  <2> QED BY <1>8, <1>3, <2>2
<1> DEFINE Is(h) == h = [m \in 0..Len(acts) |-> IF m = 0 THEN acc ELSE Answered(h[m - 1], acts[m])]
<1>10. Is(f)
  BY <1>1, <1>4, <1>8, <1>9
<1>11. Is(CHOOSE h : Is(h))
  <2> HIDE DEF Is
  <2> QED BY <1>10
<1>12. ASSUME NEW h, Is(h) PROVE h[n] = f[n]
  <2>1. h[0] = f[0] BY <1>1, <1>4, <1>8, <1>12
  <2>2. ASSUME NEW i \in 1..n, h[i - 1] = f[i - 1] PROVE h[i] = f[i]
    <3>1. i \in 0..n /\ i # 0 BY <1>4
    <3>2. h[i] = Answered(h[i - 1], acts[i]) BY <1>1, <1>12, <3>1
    <3> QED BY <2>2, <3>2, <1>9
  <2>3. \A i \in 0..n : h[i] = f[i]
    <3> HIDE DEF Is
    <3> QED BY <2>1, <2>2, <1>4, LockStep, ZenonT(30)
  <2> QED BY <2>3, <1>4
<1>13. AnsweredAll(acc, acts) = f[n]
  <2>1. AnsweredAll(acc, acts) = (CHOOSE h : Is(h))[n] BY <1>1 DEF AnsweredAll
  <2> HIDE DEF Is
  <2> QED BY <2>1, <1>11, <1>12
<1> QED BY <1>2, <1>4, <1>8, <1>13

LEMMA AnswerRulesKeeps ==
  ASSUME DocInv, NEW yes \in SUBSET Slots, \A i \in yes : Shape(i).acts \in Seq(Answerable)
  PROVE  AnswerRules(yes) \in Batches(job.asked, job.near)
<1>1. PICK n : n = Cardinality(Slots) OBVIOUS
<1>2. PICK C : C = Batches(job.asked, job.near) OBVIOUS
<1>3. PICK base : base = NewBatch(doc, reviews) OBVIOUS
<1> DEFINE Step(c, i) == IF i \in yes THEN AnsweredAll(c, Shape(i).acts) ELSE c
<1>4. PICK step : step = [i \in 1..n |-> [c \in C |-> Step(c, i)]] OBVIOUS
<1>5. n \in Nat
  BY <1>1, EnrichmentAssumption, FS_CardinalityType
<1>6. base \in C BY <1>2, <1>3, NewBatchKeeps DEF DocInv
<1>7. \A i \in 1..n : \A c \in C : Step(c, i) \in C BY <1>2, AnsweredAllKeeps
<1> HIDE DEF Step
<1>8. step \in [1..n -> [C -> C]] BY <1>4, <1>7
<1>9. PICK f : IsChain(f, n, C, base, step)
  BY <1>5, <1>6, <1>8, Chain
<1>10. f \in [0..n -> C] /\ f[0] = base /\ \A i \in 1..n : f[i] = step[i][f[i - 1]]
  BY <1>9 DEF IsChain
<1>11. ASSUME NEW i \in 1..n PROVE f[i] = Step(f[i - 1], i)
  <2>1. i - 1 \in 0..n BY <1>5
  <2>2. f[i - 1] \in C BY <1>10, <2>1
  <2> QED BY <1>10, <1>4, <2>2
<1> DEFINE Is(h) == h = [i \in 0..Cardinality(Slots) |->
                           IF i = 0 THEN NewBatch(doc, reviews)
                           ELSE IF i \in yes THEN AnsweredAll(h[i - 1], Shape(i).acts) ELSE h[i - 1]]
<1>12. ASSUME NEW h
       PROVE  Is(h) <=> h = [i \in 0..n |-> IF i = 0 THEN base ELSE Step(h[i - 1], i)]
  BY <1>1, <1>3 DEF Step
<1>13. Is(f)
  <2>1. f = [i \in 0..n |-> IF i = 0 THEN base ELSE Step(f[i - 1], i)]
    BY <1>5, <1>10, <1>11
  <2> HIDE DEF Is
  <2> QED BY <2>1, <1>12
<1>14. Is(CHOOSE h : Is(h))
  <2> HIDE DEF Is
  <2> QED BY <1>13
<1>15. ASSUME NEW h, Is(h) PROVE h[n] = f[n]
  <2>0. h = [i \in 0..n |-> IF i = 0 THEN base ELSE Step(h[i - 1], i)]
    <3> HIDE DEF Is
    <3> QED BY <1>15, <1>12
  <2>1. h[0] = f[0] BY <1>5, <1>10, <2>0
  <2>2. ASSUME NEW i \in 1..n, h[i - 1] = f[i - 1] PROVE h[i] = f[i]
    <3>1. i \in 0..n /\ i # 0 BY <1>5
    <3>2. h[i] = Step(h[i - 1], i) BY <2>0, <3>1
    <3> QED BY <2>2, <3>2, <1>11
  <2>3. \A i \in 0..n : h[i] = f[i]
    <3> HIDE DEF Is
    <3> QED BY <2>1, <2>2, <1>5, LockStep, ZenonT(30)
  <2> QED BY <2>3, <1>5
<1>16. AnswerRules(yes) = f[n]
  <2>1. AnswerRules(yes) = (CHOOSE h : Is(h))[n] BY <1>1 DEF AnswerRules
  <2> HIDE DEF Is
  <2> QED BY <2>1, <1>14, <1>15
<1> QED BY <1>2, <1>5, <1>10, <1>16

LEMMA AnswerChangesKeeps ==
  ASSUME DocInv, NEW yes \in SUBSET Slots, \A i \in yes : Shape(i).acts \in Seq(Answerable),
         NEW fields \in Seq(Changeable)
  PROVE  AnswerChanges(yes, fields) \in Batches(job.asked, job.near)
<1>1. PICK acts : acts = [n \in DOMAIN fields |-> [do |-> "model", f |-> fields[n]]] OBVIOUS
<1>2. acts \in Seq(Answerable)
  <2>1. PICK n \in Nat : DOMAIN fields = 1..n OBVIOUS
  <2>2. \A m \in 1..n : fields[m] \in Changeable BY <2>1
  <2>3. acts \in [1..n -> Answerable] BY <1>1, <2>1, <2>2 DEF Answerable
  <2> HIDE DEF Answerable
  <2> QED BY <2>3
<1>3. PICK acc : acc = AnswerRules(yes) OBVIOUS
<1>4. acc \in Batches(job.asked, job.near) BY <1>3, AnswerRulesKeeps
<1>5. AnsweredAll(acc, acts) \in Batches(job.asked, job.near) BY <1>2, <1>4, AnsweredAllKeeps
<1> QED BY <1>1, <1>3, <1>5 DEF AnswerChanges

(* The rules that asked are still the ones that are answered.              *)
LEMMA AskersAct ==
  ASSUME AnswerInv, job.at = "answered", SameQuestions, NEW i \in job.ans.yes
  PROVE  i \in Slots /\ Shape(i).acts \in Seq(Answerable)
         /\ job.qs \subseteq {<<j, rules[j].shape>> : j \in Slots}
<1>1. job.qs = Questions(doc) BY DEF SameQuestions
<1>2. PICK q \in Questions(doc) : i = q[1] BY <1>1 DEF AnswerInv
<1>3. i \in Slots /\ Enabled(i) /\ Shape(i).ask BY <1>2 DEF Questions
<1>4. rules[i].shape \in DOMAIN Shapes BY <1>3 DEF AnswerInv, Books, Enabled
<1>5. Shape(i).acts \in Seq(AskActions)
  BY <1>3, <1>4, EnrichmentAssumption DEF Shape
<1>6. AskActions \subseteq Answerable BY DEF AskActions, Answerable, Changeable, Fields
<1>7. Shape(i).acts \in Seq(Answerable) BY <1>5, <1>6
<1>8. Questions(doc) \subseteq {<<j, rules[j].shape>> : j \in Slots} BY DEF Questions
<1> QED BY <1>1, <1>3, <1>7, <1>8

-----------------------------------------------------------------------------
(* What a step has to show, part by part.                                  *)
LEMMA NewDocTyped == NewDoc \in DocRecs
  BY DEF NewDoc, DocRecs, Fields, Tracked

LEMMA DocKept ==
  ASSUME DocInv, doc' \in DocRecs, Grew(doc, doc'),
         job'.asked \in {job.asked, NewDoc} \/ (job'.asked = doc /\ doc' = doc)
  PROVE  DocInv'
<1>1. doc \in DocRecs /\ Grew(NewDoc, doc) /\ job.asked \in DocRecs /\ Grew(job.asked, doc)
  BY DEF DocInv
<1>2. PICK d, e, a : d = doc /\ e = doc' /\ a = job.asked OBVIOUS
<1>3. Grew(NewDoc, e) BY <1>1, <1>2, NewDocTyped, GrewOn
<1>4. Grew(a, e) BY <1>1, <1>2, GrewOn
<1>5. PICK b : b = job'.asked OBVIOUS
<1>6. b \in DocRecs /\ Grew(b, e)
  BY <1>1, <1>2, <1>3, <1>4, <1>5, NewDocTyped
<1>7. doc' \in DocRecs /\ Grew(NewDoc, doc') /\ job'.asked \in DocRecs /\ Grew(job'.asked, doc')
  BY <1>2, <1>3, <1>5, <1>6
<1> QED BY <1>7 DEF DocInv, NewDoc, Grew

LEMMA ReviewsKept ==
  ASSUME ReviewInv, doc \in DocRecs, doc' \in DocRecs, Grew(doc, doc'),
         \A r \in reviews' : r \in reviews \/ (ReviewShaped(r) /\ Knows(r, doc'))
  PROVE  ReviewInv'
<1>1. PICK d, e : d = doc /\ e = doc' OBVIOUS
<1>2. ASSUME NEW r \in reviews' PROVE ReviewShaped(r) /\ Knows(r, e)
  <2>1. CASE r \in reviews
    <3>1. ReviewShaped(r) /\ Knows(r, d) BY <1>1, <2>1 DEF ReviewInv
    <3> QED BY <1>1, <3>1, KnowsOn
  <2> QED BY <1>1, <2>1
<1> QED BY <1>1, <1>2 DEF ReviewInv, ReviewShaped, Knows

Busy == {"load", "asking", "answered"}

LEMMA RuntimesKept ==
  ASSUME AnswerInv, PointerInv, rules' \in Books, rt' = rt, saves' = saves,
         left' \in [{"edit", "decide", "admin", "other", "fail"} -> Nat],
         left'["admin"] <= left["admin"],
         DOMAIN job' = JobParts,
         job' = job \/ (job'.at \notin Busy /\ job'.ptr \in {job.ptr, None})
  PROVE  AnswerInv' /\ PointerInv'
<1>1. AnswerInv'
  BY DEF AnswerInv, Books, Busy, JobParts
<1>2. Built \in Nat /\ Built' \in Nat /\ Built' <= Built /\ 0 < Built /\ Built > 0
  BY DEF PointerInv, Built, FirstRuntime
<1>3. \A p : Old(p) => Old(p)'
  <2> SUFFICES ASSUME NEW p, Old(p) PROVE p \in Nat /\ (p > Built' \/ p <= FirstRuntime')
    BY DEF Old
  <2> QED BY <1>2 DEF Old, FirstRuntime
<1>4. None \in Nat /\ (Old(None))'
  BY DEF None, Old, FirstRuntime
<1>5. (Old(rt.ptr))' /\ (rt'.ver = None <=> rt'.ptr = None)
  BY <1>3 DEF PointerInv, Old, None
<1>6. (Old(job.ptr))'
  BY <1>2 DEF PointerInv, Old, None, FirstRuntime
<1>7. \A s \in saves' : s.mine \in Nat /\ s.mine > Built' /\ s.mine # rt'.ptr /\ s.mine # job'.ptr
  BY <1>2 DEF PointerInv, None
<1>8. /\ job'.at \in Busy => job'.ptr # None
      /\ job'.at = "answered" /\ rt'.ptr = job'.ptr => job'.by = job'.ptr
  BY DEF PointerInv, Busy
<1>9. PointerInv'
  BY <1>5, <1>6, <1>7, <1>8 DEF PointerInv, Busy, None
<1> QED BY <1>1, <1>9

LEMMA Spent ==
  ASSUME PointerInv, NEW what \in {"edit", "decide", "admin", "other", "fail"}, Spend(what)
  PROVE  /\ left' \in [{"edit", "decide", "admin", "other", "fail"} -> Nat]
         /\ left'["admin"] = IF what = "admin" THEN left["admin"] - 1 ELSE left["admin"]
         /\ left[what] > 0
  BY DEF Spend, PointerInv

LEMMA PathKept ==
  ASSUME PathFollows, shown' = shown, doc'.live => doc.live, move => move',
         ~move' /\ doc'.live => PathOf(doc') = PathOf(doc)
  PROVE  PathFollows'
  BY DEF PathFollows, PathOf, InPath

LEMMA SamePath ==
  ASSUME NEW d, NEW e, \A f \in InPath : e.val[f] = d.val[f], e.mark = "off" <=> d.mark = "off"
  PROVE  PathOf(e) = PathOf(d)
  BY DEF PathOf

(* The quiet steps: the machine's inputs and runtimes stay as they are.    *)
Quiet ==
  /\ rules' \in Books /\ rt' = rt /\ saves' = saves
  /\ left' \in [{"edit", "decide", "admin", "other", "fail"} -> Nat] /\ left'["admin"] <= left["admin"]
  /\ DOMAIN job' = JobParts
  /\ \/ job' = job
     \/ /\ job'.at \notin Busy /\ job'.ptr \in {job.ptr, None}
        /\ job'.asked \in {job.asked, NewDoc} \/ (job'.asked = doc /\ doc' = doc)

LEMMA QuietKept ==
  ASSUME EnrichInv, Quiet, doc' \in DocRecs, Grew(doc, doc'),
         \A r \in reviews' : r \in reviews \/ (ReviewShaped(r) /\ Knows(r, doc')),
         NoFaults', PathFollows'
  PROVE  EnrichInv'
<1>1. DocInv /\ ReviewInv /\ AnswerInv /\ PointerInv /\ doc \in DocRecs
  BY DEF EnrichInv, DocInv
<1>2. DocInv' BY <1>1, DocKept DEF Quiet
<1>3. ReviewInv' BY <1>1, ReviewsKept
<1>4. AnswerInv' /\ PointerInv' BY <1>1, RuntimesKept DEF Quiet
<1> QED BY <1>2, <1>3, <1>4 DEF EnrichInv

(* Steps that leave the document alone.                                    *)
LEMMA AsideKept ==
  ASSUME EnrichInv, Quiet, doc' = doc, reviews' \subseteq reviews, faults' = faults, shown' = shown,
         move => move'
  PROVE  EnrichInv'
<1>1. doc \in DocRecs /\ NoFaults /\ PathFollows BY DEF EnrichInv, DocInv
<1>2. Grew(doc, doc') BY <1>1, GrewSelf
<1>3. NoFaults' BY <1>1 DEF NoFaults, Kept, Inputs
<1>4. PathFollows' BY <1>1, PathKept
<1> QED BY <1>1, <1>2, <1>3, <1>4, QuietKept

-----------------------------------------------------------------------------
(* People.                                                                 *)
LEMMA FrameQuiet ==
  ASSUME EnrichInv, rules' = rules, rt' = rt, saves' = saves, job' = job,
         left' \in [{"edit", "decide", "admin", "other", "fail"} -> Nat],
         left'["admin"] <= left["admin"]
  PROVE  Quiet
  BY DEF Quiet, EnrichInv, AnswerInv

LEMMA SpendQuiet ==
  ASSUME EnrichInv, rules' = rules, rt' = rt, saves' = saves, job' = job,
         NEW what \in {"edit", "decide", "admin", "other", "fail"}, Spend(what)
  PROVE  Quiet
<1>1. /\ left' \in [{"edit", "decide", "admin", "other", "fail"} -> Nat]
      /\ left'["admin"] = IF what = "admin" THEN left["admin"] - 1 ELSE left["admin"]
      /\ left["admin"] \in Nat
  BY Spent DEF EnrichInv, PointerInv
<1>2. left'["admin"] <= left["admin"] BY <1>1
<1> QED BY <1>1, <1>2, FrameQuiet

LEMMA StillQuiet ==
  ASSUME EnrichInv, rules' = rules, rt' = rt, saves' = saves, left' = left, job' = job
  PROVE  Quiet
<1>1. left \in [{"edit", "decide", "admin", "other", "fail"} -> Nat] /\ left["admin"] <= left["admin"]
  BY DEF EnrichInv, PointerInv
<1> QED BY <1>1, FrameQuiet

LEMMA SameFaults ==
  ASSUME EnrichInv, faults' = faults
  PROVE  NoFaults'
  BY DEF EnrichInv, NoFaults, Kept, Inputs

LEMMA EditedKept ==
  ASSUME EnrichInv, Spend("edit"), NEW d \in DocRecs, Grew(doc, d), d.live = doc.live,
         NEW moved, Edited(d, moved),
         moved \/ ((\A f \in InPath : d.val[f] = doc.val[f]) /\ (d.mark = "off" <=> doc.mark = "off"))
  PROVE  EnrichInv'
<1>1. PICK e : e = [d EXCEPT !.mark = IF d.mark = "machine" THEN "off" ELSE d.mark] OBVIOUS
<1>2. /\ doc' = e /\ reviews' = Reconcile(e, reviews) /\ move' = Queued(moved \/ d.mark = "machine")
      /\ rules' = rules /\ job' = job /\ shown' = shown /\ faults' = faults /\ rt' = rt /\ saves' = saves
  BY <1>1 DEF Edited, settings
<1>3. /\ e \in DocRecs /\ e.val = d.val /\ e.rev = d.rev /\ e.said = d.said /\ e.owner = d.owner
      /\ e.live = d.live /\ e.mark = IF d.mark = "machine" THEN "off" ELSE d.mark
  BY <1>1 DEF DocRecs
<1>4. Grew(doc, e)
  BY <1>3 DEF Grew
<1>5. Quiet BY <1>2, SpendQuiet
<1>6. NoFaults' BY <1>2, SameFaults
<1>7. reviews' \subseteq reviews BY <1>2 DEF Reconcile
<1>8. ~(moved \/ d.mark = "machine") => PathOf(e) = PathOf(doc)
  <2>1. ~(moved \/ d.mark = "machine") =>
          /\ \A f \in InPath : e.val[f] = doc.val[f]
          /\ e.mark = "off" <=> doc.mark = "off"
    BY <1>3
  <2> QED BY <2>1, SamePath
<1>9. PathFollows'
  BY <1>2, <1>3, <1>8, PathKept DEF EnrichInv, Queued
<1> QED BY <1>2, <1>3, <1>4, <1>5, <1>6, <1>7, <1>9, QuietKept

LEMMA NamedKept ==
  ASSUME EnrichInv, NEW v \in {0, 1}, NEW o \in {"human", "auto"}, PatchTitle(v, o)
  PROVE  EnrichInv'
<1>0. doc \in DocRecs BY DEF EnrichInv, DocInv
<1>1. PICK e : e = Say(Column(doc, "title", v), "title") OBVIOUS
<1>2. With(doc, e, Set(doc, "title", v), Counted(doc, "title"), Heard(doc, "title"))
  BY <1>0, <1>1, SpokenColumn
<1>3. PICK d : d = Named(doc, v, o) OBVIOUS
<1>4. d = [e EXCEPT !.owner = o, !.named = (o = "human")]
  BY <1>1, <1>3 DEF Named
<1>5. d \in DocRecs /\ d.val = e.val /\ d.rev = e.rev /\ d.said = e.said /\ d.live = e.live
  BY <1>2, <1>4 DEF With, DocRecs
<1>6. \A g \in Fields \ {"title"} : d.val[g] = doc.val[g] /\ d.said[g] = doc.said[g]
  BY <1>0, <1>2, <1>5 DEF With, Set, Heard, DocRecs
<1>7. "title" \in Tracked BY DEF Tracked
<1>8. Grew(doc, d)
  BY <1>0, <1>2, <1>5, <1>6, <1>7, CountedGrows DEF With
<1>9. Spend("edit") /\ Edited(d, TRUE)
  BY <1>3 DEF PatchTitle
<1> QED BY <1>2, <1>5, <1>8, <1>9, EditedKept DEF With

LEMMA ColumnsKept ==
  ASSUME EnrichInv, NEW v \in {0, 1}, PatchCategory(v) \/ PatchLanguages(v)
  PROVE  EnrichInv'
<1>0. doc \in DocRecs BY DEF EnrichInv, DocInv
<1>1. CASE PatchCategory(v)
  <2>1. PICK d : d = Say(Column(doc, "cat", v), "cat") OBVIOUS
  <2>2. With(doc, d, Set(doc, "cat", v), Counted(doc, "cat"), Heard(doc, "cat")) /\ Grew(doc, d)
    BY <1>0, <2>1, SpokenColumn
  <2>3. Spend("edit") /\ Edited(d, TRUE) BY <1>1, <2>1 DEF PatchCategory
  <2> QED BY <2>2, <2>3, EditedKept DEF With
<1>2. CASE PatchLanguages(v)
  <2>1. PICK e : e = Say(Column(doc, "lang", v), "lang") OBVIOUS
  <2>2. With(doc, e, Set(doc, "lang", v), Counted(doc, "lang"), Heard(doc, "lang")) /\ Grew(doc, e)
    BY <1>0, <2>1, SpokenColumn
  <2>3. PICK d : d = [e EXCEPT !.locked = (v = 1)] OBVIOUS
  <2>4. /\ d \in DocRecs /\ d.val = e.val /\ d.rev = e.rev /\ d.said = e.said /\ d.live = e.live
        /\ d.owner = e.owner /\ d.mark = e.mark
    BY <2>2, <2>3 DEF With, DocRecs
  <2>5. Grew(doc, d) BY <2>2, <2>4 DEF Grew
  <2>6. \A f \in InPath : d.val[f] = doc.val[f]
    BY <1>0, <2>2, <2>4 DEF With, Set, DocRecs, InPath, Fields
  <2>7. Spend("edit") /\ Edited(d, FALSE) BY <1>2, <2>1, <2>3 DEF PatchLanguages
  <2>8. d.live = doc.live /\ d.mark = doc.mark BY <2>2, <2>4 DEF With
  <2> QED BY <2>4, <2>5, <2>6, <2>7, <2>8, EditedKept
<1> QED BY <1>1, <1>2

LEMMA OthersKept ==
  ASSUME EnrichInv, NEW v \in {0, 1},
         PatchLayout(v) \/ BulkCorrespondent(v) \/ PatchTitleOwner
  PROVE  EnrichInv'
<1>0. doc \in DocRecs BY DEF EnrichInv, DocInv
<1>1. CASE PatchLayout(v)
  <2>1. PICK d : d = Say(Plain(doc, "layout", v), "layout") OBVIOUS
  <2>2. With(doc, d, Set(doc, "layout", v), doc.rev, Heard(doc, "layout")) /\ Grew(doc, d)
    BY <1>0, <2>1, SpokenPlain
  <2>3. Spend("edit") /\ Edited(d, TRUE) BY <1>1, <2>1 DEF PatchLayout
  <2> QED BY <2>2, <2>3, EditedKept DEF With
<1>2. CASE BulkCorrespondent(v)
  <2>1. PICK d : d = Say(Row(doc, "corr", v), "corr") OBVIOUS
  <2>2. /\ Grew(doc, d) /\ d \in DocRecs /\ d.val = Set(doc, "corr", v)
        /\ d.mark = doc.mark /\ d.live = doc.live
    BY <1>0, <2>1, SpokenRow
  <2>3. Spend("edit") /\ Edited(d, doc.val["corr"] # v) BY <1>2, <2>1 DEF BulkCorrespondent
  <2>4. doc.val["corr"] = v => \A f \in InPath : d.val[f] = doc.val[f]
    BY <1>0, <2>2 DEF Set, DocRecs, InPath, Fields
  <2> QED BY <2>2, <2>3, <2>4, EditedKept
<1>3. CASE PatchTitleOwner
  <2>1. PICK d : d = [doc EXCEPT !.owner = "auto", !.named = FALSE] OBVIOUS
  <2>2. /\ d \in DocRecs /\ d.val = doc.val /\ d.rev = doc.rev /\ d.said = doc.said /\ d.live = doc.live
        /\ d.owner = "auto" /\ d.mark = doc.mark
    BY <1>0, <2>1 DEF DocRecs
  <2>3. Grew(doc, d) BY <1>0, <2>2, UncountedGrows
  <2>4. Spend("edit") /\ Edited(d, FALSE) BY <1>3, <2>1 DEF PatchTitleOwner
  <2> QED BY <2>2, <2>3, <2>4, EditedKept
<1> QED BY <1>1, <1>2, <1>3

LEMMA TagsKept ==
  ASSUME EnrichInv, BulkAddTag \/ BulkRemoveTag
  PROVE  EnrichInv'
<1>0. doc \in DocRecs BY DEF EnrichInv, DocInv
<1>1. CASE BulkAddTag
  <2>1. PICK d : d = Say(Row(doc, "tag", 1), "tag") OBVIOUS
  <2>2. /\ Grew(doc, d) /\ d \in DocRecs /\ d.val = Set(doc, "tag", 1)
        /\ d.mark = doc.mark /\ d.live = doc.live
    BY <1>0, <2>1, SpokenRow
  <2>3. Spend("edit") /\ Edited(d, doc.val["tag"] = 0) BY <1>1, <2>1 DEF BulkAddTag
  <2>4. doc.val["tag"] # 0 => \A f \in InPath : d.val[f] = doc.val[f]
    BY <1>0, <2>2 DEF Set, DocRecs, InPath, Fields
  <2> QED BY <2>2, <2>3, <2>4, EditedKept
<1>2. CASE BulkRemoveTag
  <2>1. PICK d : d = Say(Bump(Row(doc, "tag", 0), "tag"), "tag") OBVIOUS
  <2>2. /\ Grew(doc, d) /\ d \in DocRecs /\ d.val = Set(doc, "tag", 0)
        /\ d.mark = doc.mark /\ d.live = doc.live
    BY <1>0, <2>1, SpokenTaken
  <2>3. Spend("edit") /\ Edited(d, doc.val["tag"] = 1) BY <1>2, <2>1 DEF BulkRemoveTag
  <2>4. doc.val["tag"] # 1 => \A f \in InPath : d.val[f] = doc.val[f]
    BY <1>0, <2>2 DEF Set, DocRecs, InPath, Fields
  <2> QED BY <2>2, <2>3, <2>4, EditedKept
<1> QED BY <1>1, <1>2

LEMMA MarksKept ==
  ASSUME EnrichInv, BulkKeepMark \/ BulkDropMark
  PROVE  EnrichInv'
<1>0. doc \in DocRecs BY DEF EnrichInv, DocInv
<1>1. PICK m \in {"kept", "off"}, moved \in BOOLEAN :
        /\ Spend("edit") /\ Edited([Bump(doc, "tag") EXCEPT !.mark = m], moved)
        /\ ~moved => (m = "off" <=> doc.mark = "off")
  <2>1. CASE BulkKeepMark
    <3>1. Spend("edit") /\ Edited([Bump(doc, "tag") EXCEPT !.mark = "kept"], doc.mark = "off")
      BY <2>1 DEF BulkKeepMark
    <3> QED BY <3>1
  <2>2. CASE BulkDropMark
    <3>1. Spend("edit") /\ Edited([Bump(doc, "tag") EXCEPT !.mark = "off"], doc.mark # "off")
      BY <2>2 DEF BulkDropMark
    <3> QED BY <3>1
  <2> QED BY <2>1, <2>2
<1>2. PICK b : b = Bump(doc, "tag") OBVIOUS
<1>3. With(doc, b, doc.val, Counted(doc, "tag"), doc.said)
  BY <1>0, <1>2, BumpWrites
<1>4. PICK d : d = [b EXCEPT !.mark = m] OBVIOUS
<1>5. /\ d \in DocRecs /\ d.val = b.val /\ d.rev = b.rev /\ d.said = b.said /\ d.live = b.live
      /\ d.owner = b.owner /\ d.mark = m
  BY <1>3, <1>4 DEF With, DocRecs
<1>6. "tag" \in Tracked BY DEF Tracked
<1>7. Grew(doc, d)
  BY <1>0, <1>3, <1>5, <1>6, CountedGrows DEF With
<1> QED BY <1>1, <1>2, <1>3, <1>4, <1>5, <1>7, EditedKept DEF With

LEMMA TrashKept ==
  ASSUME EnrichInv, BulkTrash \/ BulkRestore
  PROVE  EnrichInv'
<1>0. doc \in DocRecs BY DEF EnrichInv, DocInv
<1>1. /\ Spend("edit") /\ rules' = rules /\ job' = job /\ rt' = rt /\ saves' = saves
      /\ faults' = faults /\ shown' = shown /\ reviews' \subseteq reviews
  BY DEF BulkTrash, BulkRestore, settings, Reconcile
<1>2. PICK l \in BOOLEAN : doc' = [doc EXCEPT !.live = l] /\ (l => move') /\ (~l => move' = move)
  BY DEF BulkTrash, BulkRestore
<1>3. /\ doc' \in DocRecs /\ doc'.val = doc.val /\ doc'.rev = doc.rev /\ doc'.said = doc.said
      /\ doc'.owner = doc.owner /\ doc'.live = l
  BY <1>0, <1>2 DEF DocRecs
<1>4. PICK e : e = doc' OBVIOUS
<1>5. Grew(doc, e) BY <1>0, <1>3, <1>4, UncountedGrows
<1>6. Quiet BY <1>1, SpendQuiet
<1>7. NoFaults' BY <1>1, SameFaults
<1>8. PathFollows'
  BY <1>2, <1>3 DEF PathFollows
<1> QED BY <1>1, <1>3, <1>4, <1>5, <1>6, <1>7, <1>8, QuietKept

LEMMA NotedKept ==
  ASSUME EnrichInv, NEW d \in DocRecs, Grew(doc, d), d.live = doc.live, NEW moved, Noted(d, moved),
         moved \/ ((\A f \in InPath : d.val[f] = doc.val[f]) /\ d.mark = doc.mark)
  PROVE  EnrichInv'
<1>1. /\ Spend("edit") /\ rules' = rules /\ job' = job /\ rt' = rt /\ saves' = saves
      /\ faults' = faults /\ shown' = shown /\ reviews' = reviews /\ doc' = d /\ move' = Queued(moved)
  BY DEF Noted, settings
<1>2. Quiet BY <1>1, SpendQuiet
<1>3. NoFaults' BY <1>1, SameFaults
<1>4. ~moved => PathOf(d) = PathOf(doc) BY SamePath
<1>5. PathFollows'
  BY <1>1, <1>4, PathKept DEF EnrichInv, Queued
<1> QED BY <1>1, <1>2, <1>3, <1>5, QuietKept

LEMMA NotesKept ==
  ASSUME EnrichInv,
         AddDocCorrespondent \/ RemoveDocCorrespondent \/ SetCustomField \/ DeleteCustomField
  PROVE  EnrichInv'
<1>0. doc \in DocRecs BY DEF EnrichInv, DocInv
<1>1. CASE AddDocCorrespondent \/ RemoveDocCorrespondent
  <2>1. PICK v \in {0, 1} : Noted(Say(Row(doc, "corr", v), "corr"), TRUE)
    BY <1>1 DEF AddDocCorrespondent, RemoveDocCorrespondent
  <2>2. PICK d : d = Say(Row(doc, "corr", v), "corr") OBVIOUS
  <2>3. Grew(doc, d) /\ d \in DocRecs /\ d.live = doc.live
    BY <1>0, <2>2, SpokenRow
  <2> QED BY <2>1, <2>2, <2>3, NotedKept
<1>2. CASE SetCustomField \/ DeleteCustomField
  <2>1. PICK v \in {0, 1} : Noted(Say(Plain(doc, "custom", v), "custom"), FALSE)
    BY <1>2 DEF SetCustomField, DeleteCustomField
  <2>2. PICK d : d = Say(Plain(doc, "custom", v), "custom") OBVIOUS
  <2>3. With(doc, d, Set(doc, "custom", v), doc.rev, Heard(doc, "custom")) /\ Grew(doc, d)
    BY <1>0, <2>2, SpokenPlain
  <2>4. \A f \in InPath : d.val[f] = doc.val[f]
    BY <1>0, <2>3 DEF With, Set, DocRecs, InPath, Fields
  <2>5. d \in DocRecs /\ d.live = doc.live /\ d.mark = doc.mark
    BY <2>3 DEF With
  <2> QED BY <2>1, <2>2, <2>3, <2>4, <2>5, NotedKept
<1> QED BY <1>1, <1>2

LEMMA HumanEditsKept ==
  ASSUME EnrichInv, HumanEdits
  PROVE  EnrichInv'
<1>1. 0 \in {0, 1} OBVIOUS
<1>2. CASE PatchTitleOwner
  BY <1>1, <1>2, OthersKept
<1> QED
  BY <1>2, NamedKept, ColumnsKept, OthersKept, TagsKept, MarksKept, TrashKept, NotesKept
     DEF HumanEdits

-----------------------------------------------------------------------------
(* Decisions, rules and what is around the document.                       *)
LEMMA DecidedKept ==
  ASSUME EnrichInv, NEW r \in reviews, AcceptReview(r) \/ RejectReview(r)
  PROVE  EnrichInv'
<1>0. doc \in DocRecs BY DEF EnrichInv, DocInv
<1>1. /\ Spend("decide") /\ rules' = rules /\ job' = job /\ rt' = rt /\ saves' = saves
      /\ faults' = faults /\ shown' = shown /\ doc' = doc /\ move' = move
  BY DEF AcceptReview, RejectReview, settings
<1>2. Quiet BY <1>1, SpendQuiet
<1>3. NoFaults' BY <1>1, SameFaults
<1>4. PathFollows' BY <1>1, PathKept DEF EnrichInv
<1>5. PICK s : s = [r EXCEPT !.at = "apply"] OBVIOUS
<1>6. ReviewShaped(r) /\ Knows(r, doc) BY DEF EnrichInv, ReviewInv
<1>7. s.f = r.f /\ s.said = r.said /\ s.base = r.base /\ DOMAIN s = DOMAIN r
  BY <1>5, <1>6 DEF ReviewShaped
<1>8. ReviewShaped(s) /\ Knows(s, doc)
  BY <1>6, <1>7 DEF ReviewShaped, Knows
<1>9. reviews' \subseteq reviews \cup {s}
  BY <1>5 DEF AcceptReview, RejectReview
<1>10. Grew(doc, doc') BY <1>0, <1>1, GrewSelf
<1> QED BY <1>0, <1>1, <1>2, <1>3, <1>4, <1>8, <1>9, <1>10, QuietKept

LEMMA AppliedKept ==
  ASSUME EnrichInv, NEW r \in reviews, ApplyReview(r)
  PROVE  EnrichInv'
<1>0. doc \in DocRecs BY DEF EnrichInv, DocInv
<1>1. /\ rules' = rules /\ job' = job /\ rt' = rt /\ saves' = saves /\ shown' = shown /\ left' = left
  BY DEF ApplyReview, settings
<1>2. Quiet BY <1>1, StillQuiet
<1>3. CASE ~(seat /\ ~Stale(doc, r.f, r.base, r.sup, TRUE) /\ Effective(doc, r.f, r.base, TRUE))
  <2>1. reviews' = reviews \ {r} /\ doc' = doc /\ move' = move /\ faults' = faults
    BY <1>3 DEF ApplyReview
  <2> QED BY <1>1, <1>2, <2>1, AsideKept
<1>4. CASE seat /\ ~Stale(doc, r.f, r.base, r.sup, TRUE) /\ Effective(doc, r.f, r.base, TRUE)
  <2>1. PICK f, d : f = r.f /\ d = WriteValue(doc, f, TRUE) OBVIOUS
  <2>2. /\ doc' = d /\ reviews' = Reconcile(d, reviews \ {r}) /\ move' = Queued(TRUE)
        /\ faults' = IF r.said # doc.said[f] THEN faults \cup {f} ELSE faults
    BY <1>4, <2>1 DEF ApplyReview
  <2>3. ReviewShaped(r) /\ Knows(r, doc) BY DEF EnrichInv, ReviewInv
  <2>4. f \in Changeable /\ TRUE \in BOOLEAN BY <2>1, <2>3 DEF ReviewShaped
  <2>5. Stays(doc, d) /\ d.live = doc.live
    BY <1>0, <2>1, <2>4, WriteGrows
  <2>6. doc.live /\ SameRevision(doc, f, r.base)
    BY <1>4, <2>1 DEF Stale
  <2>7. f = "tag" => doc.val["tag"] = 0
    BY <1>4, <2>1 DEF Effective
  <2>8. f \in Kept => r.base.rev[f] = doc.rev[f]
    BY <2>6 DEF SameRevision, Kept, Tracked
  <2>9. f \in Kept => r.said = doc.said[f]
    BY <2>1, <2>3, <2>7, <2>8 DEF Knows, Kept
  <2>10. f \notin Inputs BY <2>4 DEF Inputs, Changeable, Fields
  <2>11. NoFaults'
    BY <2>2, <2>9, <2>10 DEF EnrichInv, NoFaults, Kept, Inputs
  <2>12. reviews' \subseteq reviews BY <2>2 DEF Reconcile
  <2>13. PathFollows'
    BY <2>2, <2>6 DEF PathFollows, Queued
  <2> QED BY <1>2, <2>2, <2>5, <2>11, <2>12, <2>13, QuietKept DEF Stays
<1> QED BY <1>3, <1>4

LEMMA DecisionsKept ==
  ASSUME EnrichInv, Decisions
  PROVE  EnrichInv'
<1>1. CASE \E r \in reviews : AcceptReview(r) \/ RejectReview(r) \/ ApplyReview(r)
  BY <1>1, DecidedKept, AppliedKept
<1>2. CASE (\E x \in Dates : AcceptDate(x) \/ RejectDate(x)) \/ ExtractIntelligence
  <2>1. /\ Spend("decide") /\ rules' = rules /\ job' = job /\ rt' = rt /\ saves' = saves
        /\ shown' = shown /\ doc' = doc /\ move' = move /\ reviews' = reviews /\ faults' = faults
    BY <1>2 DEF AcceptDate, RejectDate, ExtractIntelligence, settings
  <2>2. Quiet BY <2>1, SpendQuiet
  <2> QED BY <2>1, <2>2, AsideKept
<1> QED BY <1>1, <1>2 DEF Decisions

LEMMA RuleEditsKept ==
  ASSUME EnrichInv, RuleEdits
  PROVE  EnrichInv'
<1>1. PICK i \in Slots, s \in (DOMAIN Shapes) \cup {None}, on \in BOOLEAN : PutRule(i, s, on)
  BY DEF RuleEdits, CreateRule, UpdateRule, DeleteRule
<1>2. /\ Spend("admin") /\ job' = job /\ rt' = rt /\ saves' = saves
      /\ shown' = shown /\ doc' = doc /\ move' = move /\ reviews' = reviews /\ faults' = faults
      /\ rules' = [rules EXCEPT ![i] = [shape |-> s, on |-> on]]
  BY <1>1 DEF PutRule, settings
<1>3. rules \in Books /\ DOMAIN job = JobParts BY DEF EnrichInv, AnswerInv
<1>4. [shape |-> s, on |-> on] \in [shape: (DOMAIN Shapes) \cup {None}, on: BOOLEAN] OBVIOUS
<1>5. rules' \in Books BY <1>2, <1>3, <1>4 DEF Books
<1>6. left' \in [{"edit", "decide", "admin", "other", "fail"} -> Nat] /\ left'["admin"] <= left["admin"]
  <2>1. left' \in [{"edit", "decide", "admin", "other", "fail"} -> Nat]
        /\ left'["admin"] = left["admin"] - 1 /\ left["admin"] \in Nat
    BY <1>2, Spent DEF EnrichInv, PointerInv
  <2> QED BY <2>1
<1>7. Quiet BY <1>2, <1>3, <1>5, <1>6 DEF Quiet
<1> QED BY <1>2, <1>7, AsideKept

LEMMA RunRuleKept ==
  ASSUME EnrichInv, NEW who \in Runners, RunRule(who)
  PROVE  EnrichInv'
<1>0. doc \in DocRecs BY DEF EnrichInv, DocInv
<1>1. /\ rules' = rules /\ job' = job /\ rt' = rt /\ saves' = saves /\ shown' = shown /\ left' = left
      /\ reviews' = reviews /\ faults' = faults
  BY DEF RunRule, settings
<1>2. Quiet BY <1>1, StillQuiet
<1>3. PICK acts : acts = Shapes[Head(runs[who])].acts OBVIOUS
<1>4. acts \in Seq(Actions)
  <2>1. PICK s \in DOMAIN Shapes : s = Head(runs[who]) BY DEF RunRule
  <2>2. acts \in Seq(AskActions) \/ acts \in Seq(Actions)
    BY <1>3, <2>1, EnrichmentAssumption
  <2>3. AskActions \subseteq Actions BY DEF AskActions, Actions
  <2> QED BY <2>2, <2>3
<1>5. PICK did : did = ActOn(doc, acts) OBVIOUS
<1>6. did.ok \in BOOLEAN /\ Stays(doc, did.d) BY <1>0, <1>4, <1>5, ActOnStays
<1>7. CASE ~did.ok
  <2>1. doc' = doc /\ move' = move BY <1>3, <1>5, <1>7 DEF RunRule
  <2> QED BY <1>1, <1>2, <2>1, AsideKept
<1>8. CASE did.ok
  <2>1. PICK d : d = did.d OBVIOUS
  <2>2. doc' = d /\ move' = Queued(Moved(doc, d)) BY <1>3, <1>5, <1>8, <2>1 DEF RunRule
  <2>3. d \in DocRecs /\ Grew(doc, d) /\ d.mark = doc.mark /\ (d.live => doc.live)
    BY <1>6, <2>1 DEF Stays
  <2>4. ~Moved(doc, d) => \A f \in InPath : d.val[f] = doc.val[f]
    BY DEF Moved, InPath
  <2>5. ~Moved(doc, d) => PathOf(d) = PathOf(doc)
    BY <2>3, <2>4, SamePath
  <2>6. PathFollows'
    BY <1>1, <2>2, <2>3, <2>5, PathKept DEF EnrichInv, Queued
  <2>7. NoFaults' BY <1>1, SameFaults
  <2> QED BY <1>1, <1>2, <2>2, <2>3, <2>6, <2>7, QuietKept
<1> QED BY <1>6, <1>7, <1>8

LEMMA AroundKept ==
  ASSUME EnrichInv,
         \/ \E who \in Runners : LoadRules(who)
         \/ Refile \/ RefileRender \/ RefileDenied \/ NeighbourChanges \/ OwnerSeat
  PROVE  EnrichInv'
<1>1. /\ rules' = rules /\ job' = job /\ rt' = rt /\ saves' = saves /\ shown' = shown /\ doc' = doc
      /\ reviews' = reviews /\ faults' = faults /\ (move => move')
  <2> DEFINE Goal == /\ rules' = rules /\ job' = job /\ rt' = rt /\ saves' = saves /\ shown' = shown
                     /\ doc' = doc /\ reviews' = reviews /\ faults' = faults /\ (move => move')
  <2>1. ASSUME \E who \in Runners : LoadRules(who) PROVE Goal BY <2>1 DEF LoadRules, settings
  <2>2. ASSUME Refile \/ RefileDenied PROVE Goal BY <2>2 DEF Refile, RefileDenied, settings
  <2>3. ASSUME RefileRender PROVE Goal BY <2>3 DEF RefileRender, settings, Queued
  <2>4. ASSUME NeighbourChanges \/ OwnerSeat PROVE Goal BY <2>4 DEF NeighbourChanges, OwnerSeat, settings
  <2> HIDE DEF Goal
  <2>5. Goal BY <2>1, <2>2, <2>3, <2>4
  <2> QED BY <2>5 DEF Goal
<1>2. left' = left \/ Spend("admin") \/ Spend("other")
  BY DEF LoadRules, Refile, RefileRender, RefileDenied, NeighbourChanges, OwnerSeat
<1>3. Quiet BY <1>1, <1>2, StillQuiet, SpendQuiet
<1> QED BY <1>1, <1>3, AsideKept

-----------------------------------------------------------------------------
(* Settings, the worker and restarts.                                      *)
LEMMA BesideKept ==
  ASSUME EnrichInv, doc' = doc, job'.asked \in {job.asked, NewDoc, doc}, reviews' \subseteq reviews,
         faults' = faults, shown' = shown, move' = move, AnswerInv', PointerInv'
  PROVE  EnrichInv'
<1>1. doc \in DocRecs /\ DocInv /\ ReviewInv /\ PathFollows BY DEF EnrichInv, DocInv
<1>2. Grew(doc, doc') BY <1>1, GrewSelf
<1>3. DocInv' BY <1>1, <1>2, DocKept
<1>4. ReviewInv' BY <1>1, <1>2, ReviewsKept
<1>5. NoFaults' BY SameFaults
<1>6. PathFollows' BY <1>1, PathKept
<1> QED BY <1>3, <1>4, <1>5, <1>6 DEF EnrichInv

LEMMA SaveKept ==
  ASSUME EnrichInv, NEW on \in BOOLEAN, SaveLLMSettings(on)
  PROVE  EnrichInv'
<1>1. /\ rules' = rules /\ job' = job /\ rt' = rt /\ shown' = shown /\ doc' = doc
      /\ reviews' = reviews /\ faults' = faults /\ move' = move /\ Spend("admin")
  BY DEF SaveLLMSettings
<1>2. PICK n : n = [mine |-> Built, at |-> "saved", read |-> None] OBVIOUS
<1>3. saves' = saves \cup {n} BY <1>2 DEF SaveLLMSettings
<1>4. PointerInv BY DEF EnrichInv
<1>5. /\ left' \in [{"edit", "decide", "admin", "other", "fail"} -> Nat]
      /\ left'["admin"] = left["admin"] - 1 /\ left["admin"] > 0 /\ left["admin"] \in Nat
  BY <1>1, <1>4, Spent DEF PointerInv
<1>6. Built \in Nat /\ Built' = Built - 1 /\ Built > 1 /\ FirstRuntime = 1 /\ FirstRuntime' = 1
  BY <1>5 DEF Built, FirstRuntime
<1>7. (Old(rt.ptr))' /\ (Old(job.ptr))'
  BY <1>1, <1>4, <1>6 DEF PointerInv, Old
<1>8. n.mine = Built /\ DOMAIN n = {"mine", "at", "read"} BY <1>2
<1>9. Built # rt.ptr /\ Built # job.ptr
  BY <1>4, <1>6 DEF PointerInv, Old
<1>10. \A s \in saves' : s.mine \in Nat /\ s.mine > Built' /\ s.mine # rt'.ptr /\ s.mine # job'.ptr
  BY <1>1, <1>3, <1>4, <1>6, <1>8, <1>9 DEF PointerInv
<1>11. \A s, t \in saves' : s.mine = t.mine => s = t
  <2>1. \A s \in saves : s.mine # Built BY <1>4, <1>6 DEF PointerInv
  <2> QED BY <1>3, <1>4, <1>8, <2>1 DEF PointerInv
<1>12. \A s \in saves' : DOMAIN s = {"mine", "at", "read"}
  BY <1>3, <1>4, <1>8 DEF PointerInv
<1>13. PointerInv'
  BY <1>1, <1>4, <1>5, <1>7, <1>10, <1>11, <1>12 DEF PointerInv, None
<1>14. AnswerInv' BY <1>1 DEF EnrichInv, AnswerInv, Books, JobParts
<1> QED BY <1>1, <1>13, <1>14, BesideKept

LEMMA ReloadKept ==
  ASSUME EnrichInv, NEW s \in saves, ReloadReads(s) \/ ReloadStores(s)
  PROVE  EnrichInv'
<1>1. /\ rules' = rules /\ job' = job /\ shown' = shown /\ doc' = doc /\ left' = left
      /\ reviews' = reviews /\ faults' = faults /\ move' = move
  BY DEF ReloadReads, ReloadStores
<1>2. PointerInv BY DEF EnrichInv
<1>3. AnswerInv' BY <1>1 DEF EnrichInv, AnswerInv, Books, JobParts
<1>4. Built \in Nat /\ Built' = Built /\ FirstRuntime' = FirstRuntime /\ Built > 0
  BY <1>1, <1>2 DEF PointerInv, Built, FirstRuntime
<1>5. CASE ReloadReads(s)
  <2>1. PICK n : n = [s EXCEPT !.at = "read", !.read = conf] OBVIOUS
  <2>2. saves' = (saves \ {s}) \cup {n} /\ rt' = rt BY <1>5, <2>1 DEF ReloadReads
  <2>3. n.mine = s.mine /\ DOMAIN n = {"mine", "at", "read"}
    BY <1>2, <2>1 DEF PointerInv
  <2>4. \A t \in saves' : t.mine \in Nat /\ t.mine > Built' /\ t.mine # rt'.ptr /\ t.mine # job'.ptr
    BY <1>1, <1>2, <1>4, <2>2, <2>3 DEF PointerInv
  <2>5. \A t, u \in saves' : t.mine = u.mine => t = u
    BY <1>2, <2>2, <2>3 DEF PointerInv
  <2>6. \A t \in saves' : DOMAIN t = {"mine", "at", "read"}
    BY <1>2, <2>2, <2>3 DEF PointerInv
  <2>7. PointerInv'
    BY <1>1, <1>2, <1>4, <2>2, <2>4, <2>5, <2>6 DEF PointerInv, Old, None
  <2> QED BY <1>1, <1>3, <2>7, BesideKept
<1>6. CASE ReloadStores(s)
  <2>1. rt' = [ver |-> s.read, ptr |-> IF s.read = None THEN None ELSE s.mine] /\ saves' = saves \ {s}
    BY <1>6 DEF ReloadStores
  <2>2. s.mine \in Nat /\ s.mine > Built /\ s.mine # job.ptr /\ s.mine # None
    BY <1>2, <1>4 DEF PointerInv, None
  <2>3. rt'.ptr \in {None, s.mine} /\ (rt'.ver = None <=> rt'.ptr = None)
    BY <2>1, <2>2
  <2>4. (Old(rt.ptr))' /\ (Old(job.ptr))'
    BY <1>1, <1>2, <1>4, <2>2, <2>3 DEF PointerInv, Old, None, FirstRuntime
  <2>5. \A t \in saves' : t.mine # s.mine /\ t.mine # None /\ t \in saves
    BY <1>2, <1>4, <2>1 DEF PointerInv, None
  <2>6. \A t \in saves' : t.mine \in Nat /\ t.mine > Built' /\ t.mine # rt'.ptr /\ t.mine # job'.ptr
    BY <1>1, <1>2, <1>4, <2>3, <2>5 DEF PointerInv
  <2>7. /\ job'.at \in Busy => job'.ptr # None
        /\ job'.at = "answered" /\ rt'.ptr = job'.ptr => job'.by = job'.ptr
    BY <1>1, <1>2, <2>2, <2>3 DEF PointerInv, Busy
  <2>8. PointerInv'
    BY <1>1, <1>2, <2>3, <2>4, <2>5, <2>6, <2>7 DEF PointerInv, None, Busy
  <2> QED BY <1>1, <1>3, <2>8, BesideKept
<1> QED BY <1>5, <1>6

LEMMA SettingsKept ==
  ASSUME EnrichInv, Settings
  PROVE  EnrichInv'
<1>1. CASE \E o \in {"auto", "match"} : PatchLLMSettings(o)
  <2>1. /\ rules' = rules /\ job' = job /\ rt' = rt /\ saves' = saves /\ shown' = shown /\ doc' = doc
        /\ reviews' = reviews /\ faults' = faults /\ move' = move /\ Spend("admin")
    BY <1>1 DEF PatchLLMSettings
  <2>2. Quiet BY <2>1, SpendQuiet
  <2> QED BY <2>1, <2>2, AsideKept
<1> QED BY <1>1, SaveKept, ReloadKept DEF Settings

LEMMA RestartKept ==
  ASSUME EnrichInv, Restart
  PROVE  EnrichInv'
<1>1. /\ rules' = rules /\ shown' = shown /\ doc' = doc /\ faults' = faults /\ move' = move
      /\ reviews' \subseteq reviews /\ job' = Sleep /\ saves' = {} /\ Spend("fail")
      /\ rt' = [ver |-> conf, ptr |-> IF conf = None THEN None ELSE FirstRuntime]
  BY DEF Restart, Reconcile
<1>2. PointerInv BY DEF EnrichInv
<1>3. left' \in [{"edit", "decide", "admin", "other", "fail"} -> Nat]
  BY <1>1, <1>2, Spent
<1>4. job'.at = "idle" /\ job'.ptr = None /\ job'.asked = NewDoc /\ DOMAIN job' = JobParts
  BY <1>1 DEF Sleep, JobParts
<1>5. AnswerInv' BY <1>1, <1>4 DEF EnrichInv, AnswerInv, Books, JobParts
<1>6. rt'.ptr \in {None, FirstRuntime} /\ (rt'.ver = None <=> rt'.ptr = None)
  BY <1>1 DEF None, FirstRuntime
<1>7. (Old(rt.ptr))' /\ (Old(job.ptr))'
  BY <1>4, <1>6 DEF Old, None, FirstRuntime
<1>8. PointerInv'
  BY <1>1, <1>3, <1>4, <1>6, <1>7 DEF PointerInv, None
<1> QED BY <1>1, <1>4, <1>5, <1>8, BesideKept

LEMMA Unspent ==
  ASSUME EnrichInv
  PROVE  left \in [{"edit", "decide", "admin", "other", "fail"} -> Nat] /\ left["admin"] <= left["admin"]
  BY DEF EnrichInv, PointerInv

LEMMA WorkQuiet ==
  ASSUME EnrichInv, rules' = rules, rt' = rt, saves' = saves, left' = left,
         \/ job' = Sleep
         \/ \E at : at \notin Busy /\ job' = [job EXCEPT !.at = at]
         \/ \E at, nr : /\ at \notin Busy /\ doc' = doc
                        /\ job' = [job EXCEPT !.at = at, !.asked = doc, !.near = nr]
  PROVE  Quiet
<1>0. DOMAIN job = JobParts /\ rules \in Books BY DEF EnrichInv, AnswerInv
<1>1. /\ DOMAIN job = JobParts /\ rules \in Books
      /\ left \in [{"edit", "decide", "admin", "other", "fail"} -> Nat] /\ left["admin"] <= left["admin"]
  BY <1>0, Unspent
<1>2. CASE job' = Sleep
  <2>1. job'.at \notin Busy /\ job'.ptr = None /\ job'.asked = NewDoc /\ DOMAIN job' = JobParts
    BY <1>2 DEF Sleep, Busy, JobParts
  <2> QED BY <1>1, <2>1 DEF Quiet
<1>3. ASSUME NEW at, at \notin Busy, job' = [job EXCEPT !.at = at] PROVE Quiet
  <2>1. job'.at = at /\ job'.ptr = job.ptr /\ job'.asked = job.asked /\ DOMAIN job' = JobParts
    BY <1>1, <1>3 DEF JobParts
  <2> QED BY <1>1, <1>3, <2>1 DEF Quiet
<1>4. ASSUME NEW at, NEW nr, at \notin Busy, doc' = doc,
             job' = [job EXCEPT !.at = at, !.asked = doc, !.near = nr]
      PROVE  Quiet
  <2>1. job'.at = at /\ job'.ptr = job.ptr /\ job'.asked = doc /\ DOMAIN job' = JobParts
    BY <1>1, <1>4 DEF JobParts
  <2> QED BY <1>1, <1>4, <2>1 DEF Quiet
<1> QED BY <1>2, <1>3, <1>4

(* Steps of the worker that leave the document and its reviews alone.      *)
LEMMA TakenKept ==
  ASSUME EnrichInv, TakeIngest \/ RefuseAnswer
  PROVE  EnrichInv'
<1>1. /\ rules' = rules /\ rt' = rt /\ saves' = saves /\ left' = left /\ shown' = shown /\ doc' = doc
      /\ reviews' = reviews /\ faults' = faults /\ move' = move
  BY DEF TakeIngest, RefuseAnswer, settings
<1>2. job' = Sleep \/ job' = [job EXCEPT !.at = "consume"]
  BY DEF TakeIngest, RefuseAnswer, JobFails, Goto
<1>3. "consume" \notin Busy BY DEF Busy
<1>4. Quiet BY <1>1, <1>2, <1>3, WorkQuiet
<1> QED BY <1>1, <1>4, AsideKept

LEMMA ReadKept ==
  ASSUME EnrichInv, DetectLanguages \/ ReadArchiveInput
  PROVE  EnrichInv'
<1>1. /\ rules' = rules /\ rt' = rt /\ saves' = saves /\ left' = left /\ shown' = shown /\ doc' = doc
      /\ reviews' = reviews /\ faults' = faults /\ move' = move
  BY DEF DetectLanguages, ReadArchiveInput, settings
<1>2. {"detected", "archive", "matched", "added"} \cap Busy = {} BY DEF Busy
<1>3. DOMAIN job = JobParts BY DEF EnrichInv, AnswerInv
<1>4. CASE DetectLanguages
  <2>1. PICK at \in {"detected", "archive"} : job' = [job EXCEPT !.asked = doc, !.at = at]
    BY <1>4 DEF DetectLanguages
  <2>2. job' = [job EXCEPT !.at = at, !.asked = doc, !.near = job.near]
    BY <1>3, <2>1 DEF JobParts
  <2>3. Quiet BY <1>1, <1>2, <2>2, WorkQuiet
  <2> QED BY <1>1, <2>3, AsideKept
<1>5. CASE ReadArchiveInput
  <2>1. \/ job' = [job EXCEPT !.at = "matched", !.asked = doc, !.near = near]
        \/ job' = [job EXCEPT !.at = "added"]
    BY <1>5 DEF ReadArchiveInput, Goto
  <2>2. Quiet BY <1>1, <1>2, <2>1, WorkQuiet
  <2> QED BY <1>1, <2>2, AsideKept
<1> QED BY <1>4, <1>5

LEMMA StoredKept ==
  ASSUME EnrichInv, StoreContent
  PROVE  EnrichInv'
<1>0. doc \in DocRecs BY DEF EnrichInv, DocInv
<1>1. /\ rules' = rules /\ rt' = rt /\ saves' = saves /\ left' = left /\ shown' = shown
      /\ reviews' = reviews /\ faults' = faults /\ move' = move
  BY DEF StoreContent, settings
<1>2. \/ job' = Sleep /\ doc' = doc
      \/ job' = [job EXCEPT !.at = "lang"] /\ doc' = Bump(doc, "source")
  BY DEF StoreContent, JobFails, Goto
<1>3. "lang" \notin Busy BY DEF Busy
<1>4. Quiet BY <1>1, <1>2, <1>3, WorkQuiet
<1>5. CASE doc' = doc BY <1>1, <1>4, <1>5, AsideKept
<1>6. CASE doc' = Bump(doc, "source")
  <2>1. PICK d : d = doc' OBVIOUS
  <2>2. With(doc, d, doc.val, Counted(doc, "source"), doc.said) BY <1>0, <1>6, <2>1, BumpWrites
  <2>3. "source" \in Tracked BY DEF Tracked
  <2>4. Grew(doc, d) BY <1>0, <2>2, <2>3, CountedGrows DEF With
  <2>5. PathOf(d) = PathOf(doc) BY <2>2, SamePath DEF With
  <2>6. PathFollows' BY <1>1, <2>1, <2>2, <2>5, PathKept DEF EnrichInv, With
  <2>7. NoFaults' BY <1>1, SameFaults
  <2> QED BY <1>1, <1>4, <2>1, <2>2, <2>4, <2>6, <2>7, QuietKept DEF With
<1> QED BY <1>2, <1>5, <1>6

LEMMA LanguageKept ==
  ASSUME EnrichInv, ProposeLanguage
  PROVE  EnrichInv'
<1>0. doc \in DocRecs /\ job.asked \in DocRecs /\ Grew(job.asked, doc) BY DEF EnrichInv, DocInv
<1>1. /\ rules' = rules /\ rt' = rt /\ saves' = saves /\ left' = left /\ shown' = shown /\ doc' = doc
      /\ faults' = faults /\ move' = move /\ job' = [job EXCEPT !.at = "archive"]
  BY DEF ProposeLanguage, settings, Goto
<1>2. "archive" \notin Busy BY DEF Busy
<1>3. Quiet BY <1>1, <1>2, WorkQuiet
<1>4. PICK r : r = [f |-> "lang", sup |-> None, said |-> job.asked.said["lang"],
                    base |-> Base(job.asked), at |-> "review"] OBVIOUS
<1>5. reviews' \subseteq reviews \cup {r} BY <1>4 DEF ProposeLanguage
<1>6. /\ r.f = "lang" /\ r.said = job.asked.said["lang"] /\ r.base.rev = job.asked.rev
      /\ {"f", "said", "base"} \subseteq DOMAIN r
  BY <1>4 DEF Base
<1>7. ReviewShaped(r)
  BY <1>0, <1>6 DEF ReviewShaped, Changeable, Fields, DocRecs
<1>8. Knows(r, doc)
  BY <1>0, <1>6 DEF Knows, Grew, Kept, Tracked
<1>9. NoFaults' /\ PathFollows' BY <1>1, SameFaults, PathKept DEF EnrichInv
<1>10. Grew(doc, doc') BY <1>0, <1>1, GrewSelf
<1> QED BY <1>0, <1>1, <1>3, <1>5, <1>7, <1>8, <1>9, <1>10, QuietKept

LEMMA RenderedKept ==
  ASSUME EnrichInv, FinishIngest \/ RenderJob
  PROVE  EnrichInv'
<1>0. doc \in DocRecs BY DEF EnrichInv, DocInv
<1>1. /\ rules' = rules /\ rt' = rt /\ saves' = saves /\ left' = left /\ doc' = doc
      /\ reviews' = reviews /\ faults' = faults /\ shown' = IF doc.live THEN PathOf(doc) ELSE shown
  BY DEF FinishIngest, RenderJob, settings
<1>2. job' = job \/ job' = Sleep BY DEF FinishIngest, RenderJob, JobDone
<1>3. Quiet BY <1>1, <1>2, WorkQuiet, StillQuiet
<1>4. PathFollows' BY <1>1 DEF PathFollows, PathOf, InPath
<1>5. NoFaults' BY <1>1, SameFaults
<1>6. Grew(doc, doc') BY <1>0, <1>1, GrewSelf
<1> QED BY <1>0, <1>1, <1>3, <1>4, <1>5, <1>6, QuietKept

(* The neighbours' opinion: a batch of at most three changes.              *)
LEMMA ArchiveKept ==
  ASSUME EnrichInv, NEW fields, NEW sure, ProposeArchiveInput(fields, sure)
  PROVE  EnrichInv'
<1>0. doc \in DocRecs /\ job.asked \in DocRecs /\ Grew(job.asked, doc) /\ ReviewInv
  BY DEF EnrichInv, DocInv
<1>1. /\ rules' = rules /\ rt' = rt /\ saves' = saves /\ left' = left /\ shown' = shown
      /\ job' = [job EXCEPT !.at = "added"]
  BY DEF ProposeArchiveInput, settings, Goto
<1>2. "added" \notin Busy BY DEF Busy
<1>3. Quiet BY <1>1, <1>2, WorkQuiet
<1> DEFINE Agreed == opts.match /\ doc.live /\ doc.rev = job.asked.rev /\ near = job.near /\ seat
<1>4. CASE ~Agreed
  <2>1. doc' = doc /\ reviews' = reviews /\ move' = move /\ faults' = faults
    BY <1>4 DEF ProposeArchiveInput
  <2> QED BY <1>1, <1>3, <2>1, AsideKept
<1>5. CASE Agreed
  <2>1. PICK asked : asked = job.asked OBVIOUS
  <2> DEFINE Put(b, f) == IF f \in fields /\ doc.val[f] = 0
                          THEN Propose(b, f, job.asked, doc, near, sure) ELSE b
             acc == Put(Put(Put(NewBatch(doc, reviews), "cat"), "corr"), "tag")
  <2>2. /\ doc' = acc.d /\ reviews' = Proposed(acc) /\ move' = Queued(acc.moved)
        /\ faults' = faults \cup acc.bad
    BY <1>5 DEF ProposeArchiveInput
  <2>3. ASSUME NEW b \in Batches(asked, near), NEW f \in {"cat", "corr", "tag"}
        PROVE  Put(b, f) \in Batches(asked, near)
    <3>1. f \in Changeable /\ f # "title" BY DEF Changeable, Fields
    <3>2. Propose(b, f, asked, doc, near, sure) \in Batches(asked, near)
      BY <1>0, <2>1, <3>1, ProposeKeeps
    <3> QED BY <2>1, <3>2
  <2>4. NewBatch(doc, reviews) \in Batches(asked, near) BY <1>0, NewBatchKeeps
  <2>5. acc \in Batches(asked, near)
    <3> HIDE DEF Put
    <3>1. Put(NewBatch(doc, reviews), "cat") \in Batches(asked, near) BY <2>3, <2>4
    <3>2. Put(Put(NewBatch(doc, reviews), "cat"), "corr") \in Batches(asked, near) BY <2>3, <3>1
    <3> QED BY <2>3, <3>2
  <2>6. PICK b : b = acc OBVIOUS
  <2> HIDE DEF acc
  <2>7. b \in Batches(asked, near) BY <2>5, <2>6
  <2>8. \A r \in reviews' : ReviewShaped(r) /\ Knows(r, doc')
    BY <1>0, <2>1, <2>2, <2>6, <2>7, ProposedKnows
  <2>9. /\ Stays(doc, b.d) /\ b.d.live = doc.live /\ (~b.moved => b.d = doc)
        /\ b.bad \cap Kept = {} /\ b.bad \subseteq Changeable
    BY <2>7 DEF Batches
  <2>10. Changeable \cap Inputs = {} BY DEF Changeable, Fields, Inputs
  <2>11. NoFaults'
    BY <2>2, <2>6, <2>9, <2>10 DEF EnrichInv, NoFaults, Kept, Inputs
  <2>12. PathFollows'
    BY <1>1, <1>5, <2>2, <2>6, <2>9, PathKept DEF EnrichInv, Queued
  <2> QED BY <1>3, <2>2, <2>6, <2>8, <2>9, <2>11, <2>12, QuietKept DEF Stays
<1> QED BY <1>4, <1>5

(* The classifier's job.                                                   *)
LEMMA AskedKept ==
  ASSUME EnrichInv, TakeClassify \/ LoadClassify
  PROVE  EnrichInv'
<1>1. /\ rules' = rules /\ rt' = rt /\ saves' = saves /\ left' = left /\ shown' = shown /\ doc' = doc
      /\ reviews' = reviews /\ faults' = faults /\ move' = move
  BY DEF TakeClassify, LoadClassify, settings
<1>2. AnswerInv /\ PointerInv /\ DOMAIN job = JobParts BY DEF EnrichInv, AnswerInv
<1>3. CASE job' = Sleep
  <2>1. Quiet BY <1>1, <1>3, WorkQuiet
  <2> QED BY <1>1, <2>1, AsideKept
<1>4. CASE job' # Sleep
  <2>1. /\ job'.at \in {"load", "asking"} /\ job'.asked \in {job.asked, doc} /\ DOMAIN job' = JobParts
        /\ job'.ptr \in {job.ptr, rt.ptr} /\ job'.ptr # None
    <3>1. CASE TakeClassify
      <4>1. job' = [job EXCEPT !.at = "load", !.ptr = rt.ptr] /\ rt.ver # None
        BY <1>4, <3>1 DEF TakeClassify, JobDone
      <4> QED BY <1>2, <4>1 DEF JobParts, PointerInv
    <3>2. CASE LoadClassify
      <4>1. /\ job' = [job EXCEPT !.at = "asking", !.asked = doc, !.near = near, !.qs = Questions(doc)]
            /\ job.at = "load"
        BY <1>4, <3>2 DEF LoadClassify, JobFails
      <4>2. job.ptr # None BY <1>2, <4>1 DEF PointerInv
      <4> QED BY <1>2, <4>1, <4>2 DEF JobParts
    <3> QED BY <3>1, <3>2
  <2>2. AnswerInv' BY <1>1, <1>2, <2>1 DEF AnswerInv, Books, JobParts
  <2>3. Built' = Built BY <1>1 DEF Built, FirstRuntime
  <2>4. (Old(rt.ptr))' /\ (Old(job.ptr))'
    BY <1>1, <1>2, <2>1, <2>3 DEF PointerInv, Old, FirstRuntime
  <2>5. \A s \in saves' : s.mine \in Nat /\ s.mine > Built' /\ s.mine # rt'.ptr /\ s.mine # job'.ptr
    BY <1>1, <1>2, <2>1, <2>3 DEF PointerInv
  <2>6. PointerInv'
    BY <1>1, <1>2, <2>1, <2>4, <2>5 DEF PointerInv, None
  <2> QED BY <1>1, <2>1, <2>2, <2>6, BesideKept
<1> QED BY <1>3, <1>4

LEMMA ClassifyKept ==
  ASSUME EnrichInv, Classify
  PROVE  EnrichInv'
<1>1. /\ rules' = rules /\ rt' = rt /\ saves' = saves /\ left' = left /\ shown' = shown /\ doc' = doc
      /\ reviews' = reviews /\ faults' = faults /\ move' = move /\ job.at = "asking"
  BY DEF Classify, settings
<1>2. AnswerInv /\ PointerInv /\ DOMAIN job = JobParts BY DEF EnrichInv, AnswerInv
<1>3. CASE rt.ver = None
  <2>1. job' = Sleep BY <1>3 DEF Classify, JobDone
  <2>2. Quiet BY <1>1, <2>1, WorkQuiet
  <2> QED BY <1>1, <2>2, AsideKept
<1>4. CASE rt.ver # None
  <2>1. PICK a \in Answers :
          job' = [job EXCEPT !.at = "answered", !.by = rt.ptr, !.ans = ValidAnswer(a)]
    BY <1>4 DEF Classify
  <2>2. PICK v : v = ValidAnswer(a) OBVIOUS
  <2>3. /\ job'.at = "answered" /\ job'.by = rt.ptr /\ job'.ans = v /\ job'.asked = job.asked
        /\ job'.ptr = job.ptr /\ job'.qs = job.qs /\ DOMAIN job' = JobParts
    BY <1>2, <2>1, <2>2 DEF JobParts
  <2>4. a \in [fields: Seq(Changeable), yes: SUBSET Slots, sure: BOOLEAN, review: BOOLEAN,
               dates: SUBSET Dates]
    BY EnrichmentAssumption
  <2>5. v.fields \in Seq(Changeable) /\ v.yes \subseteq {q[1] : q \in job.qs}
    BY <2>2, <2>4 DEF ValidAnswer
  <2>6. AnswerInv' BY <1>1, <1>2, <2>3, <2>5 DEF AnswerInv, Books, JobParts, Changeable, Fields
  <2>7. Built' = Built /\ job.ptr # None
    BY <1>1, <1>2 DEF Built, FirstRuntime, PointerInv
  <2>8. (Old(rt.ptr))' /\ (Old(job.ptr))'
    BY <1>1, <1>2, <2>3, <2>7 DEF PointerInv, Old, FirstRuntime
  <2>9. \A s \in saves' : s.mine \in Nat /\ s.mine > Built' /\ s.mine # rt'.ptr /\ s.mine # job'.ptr
    BY <1>1, <1>2, <2>3, <2>7 DEF PointerInv
  <2>10. PointerInv'
    BY <1>1, <1>2, <2>3, <2>7, <2>8, <2>9 DEF PointerInv, None
  <2> QED BY <1>1, <2>3, <2>6, <2>10, BesideKept
<1> QED BY <1>3, <1>4

LEMMA FailedKept ==
  ASSUME EnrichInv, ClassifyFails
  PROVE  EnrichInv'
<1>1. /\ rules' = rules /\ rt' = rt /\ saves' = saves /\ shown' = shown /\ doc' = doc /\ Spend("fail")
      /\ reviews' = reviews /\ faults' = faults /\ move' = move /\ job' = Sleep
  BY DEF ClassifyFails, settings, JobFails
<1>2. AnswerInv /\ PointerInv /\ rules \in Books BY DEF EnrichInv, AnswerInv
<1>3. /\ left' \in [{"edit", "decide", "admin", "other", "fail"} -> Nat]
      /\ left'["admin"] = left["admin"] /\ left["admin"] \in Nat
  BY <1>1, <1>2, Spent DEF PointerInv
<1>4. left'["admin"] <= left["admin"] BY <1>3
<1>5. job'.at \notin Busy /\ job'.ptr = None /\ job'.asked = NewDoc /\ DOMAIN job' = JobParts
  BY <1>1 DEF Sleep, Busy, JobParts
<1>6. Quiet BY <1>1, <1>2, <1>3, <1>4, <1>5 DEF Quiet
<1> QED BY <1>1, <1>6, AsideKept

LEMMA CommitKept ==
  ASSUME EnrichInv, CommitAnswer
  PROVE  EnrichInv'
<1>0. DocInv /\ ReviewInv /\ AnswerInv /\ PointerInv /\ doc \in DocRecs /\ job.asked \in DocRecs
      /\ Grew(job.asked, doc)
  BY DEF EnrichInv, DocInv
<1>1. /\ rules' = rules /\ rt' = rt /\ saves' = saves /\ left' = left /\ shown' = shown
      /\ job' = Sleep /\ move' = Queued(TRUE) /\ job.at = "answered" /\ Usable
  BY DEF CommitAnswer, settings, JobDone
<1>2. Quiet BY <1>1, WorkQuiet
<1>3. PICK yes : yes = IF SameQuestions THEN job.ans.yes ELSE {} OBVIOUS
<1>4. PICK b : b = AnswerChanges(yes, job.ans.fields) OBVIOUS
<1>5. PICK mark : mark = NewMark(b.d, reviews', dates') OBVIOUS
<1>6. /\ reviews' = Proposed(b) /\ doc' = [b.d EXCEPT !.mark = mark]
      /\ faults' = faults \cup b.bad \cup {w \in {"model", "context", "question"} :
             CASE w = "model" -> job.by # rt.ptr
               [] w = "context" -> job.near # near \/ job.asked.rev["source"] # doc.rev["source"]
               [] OTHER -> yes # {} /\ ~(job.qs \subseteq {<<i, rules[i].shape>> : i \in Slots})}
  BY <1>3, <1>4, <1>5 DEF CommitAnswer
<1>7. /\ yes \in SUBSET Slots /\ \A i \in yes : Shape(i).acts \in Seq(Answerable)
      /\ yes # {} => job.qs \subseteq {<<i, rules[i].shape>> : i \in Slots}
  BY <1>0, <1>1, <1>3, AskersAct
<1>8. job.ans.fields \in Seq(Changeable) BY <1>0, <1>1 DEF AnswerInv
<1>9. b \in Batches(job.asked, job.near)
  BY <1>0, <1>4, <1>7, <1>8, AnswerChangesKeeps
<1>10. /\ Stays(doc, b.d) /\ b.d.live = doc.live /\ b.bad \cap Kept = {} /\ b.bad \subseteq Changeable
  BY <1>9 DEF Batches
<1>11. PICK e, d : e = b.d /\ d = doc' OBVIOUS
<1>12. mark \in {"off", "machine", "kept"}
  BY <1>5, <1>10 DEF NewMark, Stays, DocRecs
<1>13. /\ d \in DocRecs /\ d.val = e.val /\ d.rev = e.rev /\ d.said = e.said /\ d.owner = e.owner
  BY <1>6, <1>10, <1>11, <1>12 DEF Stays, DocRecs
<1>14. Grew(doc, d) BY <1>10, <1>11, <1>13 DEF Stays, Grew
<1>15. \A r \in reviews' : ReviewShaped(r) /\ Knows(r, d)
  <2>1. SUFFICES ASSUME NEW r \in reviews' PROVE ReviewShaped(r) /\ Knows(r, d) OBVIOUS
  <2>2. PICK a, s : a = job.asked /\ s = job.near OBVIOUS
  <2>3. ReviewShaped(r) /\ Knows(r, e)
    BY <1>0, <1>6, <1>9, <1>11, <2>2, ProposedKnows
  <2> QED BY <1>13, <2>3 DEF Knows
<1>16. job.by = rt.ptr /\ job.near = near /\ job.asked.rev["source"] = doc.rev["source"] /\ doc.live
  BY <1>0, <1>1 DEF Usable, PointerInv, NamingUnchanged, SameSource, Base
<1>17. faults' = faults \cup b.bad
  BY <1>6, <1>7, <1>16
<1>18. Changeable \cap Inputs = {} BY DEF Changeable, Fields, Inputs
<1>19. NoFaults'
  BY <1>10, <1>17, <1>18 DEF EnrichInv, NoFaults, Kept, Inputs
<1>20. PathFollows' BY <1>1, <1>16 DEF PathFollows, Queued
<1> QED BY <1>2, <1>11, <1>13, <1>14, <1>15, <1>19, <1>20, QuietKept

LEMMA WorkerKept ==
  ASSUME EnrichInv, Worker
  PROVE  EnrichInv'
  BY TakenKept, ReadKept, StoredKept, LanguageKept, RenderedKept, ArchiveKept, AskedKept, ClassifyKept,
     FailedKept, CommitKept
     DEF Worker

LEMMA EnrichStarting == EnrichInit => EnrichInv
<1> SUFFICES ASSUME EnrichInit PROVE EnrichInv OBVIOUS
<1>1. PICK start \in EnrichStarts :
    /\ doc = NewDoc /\ rules = start.rules /\ left = start.left
    /\ rt = [ver |-> FirstRuntime, ptr |-> FirstRuntime] /\ saves = {}
    /\ job = Sleep /\ reviews = {} /\ shown = PathOf(doc) /\ faults = {}
  BY DEF EnrichInit
<1>2. start.rules \in Books /\ start.left \in [{"edit", "decide", "admin", "other", "fail"} -> Nat]
  BY EnrichmentAssumption
<1>3. job.at = "idle" /\ job.ptr = None /\ job.asked = NewDoc /\ DOMAIN job = JobParts
  BY <1>1 DEF Sleep, JobParts
<1>4. DocInv BY <1>1, <1>3, NewDocTyped, GrewSelf DEF DocInv
<1>5. PointerInv
  BY <1>1, <1>2, <1>3 DEF PointerInv, Old, None, FirstRuntime
<1>6. ReviewInv /\ AnswerInv /\ NoFaults /\ PathFollows
  BY <1>1, <1>2, <1>3 DEF ReviewInv, AnswerInv, NoFaults, PathFollows
<1> QED BY <1>4, <1>5, <1>6 DEF EnrichInv

LEMMA EnrichStep == EnrichInv /\ [EnrichNext]_enrichVars => EnrichInv'
<1> SUFFICES ASSUME EnrichInv, [EnrichNext]_enrichVars PROVE EnrichInv' OBVIOUS
<1>1. CASE UNCHANGED enrichVars
  <2>1. /\ rules' = rules /\ job' = job /\ rt' = rt /\ saves' = saves /\ left' = left /\ doc' = doc
        /\ reviews' = reviews /\ faults' = faults /\ shown' = shown /\ move' = move
    BY <1>1 DEF enrichVars
  <2>2. Quiet BY <2>1, StillQuiet
  <2> QED BY <2>1, <2>2, AsideKept
<1>2. CASE EnrichNext
  BY <1>2, WorkerKept, HumanEditsKept, DecisionsKept, SettingsKept, RuleEditsKept, RunRuleKept, AroundKept,
     RestartKept
     DEF EnrichNext
<1> QED BY <1>1, <1>2

LEMMA EnrichAlways == EnrichSpec => []EnrichInv
  BY EnrichStarting, EnrichStep, PTL DEF EnrichSpec

(* What a person or a rule said is never overwritten by a late result of   *)
(* the machine: handler.go:173, document_change.go:260.                    *)
THEOREM EnrichPeopleWin == EnrichSpec => []PeopleWin
<1>1. EnrichInv => PeopleWin BY DEF EnrichInv, NoFaults, PeopleWin, Kept
<1> QED BY <1>1, EnrichAlways, PTL

(* An answer is stored only under the inputs that produced it, a date only *)
(* under its text: handler.go:139-160, intelligence.go:536.                *)
THEOREM EnrichAnswerIsCurrent == EnrichSpec => []AnswerIsCurrent
<1>1. EnrichInv => AnswerIsCurrent BY DEF EnrichInv, NoFaults, AnswerIsCurrent, Inputs
<1> QED BY <1>1, EnrichAlways, PTL

(* Every writer of a live document's fields queues its render:             *)
(* view.EnqueueMove.                                                       *)
THEOREM EnrichPathFollows == EnrichSpec => []PathFollows
<1>1. EnrichInv => PathFollows BY DEF EnrichInv
<1> QED BY <1>1, EnrichAlways, PTL

=============================================================================
