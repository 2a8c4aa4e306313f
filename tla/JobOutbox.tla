----------------------------- MODULE JobOutbox -----------------------------
(***************************************************************************)
(* What the durable outbox promises about one unit of asynchronous work,   *)
(* as the head comments of core/jobs/jobs.go state it: a submitted job is  *)
(* handed to its handlers, is settled as done only after they succeeded,   *)
(* may be handed out again (at-least-once), and is forgotten only once it  *)
(* is settled.  Rows, ids, batches, backoff and restarts are invisible     *)
(* here; JobDispatcher implements this module.                             *)
(***************************************************************************)
CONSTANTS Jobs   \* every job that is ever submitted

VARIABLES status,   \* how far each job is
          handled   \* the jobs that one run of their handlers completed

States == {"absent", "pending", "running", "done", "dead", "gone"}

(* The moves a job may make while its handlers have not completed; several *)
(* jobs move in one step when a batch is claimed or reclaimed.             *)
Moves(j) ==
  {<<"absent", "pending">>, <<"pending", "running">>, <<"running", "pending">>,
   <<"running", "dead">>, <<"dead", "pending">>, <<"dead", "gone">>,
   <<"done", "gone">>}
  \cup (IF j \in handled THEN {<<"running", "done">>} ELSE {})

Init ==
  /\ status = [j \in Jobs |-> "absent"]
  /\ handled = {}

(* A job's handlers complete while it is running.                          *)
Complete(j) ==
  /\ status[j] = "running"
  /\ handled' = handled \cup {j}
  /\ UNCHANGED status

Move ==
  /\ status' \in [Jobs -> States]
  /\ \A j \in Jobs : status'[j] # status[j] =>
       <<status[j], status'[j]>> \in Moves(j)
  /\ UNCHANGED handled

Next == Move \/ \E j \in Jobs : Complete(j)

Spec == Init /\ [][Next]_<<status, handled>>

=============================================================================
