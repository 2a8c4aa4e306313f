-------------------------- MODULE MCJobDispatcher --------------------------
(* A small instance of JobDispatcher for TLC.                              *)
EXTENDS JobDispatcher

CONSTANTS known, unknown,  \* a kind with subscribers and one without
          d1

(* Two subscribers of one kind, none of the other.                         *)
TwoSubscribers == [k \in {known, unknown} |-> IF k = known THEN 2 ELSE 0]

(* Jobs without documents, with everything else that may happen to them;   *)
(* and jobs of a document that is purged.                                  *)
WithAndWithoutPurge == {
  [docs |-> {}, restarts |-> 1, requeues |-> 1],
  [docs |-> {d1}, restarts |-> 0, requeues |-> 0]}

=============================================================================
