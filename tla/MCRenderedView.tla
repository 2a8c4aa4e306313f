--------------------------- MODULE MCRenderedView ---------------------------
(* Instances of RenderedView for TLC.                                      *)
EXTENDS RenderedView, TLC

CONSTANTS d1, d2, lower, upper, other, b1, b2

(* Explicit templates may omit the document's identity: both documents can *)
(* be filed under the same two paths.                                      *)
SharedTargets == [d \in {d1, d2} |-> {lower, upper}]

(* Default templates end in the document's number.                         *)
OwnTargets(c) == [d \in {d1, d2} |-> IF d = c THEN {lower, upper} ELSE {other}]

(* upper is another spelling of lower, or a path of its own.               *)
Folded == [p \in {lower, upper, other} |-> IF p = upper THEN lower ELSE p]
Exact == [p \in {lower, upper, other} |-> p]

(* Two paths; two spellings of one path, on a filesystem that folds case   *)
(* and on one that does not; paths of each document's own.  Each with the  *)
(* fault that matters there.                                               *)
Archives ==
  { [targets |-> SharedTargets, key |-> Exact, entry |-> Exact,
     edits |-> 2, faults |-> 0, losses |-> 1],
    [targets |-> SharedTargets, key |-> Folded, entry |-> Folded,
     edits |-> 2, faults |-> 1, losses |-> 0],
    [targets |-> SharedTargets, key |-> Folded, entry |-> Exact,
     edits |-> 2, faults |-> 0, losses |-> 0] }
  \cup {[targets |-> OwnTargets(c), key |-> Exact, entry |-> Exact,
         edits |-> 2, faults |-> 1, losses |-> 0] : c \in {d1, d2}}

(* The set of archives distinguishes neither documents nor blobs.          *)
Interchangeable == Permutations({d1, d2}) \cup Permutations({b1, b2})

=============================================================================
