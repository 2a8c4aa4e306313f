---------------------------- MODULE MCApprovals ----------------------------
(* The approvals engine with one registered definition for TLC.           *)
EXTENDS Approvals, TLC

(* Ask, remind on a timeout, file when approved: a second visit to "ask"  *)
(* is one timeout away                                                     *)
AskAndFile ==
  [start  |-> "ask",
   states |-> [ask  |-> [kind |-> "approve", choices |-> {"approve", "reject"}, timed |-> TRUE,
                         on |-> [approve |-> "file", reject |-> "end", timeout |-> "ask"]],
               file |-> [kind |-> "system", choices |-> {}, timed |-> FALSE,
                         on |-> [success |-> "end"]],
               end  |-> [kind |-> "end", choices |-> {}, timed |-> FALSE, on |-> <<>>]]]

OneMishap == [starts |-> 1, acts |-> 1, mishaps |-> 1]
DocSymmetry == Permutations(Docs)
=============================================================================
