-------------------------- MODULE MCDocumentIntake --------------------------
(***************************************************************************)
(* A small instance of DocumentIntake.                                     *)
(***************************************************************************)
EXTENDS DocumentIntake, TLC

CONSTANTS batch, part1, part2, derived

(* A scan with one separator page, whose parts may come on their own; OCR  *)
(* may give the second part an archive form with the bytes of no document. *)
Scans == {batch}
Files == {batch, part1, part2}
AllBlobs == Files \cup {derived}
ScanSegments ==
  [b \in Blobs |-> IF b = batch THEN <<part1, part2>> ELSE <<>>]
ScanArchives == [b \in Blobs |-> IF b = part2 THEN {derived} ELSE {}]

None == [what \in Kinds |-> 0]
SmallBounds == {
  \* Uploads of plain files, and uploads with a key, race edits; jobs wait.
  [None EXCEPT !["uploads"] = 3, !["edits"] = 2],
  [None EXCEPT !["keyed"] = 2, !["uploads"] = 1, !["edits"] = 1],
  \* An upload, of the scan or a part, and the watched folder bring the scan;
  \* jobs run and die.
  [None EXCEPT !["scans"] = 1, !["drops"] = 1, !["edits"] = 1, !["jobs"] = 3, !["stops"] = 1],
  [None EXCEPT !["scans"] = 1, !["edits"] = 3, !["jobs"] = 2],
  [None EXCEPT !["uploads"] = 1, !["drops"] = 1, !["edits"] = 1, !["jobs"] = 3, !["stops"] = 1]}

(* Everyone can change everyone's documents.                               *)
Household == Users \X Users

(* Requests and the users of a household are interchangeable.              *)
Interchangeable == Permutations(Slots) \cup Permutations(Users)
=============================================================================
