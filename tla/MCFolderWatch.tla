---------------------------- MODULE MCFolderWatch ----------------------------
EXTENDS FolderWatch

CONSTANTS f1, f2, r1, r2

MCFiles == {f1, f2}
MCBytes == {"a", "b"}
MCBig == {"b"}
MCSidecars == {"plain", "field", "number", "bad"}
MCOwners == {"ann", "ben"}
Home == [dir |-> "scans", owner |-> "ann", system |-> "S01"]
Office == [dir |-> "scans", owner |-> "ben", system |-> "S02"]
Locked == [dir |-> "locked", owner |-> "ann", system |-> "S01"]
MCConfigs == {Home, Office, Locked}
MCOff == [dir |-> "", owner |-> "", system |-> "S01"]
MCRequests == {r1, r2}

Budget == [news |-> 0, edits |-> 0, sides |-> 0, hiccups |-> 0, fields |-> 0, owners |-> 0, docs |-> 0,
           saves |-> 0, interrupts |-> 0, crashes |-> 0]
Empty == [bytes |-> NoBytes, ino |-> 1, stamp |-> 1, young |-> FALSE, side |-> NoSide, sidestamp |-> 0]
Laid(b, s) == [Empty EXCEPT !.bytes = b, !.side = s, !.sidestamp = 1]
Base == [disk |-> [f \in MCFiles |-> Empty], left |-> Budget, settings |-> Home,
         limit |-> "large", field |-> FALSE]

MCStarts == {
  \* One file rewritten and replaced with its sidecar while it is read.
  [Base EXCEPT !.disk[f1] = Laid("a", "plain"), !.left.edits = 1, !.left.sides = 1],
  [Base EXCEPT !.disk[f1] = Laid("a", "plain"), !.left.edits = 1, !.left.news = 1],
  \* A sidecar names a field that is defined and deleted; failures in between.
  [Base EXCEPT !.disk[f1] = Laid("a", "field"), !.left.fields = 2, !.left.hiccups = 1,
               !.left.sides = 1, !.left.crashes = 1],
  [Base EXCEPT !.disk[f1] = Laid("a", "bad"), !.left.sides = 1, !.left.fields = 1, !.left.crashes = 1],
  \* Two files: the same number, one too big.
  [Base EXCEPT !.disk[f1] = Laid("a", "number"), !.disk[f2] = Laid("b", "number"),
               !.left.docs = 1, !.left.crashes = 1],
  \* Documents filed before are trashed, split, purged; their file comes back.
  [Base EXCEPT !.disk[f1] = Laid("a", NoSide), !.left.docs = 2, !.left.edits = 1, !.left.owners = 1],
  \* Settings are changed.
  [Base EXCEPT !.disk[f1] = Laid("a", NoSide), !.left.saves = 2, !.left.owners = 1,
               !.left.interrupts = 1],
  [Base EXCEPT !.left.saves = 2, !.left.owners = 1, !.left.interrupts = 1, !.left.crashes = 1]}
=============================================================================
