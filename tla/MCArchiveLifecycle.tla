------------------------- MODULE MCArchiveLifecycle -------------------------
EXTENDS ArchiveLifecycle

CONSTANTS p1, p2, r1, r2

MCProcs == {p1, p2}
MCReqs == {r1, r2}
Older == [target |-> 1, set |-> <<"x">>]
Newer == [target |-> 2, set |-> <<"x", "y">>]
Forked == [target |-> 2, set |-> <<"z">>]
MCBuilds == {Older, Newer, Forked}

Budget == [opens |-> 0, writes |-> 0, kills |-> 0, power |-> 0, prefs |-> 0, snapshots |-> 0,
           failures |-> 0, restores |-> 0]
Beta == [NoDb EXCEPT !.line = "beta", !.ver = 1, !.data = 1]
Ready == [NoDb EXCEPT !.line = "stable", !.ver = 1, !.data = 1, !.hist = <<"x">>]
Base == [db |-> NoDb, left |-> Budget]

MCStarts == {
  \* A new archive, upgrades and downgrades.
  [Base EXCEPT !.left.opens = 3, !.left.kills = 2, !.left.power = 1, !.left.writes = 1],
  [Base EXCEPT !.db.line = "odd", !.left.opens = 1],
  \* A beta is adopted.
  [Base EXCEPT !.db = Beta, !.left.opens = 3, !.left.kills = 1, !.left.power = 1, !.left.writes = 1],
  \* Snapshots, their retention and restore.
  [Base EXCEPT !.db = Ready, !.left.opens = 2, !.left.snapshots = 3, !.left.kills = 1,
               !.left.failures = 1],
  [Base EXCEPT !.db = Ready, !.left.opens = 2, !.left.snapshots = 3, !.left.power = 1],
  [Base EXCEPT !.db = Ready, !.left.opens = 2, !.left.snapshots = 1, !.left.kills = 2,
               !.left.writes = 1, !.left.restores = 1],
  \* Preferences change.
  [Base EXCEPT !.db = Ready, !.left.opens = 1, !.left.snapshots = 1, !.left.prefs = 3],
  [Base EXCEPT !.db = Ready, !.left.opens = 2, !.left.kills = 1, !.left.prefs = 1]}
=============================================================================
