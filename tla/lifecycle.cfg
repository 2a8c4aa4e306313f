SPECIFICATION Spec
CONSTANTS
  p1 = p1
  p2 = p2
  r1 = r1
  r2 = r2
  Reqs <- MCReqs
  NoProc = NoProc
  Procs <- MCProcs
  Builds <- MCBuilds
  Keep = 1
  MaxIds = 3
  Starts <- MCStarts
INVARIANTS ListedIsRestorable BetaIsKept 
CHECK_DEADLOCK FALSE
