SPECIFICATION Spec
CONSTANTS
  Flow <- AskAndFile
  Docs = {d1, d2}
  Sessions = {s1}
  MaxAttempts = 2
  MaxRuns = 2
  MaxRev = 2
  Bounds <- OneMishap
  NoRun = NoRun
  NoWork = NoWork
SYMMETRY DocSymmetry
INVARIANTS OpenTaskIsCurrent 
PROPERTIES DecisionStands ChangeIsAuthorized
