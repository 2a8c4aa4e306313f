SPECIFICATION FairSpec
CONSTANTS
  known = known
  unknown = unknown
  NoDoc = NoDoc
  NoRow = NoRow
  d1 = d1
  Docs = {d1}
  Starts <- WithAndWithoutPurge
  Kinds = {known, unknown}
  Subscribers <- TwoSubscribers
  MaxAttempts = 2
  FinalizationAttempts = 2
  Batch = 2
  BaseBackoff = 1
  MaxBackoff = 1
  DoneRetention = 0
  PruneInterval = 1
  Horizon = 1
  MaxId = 2
  MaxEnqueues = 2
  MaxRestarts = 1
  MaxRequeues = 1
INVARIANTS HeldIsRunning DoneOnlyIfHandled
PROPERTIES ImplementsOutbox EventuallySettled
