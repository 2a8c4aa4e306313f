SPECIFICATION Spec
SYMMETRY Interchangeable
CONSTANTS
  d1 = d1
  d2 = d2
  lower = lower
  upper = upper
  other = other
  b1 = b1
  b2 = b2
  NoPath = NoPath
  NoBlob = NoBlob
  NoLink = NoLink
  NoDoc = NoDoc
  Docs = {d1, d2}
  Paths = {lower, upper, other}
  Blobs = {b1, b2}
  Settings <- Archives
INVARIANTS RenderedWhenQuiet PurgedLinksGone
PROPERTIES OnlyOwnerTouchesLink
CHECK_DEADLOCK FALSE
