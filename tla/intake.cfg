SPECIFICATION Spec
CONSTANTS
  batch = batch
  part1 = part1
  part2 = part2
  derived = derived
  Users = {u1, u2}
  Shares <- Household
  Blobs <- AllBlobs
  Segments <- ScanSegments
  Archives <- ScanArchives
  Uploaded <- Files
  Dropped <- Scans
  Keys = {k1}
  Slots = {r1, r2}
  Retention = 1
  MaxDocs = 4
  MaxNow = 2
  Bounds <- SmallBounds
  NoRow = NoRow
  NoBlob = NoBlob
  NoKey = NoKey
  NoReceipt = NoReceipt
  NoUser = NoUser
SYMMETRY Interchangeable
INVARIANTS  NoDocumentWithoutBytes PartsFiledOnce
PROPERTIES AnswerHoldsBytes
CHECK_DEADLOCK FALSE
