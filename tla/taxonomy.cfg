SPECIFICATION TaxSpec
CONSTANTS
  d1 = d1
  d2 = d2
  DocIds <- MCDocs
  Ids = {1, 2, 3}
  Names = {"x", "y", "z"}
  Templates <- MCTemplates
  Rules = {"r"}
  Codes <- MCCodes
  Inbox = 49
  FilingSets <- MCFilingSets
  MaxFilingSets = 5
  SystemCodes = {"A01", "B02"}
  Options = {"a", "b"}
  Starts <- MCStarts
INVARIANTS   TagsFormAForest
CHECK_DEADLOCK FALSE
