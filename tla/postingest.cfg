SPECIFICATION Spec
CONSTANTS
  Ids <- MCIds
  JobIds <- MCJobIds
  File <- MCFile
  Users = {"u", "v"}
  Kinds = {"content", "llm"}
  Sample = 1
  Attempts = 2
  Starts <- MCStarts
 
PROPERTIES RetiredOnlyWhenFiled AskedOnce
CHECK_DEADLOCK FALSE
