SPECIFICATION FolderSpec
CONSTANTS
  f1 = f1
  f2 = f2
  r1 = r1
  r2 = r2
  NoRequest = NoRequest
  NoFile = NoFile
  Files <- MCFiles
  Bytes <- MCBytes
  Big <- MCBig
  Sidecars <- MCSidecars
  Owners <- MCOwners
  Configs <- MCConfigs
  Off <- MCOff
  Unreadable = {"locked"}
  Savers <- MCRequests
  Starts <- MCStarts
INVARIANT FiledAsTheyLay
 
PROPERTY EventuallyFiled
CHECK_DEADLOCK FALSE
