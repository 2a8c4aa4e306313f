SPECIFICATION MailFairSpec
CONSTANTS
  inbox = inbox
  bills = bills
  atInbox = atInbox
  atBills = atBills
  m1 = m1
  m2 = m2
  m3 = m3
  m4 = m4
  Boxes = {inbox, bills}
  FirstSource = atInbox
  Sources = {atInbox, atBills}
  BoxOf <- TwoFolders
  Horizon <- Everything
  FirstVal <- OwnNumbering
  Msgs = {m1, m2, m3, m4}
  HasFiles = {m2}
  Big = {m4}
  Nameless = {m2}
  Policies <- OnePolicy
  Tidyings = {"move"}
  Batch = 2
  MaxUid = 3
  MaxVal = 4
  Callers = {r1}
  Booter = r1
  MailBounds <- PollBounds
  NoMsg = NoMsg
  NoRow = NoRow
  NoWatcher = NoWatcher
  Free = Free
INVARIANTS NothingPassedOver 
PROPERTIES EventuallyFiled
CHECK_DEADLOCK FALSE
