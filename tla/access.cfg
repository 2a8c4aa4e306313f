CONSTANTS
  ann = ann
  home = home
  Elsewhere = work
  d1 = d1
  d2 = d2
  Boss = boss
  Users = {ann, boss}
  Systems = {home}
  NoSystem = none
  CapSets <- MCCapSets
  Docs = {d1, d2}
  Owner <- MCOwner
  SystemOf <- MCSystemOf
  Groups = {g1}
  Clients = {c1, c2}
  MaxViews = 1
  MaxFlows = 2
  MaxFlowsPerUser = 1
  Bounds <- MCBounds
SYMMETRY AnyClient
SPECIFICATION Spec
INVARIANTS DecisionsAgree  LinkShowsNoMore FlowEndsWithSeat
CHECK_DEADLOCK FALSE
