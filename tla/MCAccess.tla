------------------------------ MODULE MCAccess ------------------------------
EXTENDS Access, TLC

CONSTANTS ann, home, d1, d2

MCOwner == d1 :> ann @@ d2 :> Boss
MCSystemOf == d1 :> home @@ d2 :> home
MCCapSets == {{}, Caps}
MCBounds == [admin |-> 2, use |-> 2]
AnyClient == Permutations(Clients)
=============================================================================
