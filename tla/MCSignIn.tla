------------------------------ MODULE MCSignIn ------------------------------
EXTENDS SignIn, TLC

MCBounds == [all |-> 5, signins |-> 4, confirms |-> 1, enrols |-> 1, ends |-> 1,
             exchanges |-> 2, admin |-> 1, members |-> 2, restarts |-> 1]
AnyClient == Permutations(Clients)
=============================================================================
