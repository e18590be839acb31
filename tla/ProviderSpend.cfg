SPECIFICATION FairSpec
CONSTANTS
    p1 = p1
    p2 = p2
    g1 = g1
    g2 = g2
    t1 = t1
    t2 = t2
    NoProposal = NoProposal
    Unloaded = Unloaded
    Proposals <- MCProposals
    Grants <- MCGrants
    Tasks <- MCTasks
    MaxRequests = 2
    MaxCost = 2
    PerCall = 2
    Charges = {1, 2}
    MaxAttempt = 1
    MaxBackoffs = 1
    MaxBilled = 1
    MaxTrouble = 2
CHECK_DEADLOCK FALSE
INVARIANTS
  SpendInv
  CallsAuthorized
PROPERTIES
  ParksWake
