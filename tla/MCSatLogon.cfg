SPECIFICATION FairSpec
CONSTANTS
    b1 = b1  b2 = b2  b3 = b3  none = none
    g1 = g1  g2 = g2  p1 = p1  p2 = p2  p3 = p3
    NoBeam = none
    Gateways <- MCGateways
    Beams <- MCTwo
    Existing <- MCTwo
    GwOf <- MCGwOfTwo
    Positions <- MCTwoPositions
    Valid <- MCValidTwo
    Best <- MCBestTwo
    PendingInit <- MCNotPending
    RaModel <- MCAloha
    MaxLoss <- MCLossLogon
    UseLogon = TRUE
    MaxHandoverMessages = 0
    Populated <- MCEmpty
    Offset = 2
    HandoverDelay = TRUE
    MaxHr = 1
    Prompt = TRUE
    Aligned = TRUE
INVARIANTS UnheldUtIsAsking
PROPERTIES NeverForgotten LogonSucceeds
CHECK_DEADLOCK FALSE
