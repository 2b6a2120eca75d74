SPECIFICATION FairSpec
CONSTANTS
    b1 = b1  b2 = b2  b3 = b3  none = none
    g1 = g1  g2 = g2  p1 = p1  p2 = p2  p3 = p3
    NoBeam = none
    Gateways <- MCGateways
    Beams <- MCBeams
    Existing <- MCExisting
    GwOf <- MCGwOf
    Positions <- MCPositions
    Valid <- MCValid
    Best <- MCBest
    PendingInit <- MCNotPending
    RaModel <- MCBothTechniques
    MaxLoss <- MCLossHr
    UseLogon = FALSE
    MaxHandoverMessages = 1
    Populated <- MCPopulated
    Offset = 2
    HandoverDelay = FALSE
    MaxHr = 1
    Prompt = TRUE
    Aligned = TRUE
INVARIANTS NoFatal ExactlyOneBeam UtFollowsNcc NoDataInForeignSlots
PROPERTIES HandoverCompletes
