SPECIFICATION FairSpec
CONSTANTS
    None = None
    Obstacle = Obstacle
    m1 = m1
    m2 = m2
    own1 = own1
    own2 = own2
    Materialization = {m1, m2}
    Location = {l}
    Bytes = {own1, own2}
    PayloadOf <- Payloads
    Command = {c1, c2}
    Leftover = {m1}
    MaxInterference = 1
INVARIANTS
    DeliveredWasWitnessed
    OneOpenAttempt
    ConflictMeansDivergence
PROPERTIES
    DestinationFollowsRecord
    ImplementsLedger
    LiveAttemptsClose
CHECK_DEADLOCK FALSE
