CONSTANTS
    Clients = {c1, c2}
    Endpoint <- SharedEndpoint
    Conv <- OwnConv
    MaxSends <- Sends
    Keepalives <- SomeKeepalives
    Timeout = 5
    Late = 1
    Lag = 1
    MaxRestarts = 1
    MaxTime = 12
SPECIFICATION MCSpec
CHECK_DEADLOCK FALSE
INVARIANTS TableExact FedByOwner HealthyStaysOpen SilenceBounded OrphanStarves
PROPERTIES ZombiesEnd
