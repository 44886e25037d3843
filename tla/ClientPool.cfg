CONSTANTS
    Configs <- PoolConfigs
    Convs = {k1, k2, k3}
    Wrap = 3
    MaxConns = 3
    MaxTime = 3
SYMMETRY ConvSymmetry
SPECIFICATION Spec
CHECK_DEADLOCK FALSE
INVARIANTS EstabExact ReceivePending LifetimeBounded
