CONSTANTS
    Workers = {w1, w2}
    Conns = {0, 1}
    Messages <- Traffic
    Filtered = {1}
    Self = 2
    Routes <- GatewayRoutes
    Paced = TRUE
    MaxArrivals = 2
SYMMETRY Symmetry
SPECIFICATION Spec
INVARIANTS TypeOK HandledAsSent PayloadIndexInBounds
CHECK_DEADLOCK FALSE
