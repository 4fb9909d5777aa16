CONSTANTS
    Workers = {w1, w2}
    Conns = {0}
    Messages <- Commands
    Filtered = {}
    Self = 2
    Routes <- GatewayRoutes
    Paced = FALSE
    MaxArrivals = 2
SPECIFICATION Spec
INVARIANT HandledAsSent
CHECK_DEADLOCK FALSE
