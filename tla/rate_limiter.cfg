CONSTANTS
    Costs = {0, 3}
    Capacities = {0, 3, 6}
    Hair = 1
    Lag = 1
    MaxCalls = 5
    Horizon = 12
SPECIFICATION Spec
INVARIANTS
    TypeOK
    WindowBound
PROPERTIES
    WaitsOnlyWhenSpent
    CallsAnswered
