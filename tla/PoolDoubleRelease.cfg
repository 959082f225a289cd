\* A client that calls Release twice, and another one.
SPECIFICATION Spec
CONSTANTS
    p1 = p1  p2 = p2  p3 = p3  w1 = w1  k1 = k1  k2 = k2  c1 = c1  c2 = c2  c3 = c3
    HC = HC  None = None
    Clients <- TwoClients
    Warmers <- Nobody
    Closers <- Nobody
    Conns <- TwoConns
    Patient <- Nobody
    Keepers <- OneClient
    MaxSize = 2
    MinSize = 1
    HealthCheck = FALSE
    Perishable = TRUE
    FactoryFails = TRUE
INVARIANT
    ExclusiveUse
