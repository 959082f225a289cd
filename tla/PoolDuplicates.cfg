\* Clients that release twice, a warmer, a Close and the health check.
SPECIFICATION Spec
CONSTANTS
    p1 = p1  p2 = p2  p3 = p3  w1 = w1  k1 = k1  k2 = k2  c1 = c1  c2 = c2  c3 = c3
    HC = HC  None = None
    Clients <- TwoClients
    Warmers <- OneWarmer
    Closers <- OneCloser
    Conns <- ThreeConns
    Patient <- Nobody
    Keepers <- TwoClients
    MaxSize = 2
    MinSize = 1
    HealthCheck = TRUE
    Perishable = TRUE
    FactoryFails = TRUE
SYMMETRY Symmetry
INVARIANTS
    OnePlace
    NoLeak
