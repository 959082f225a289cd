\* Two clients, one of them patient, a warmer, a busy health check and two Close calls.
SPECIFICATION FairSpec
CONSTANTS
    p1 = p1  p2 = p2  p3 = p3  w1 = w1  k1 = k1  k2 = k2  c1 = c1  c2 = c2  c3 = c3
    HC = HC  None = None
    Clients <- TwoClients
    Warmers <- OneWarmer
    Closers <- TwoClosers
    Conns <- TwoConns
    Patient <- OneClient
    Keepers <- Nobody
    MaxSize = 2
    MinSize = 1
    HealthCheck = TRUE
    Perishable = TRUE
    FactoryFails = TRUE
INVARIANTS
    TypeOK
    SlotAccounting
    CloseIsOrderly
    ExclusiveUse
PROPERTIES
    Lifecycle
    CallsEnd
