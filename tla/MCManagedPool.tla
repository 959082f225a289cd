--------------------------- MODULE MCManagedPool ---------------------------
\* Instances of ManagedPool for TLC.
EXTENDS ManagedPool, TLC

CONSTANTS p1, p2, p3, w1, k1, k2, c1, c2, c3

OneClient == {p1}
TwoClients == {p1, p2}
ThreeClients == {p1, p2, p3}
OneWarmer == {w1}
OneCloser == {k1}
TwoClosers == {k1, k2}
TwoConns == {c1, c2}
ThreeConns == {c1, c2, c3}
Nobody == {}

\* Clients that are treated alike, and connections, are interchangeable.
Symmetry == Permutations(Clients) \cup Permutations(Conns) \cup Permutations(Closers)

\* Who waits in the pool is served: Close for the health check, clients for a connection
\* unless a slot is free that nobody told them of (managed.go:246-270, 304-327).
CallsEnd == CloseReturns /\ WaiterServed
=============================================================================
