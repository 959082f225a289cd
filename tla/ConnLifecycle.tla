--------------------------- MODULE ConnLifecycle ---------------------------
(***************************************************************************)
(* What a connection pool promises, with no channel, semaphore or          *)
(* goroutine: a connection is absent, in the pool, or lent to one client.  *)
(* It is lent only out of the pool or when it is new, it is closed only    *)
(* while nobody has it, and at most Capacity connections exist.            *)
(***************************************************************************)
EXTENDS Naturals, FiniteSets

CONSTANTS
    Clients,   \* who can have a connection
    Conns,     \* the connections
    Capacity,  \* how many may exist at once
    Absent,    \* the connection does not exist
    Pooled     \* it exists and nobody has it

VARIABLE owner   \* Absent, Pooled, or the client the connection is lent to

Existing == {c \in Conns : owner[c] # Absent}

Init == owner = [c \in Conns |-> Absent]

\* A new connection, for a client or for the pool.
Create(c, who) ==
    /\ owner[c] = Absent
    /\ Cardinality(Existing) < Capacity
    /\ owner' = [owner EXCEPT ![c] = who]

Lend(c, p) == owner[c] = Pooled /\ owner' = [owner EXCEPT ![c] = p]

Return(c) == owner[c] \in Clients /\ owner' = [owner EXCEPT ![c] = Pooled]

Destroy(c) == owner[c] = Pooled /\ owner' = [owner EXCEPT ![c] = Absent]

Next == \E c \in Conns :
    \/ \E who \in Clients \cup {Pooled} : Create(c, who)
    \/ \E p \in Clients : Lend(c, p)
    \/ Return(c)
    \/ Destroy(c)

Spec == Init /\ [][Next]_owner
=============================================================================
