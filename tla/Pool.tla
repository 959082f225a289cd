-------------------------------- MODULE Pool --------------------------------
(***************************************************************************)
(* stage2/06-connection-pool/pool/pool.go: the basic pool, the forerunner  *)
(* of ManagedPool.  It has no wrapper around a connection, no health check *)
(* and no warm-up, and its Release closes connections without taking their *)
(* tokens out of the semaphore.                                            *)
(***************************************************************************)
EXTENDS Integers, Sequences, FiniteSets, Functions

CONSTANTS
    Clients,       \* goroutines that call Acquire and Release
    Closers,       \* goroutines that call Close
    Conns,         \* identities of connections
    NoConn,          \* no connection in hand
    PoolSize,       \* Config.MaxSize
    Breakable,     \* IsValid may answer false
    FactoryFails,  \* the factory may return an error
    Patient        \* clients whose ctx is never done

Procs == Clients \cup Closers

ASSUME PoolAssumption ==
    /\ PoolSize \in Nat \ {0}
    /\ {Breakable, FactoryFails} \subseteq BOOLEAN
    /\ NoConn \notin Conns /\ Clients \cap Closers = {} /\ Patient \subseteq Clients

VARIABLES
    closed,    \* p.closed
    chClosed,  \* close(p.conns) has run
    crashed,   \* an unrecovered panic has ended the process
    idle,      \* contents of the channel p.conns
    sem,       \* len(p.semaphore)
    open,      \* the connections created and not closed
    pc, hand   \* where a goroutine is, and the connection it works with

poolVars == <<closed, chClosed, crashed, idle, sem, open, pc, hand>>
shared == <<closed, chClosed, crashed, idle, sem, open>>

PoolInit ==
    /\ closed = FALSE /\ chClosed = FALSE /\ crashed = FALSE
    /\ idle = <<>> /\ sem = 0 /\ open = {}
    /\ pc = [p \in Procs |-> IF p \in Clients THEN "out" ELSE "closeOut"]
    /\ hand = [p \in Clients |-> NoConn]

Goto(p, label) == pc' = [pc EXCEPT ![p] = label]
Hold(p, c) == hand' = [hand EXCEPT ![p] = c]
Validities == IF Breakable THEN BOOLEAN ELSE {TRUE}
Fresh(c) == c \notin open /\ \A p \in Clients : hand[p] # c
Panic == crashed' = TRUE /\ UNCHANGED <<closed, chClosed, idle, sem, open, pc, hand>>

\* Faulty variant: one token too many.
HasSlotOffByOne == sem <= PoolSize
HasSlot == sem < PoolSize

Room == Len(idle) < PoolSize

FreeSlot(p, from, label) ==
    /\ pc[p] = from /\ sem > 0
    /\ sem' = sem - 1
    /\ Goto(p, label)
    /\ UNCHANGED <<closed, chClosed, crashed, idle, open, hand>>

-----------------------------------------------------------------------------
AcquireCheck(p) ==
    /\ pc[p] = "out"
    /\ ~closed
    /\ Goto(p, "tryIdle")
    /\ UNCHANGED <<shared, hand>>

\* A receive from p.conns and conn.IsValid(); the closed and drained channel
\* yields nil, whose IsValid panics.
Receive(p) ==
    IF idle = <<>> THEN Panic
    ELSE /\ idle' = Tail(idle)
         /\ \E valid \in Validities :
              IF valid
              THEN Hold(p, Head(idle)) /\ Goto(p, "use") /\ UNCHANGED open
              ELSE open' = open \ {Head(idle)} /\ Goto(p, "free") /\ UNCHANGED hand
         /\ UNCHANGED <<closed, chClosed, crashed, sem>>

AcquireTryIdle(p) ==
    /\ pc[p] = "tryIdle"
    /\ IF idle # <<>> \/ chClosed THEN Receive(p)
       ELSE Goto(p, "trySlot") /\ UNCHANGED <<shared, hand>>

AcquireTrySlot(p) ==
    /\ pc[p] = "trySlot"
    /\ IF HasSlot THEN sem' = sem + 1 /\ Goto(p, "create")
       ELSE Goto(p, "wait") /\ UNCHANGED sem
    /\ UNCHANGED <<closed, chClosed, crashed, idle, open, hand>>

AcquireCreate(p) ==
    /\ pc[p] = "create"
    /\ \E c \in Conns : Fresh(c) /\ open' = open \cup {c} /\ Hold(p, c)
    /\ Goto(p, "use")
    /\ UNCHANGED <<closed, chClosed, crashed, idle, sem>>

AcquireFactoryFails(p) == FactoryFails /\ FreeSlot(p, "create", "out")

AcquireWait(p) == pc[p] = "wait" /\ (idle # <<>> \/ chClosed) /\ Receive(p)

AcquireTimeout(p) ==
    /\ pc[p] = "wait" /\ p \notin Patient
    /\ Goto(p, "out")
    /\ UNCHANGED <<shared, hand>>

\* Faulty variant: the retry gives back the token and its own slot again.
AcquireRetryTwice(p) ==
    /\ pc[p] = "free"
    /\ sem' = IF sem > 1 THEN sem - 2 ELSE 0
    /\ Goto(p, "again")
    /\ UNCHANGED <<closed, chClosed, crashed, idle, open, hand>>
\* <-p.semaphore after conn.Close(), and p.Acquire(ctx) again.
AcquireRetry(p) == FreeSlot(p, "free", "again")

AcquireAgain(p) ==
    /\ pc[p] = "again"
    /\ Goto(p, IF closed THEN "out" ELSE "tryIdle")
    /\ UNCHANGED <<shared, hand>>

\* The test of p.closed.
ReleaseCheck(p) ==
    /\ pc[p] = "use"
    /\ IF closed
       THEN open' = open \ {hand[p]} /\ Hold(p, NoConn) /\ Goto(p, "out")
       ELSE Goto(p, "put") /\ UNCHANGED <<open, hand>>
    /\ UNCHANGED <<closed, chClosed, crashed, idle, sem>>

\* IsValid, and the select that puts the connection back or closes it.
ReleasePut(p) ==
    /\ pc[p] = "put"
    /\ \E valid \in Validities :
         IF valid /\ chClosed THEN Panic
         ELSE /\ IF valid /\ Room
                 THEN idle' = Append(idle, hand[p]) /\ UNCHANGED open
                 ELSE open' = open \ {hand[p]} /\ UNCHANGED idle
              /\ Hold(p, NoConn) /\ Goto(p, "out")
              /\ UNCHANGED <<closed, chClosed, crashed, sem>>

CloseMark(k) ==
    /\ pc[k] = "closeOut"
    /\ closed' = TRUE
    /\ Goto(k, IF closed THEN "closeDone" ELSE "closeChannel")
    /\ UNCHANGED <<chClosed, crashed, idle, sem, open, hand>>

CloseChannel(k) ==
    /\ pc[k] = "closeChannel"
    /\ chClosed' = TRUE
    /\ Goto(k, "closeDrain")
    /\ UNCHANGED <<closed, crashed, idle, sem, open, hand>>

CloseDrain(k) ==
    /\ pc[k] = "closeDrain"
    /\ IF idle # <<>> THEN open' = open \ {Head(idle)} /\ idle' = Tail(idle) /\ UNCHANGED pc
       ELSE Goto(k, "closeDone") /\ UNCHANGED <<open, idle>>
    /\ UNCHANGED <<closed, chClosed, crashed, sem, hand>>

-----------------------------------------------------------------------------
AcquireStep(p) ==
    \/ AcquireTryIdle(p) \/ AcquireTrySlot(p) \/ AcquireCreate(p) \/ AcquireFactoryFails(p)
    \/ AcquireWait(p) \/ AcquireTimeout(p) \/ AcquireRetry(p) \/ AcquireAgain(p)
ReleaseStep(p) == ReleaseCheck(p) \/ ReleasePut(p)
CloseStep(k) == CloseMark(k) \/ CloseChannel(k) \/ CloseDrain(k)

PoolNext ==
    \/ /\ ~crashed
       /\ \/ \E p \in Clients : AcquireCheck(p) \/ AcquireStep(p) \/ ReleaseStep(p)
          \/ \E k \in Closers : CloseStep(k)
    \/ crashed /\ UNCHANGED poolVars

PoolSpec == PoolInit /\ [][PoolNext]_poolVars

\* Every goroutine that can run does, callers release what they acquired, and the
\* channel serves its receivers in the order they queue up.
ClientStep(p) == ~crashed /\ (AcquireStep(p) \/ ReleaseStep(p))
ClientTurn(p) == ~crashed /\ AcquireWait(p)
PoolFairness ==
    /\ \A p \in Clients : WF_poolVars(ClientStep(p))
    /\ \A p \in Patient : SF_poolVars(ClientTurn(p))

-----------------------------------------------------------------------------
SlotHolders == {p \in Procs : pc[p] \in {"create", "free"}}
InUse(p) == pc[p] = "use"

PoolTypeOK ==
    /\ closed \in BOOLEAN /\ chClosed \in BOOLEAN /\ crashed \in BOOLEAN
    /\ idle \in Seq(Conns) /\ open \subseteq Conns
    /\ sem \in 0..PoolSize
    /\ pc \in [Procs -> {"out", "tryIdle", "trySlot", "create", "wait", "free", "again", "use",
                         "put", "closeOut", "closeChannel", "closeDrain", "closeDone"}]
    /\ hand \in [Clients -> Conns \cup {NoConn}]
    /\ \A p \in Clients : hand[p] # NoConn <=> pc[p] \in {"use", "put"}

\* A token stands behind every open connection and every goroutine in the middle
\* of creating or closing one, so there are never more than PoolSize connections:
\* the paths that forget a token (pool.go:155, 163, 175) only err on this side.
SlotsCover == Cardinality(open) + Cardinality(SlotHolders) <= sem

\* A client blocked in Acquire with a context that is never done gets a
\* connection as long as PoolSize connections are open: only connections that
\* Release or Close closed for good can leave it without one.
ClientsServed == \A p \in Patient :
    pc[p] = "wait" ~> InUse(p) \/ Cardinality(open) < PoolSize \/ closed
=============================================================================
