---------------------------- MODULE ManagedPool ----------------------------
(***************************************************************************)
(* stage2/06-connection-pool/pool/managed.go: a connection pool with a     *)
(* background health check.  Idle connections wait in the buffered channel *)
(* conns; the buffered channel semaphore holds one token for every         *)
(* connection that exists.  p.mu protects nothing but the flag closed, so  *)
(* goroutines interleave between any two operations on the channels.  What *)
(* a goroutine does to a connection only it can reach (IsValid, Close, the *)
(* factory) belongs to the step of the channel operation next to it.       *)
(***************************************************************************)
EXTENDS Integers, Sequences, FiniteSets, Functions

CONSTANTS
    Clients,      \* goroutines that call Acquire and Release
    Warmers,      \* goroutines that call WarmUp and EnsureMinConnections
    Closers,      \* goroutines that call Close
    HC,           \* the goroutine of healthCheckLoop
    Conns,        \* identities of *PooledConn values
    None,         \* no connection in hand
    MaxSize,      \* ManagedConfig.MaxSize
    MinSize,      \* ManagedConfig.MinSize
    HealthCheck,  \* HealthCheckInterval > 0
    Perishable,   \* shouldDestroy may say yes
    FactoryFails, \* the factory may return an error
    Patient,      \* clients whose ctx is never done
    Keepers       \* clients that may call Release again on a released handle

Procs == Clients \cup Warmers \cup Closers \cup {HC}

ASSUME SizesAssumption == MaxSize \in Nat \ {0} /\ MinSize \in Nat
ASSUME FlagsAssumption == {HealthCheck, Perishable, FactoryFails} \subseteq BOOLEAN
ASSUME ClientsAssumption == Patient \subseteq Clients /\ Keepers \subseteq Clients
ASSUME FiniteAssumption == IsFiniteSet(Conns) /\ IsFiniteSet(Procs)
ASSUME NoneAssumption == None \notin Conns
ASSUME DisjointAssumption ==
    /\ Clients \cap (Warmers \cup Closers) = {}
    /\ Warmers \cap Closers = {}
    /\ HC \notin Clients \cup Warmers \cup Closers

\* Where a connection is when no client has it, for the abstract specification.
Absent == "absent"
Pooled == "pooled"
ASSUME StatusAssumption == {Absent, Pooled} \cap Clients = {}

VARIABLES
    closed,    \* p.closed; p.ctx is done as soon as it holds
    chClosed,  \* close(p.conns) has run
    crashed,   \* an unrecovered panic has ended the process
    idle,      \* contents of the channel p.conns
    sem,       \* len(p.semaphore)
    life,      \* of a connection: "none" before it is created and after
               \* destroyConn closed it, "open", or "drained" when Close closed it
    released,  \* conn.released
    pc,        \* where each goroutine is
    hand,      \* the connection a client holds
    stale,     \* handles a keeper has released and may release again
    batch,     \* toCheck in cleanupIdleConnections
    left       \* iterations a warmer still has to do

flagVars  == <<closed, chClosed, crashed>>
connVars  == <<life, released>>
localVars == <<hand, stale, batch, left>>
vars == <<flagVars, idle, sem, connVars, pc, localVars>>

ClientPc == {"out", "check", "tryIdle", "trySlot", "create", "wait", "free",
             "use", "relCheck", "relPut", "relFree"}
WarmerPc == {"warmOut", "warmLoop", "warmCreate"}
CloserPc == {"closeOut", "closeWait", "closeDrain", "closeDone"}
HealthPc == {"hcSelect", "hcCollect", "hcCheck", "hcFree", "hcExited"}

\* A goroutine owns a semaphore token that no connection stands for: its factory
\* is running, or its connection is closed and the token not yet taken out.
SlotPc == {"create", "free", "relFree", "warmCreate", "hcFree"}

\* Released, and neither back in the channel nor closed yet.
ReturnPc == {"relCheck", "relPut"}

Init ==
    /\ closed = FALSE /\ chClosed = FALSE /\ crashed = FALSE
    /\ idle = <<>> /\ sem = 0
    /\ life = [c \in Conns |-> "none"]
    /\ released = [c \in Conns |-> FALSE]
    /\ pc = [p \in Procs |-> IF p \in Clients THEN "out"
                            ELSE IF p \in Warmers THEN "warmOut"
                            ELSE IF p \in Closers THEN "closeOut"
                            ELSE IF HealthCheck THEN "hcSelect" ELSE "hcExited"]
    /\ hand = [p \in Clients |-> None]
    /\ stale = [p \in Clients |-> {}]
    /\ batch = <<>>
    /\ left = [w \in Warmers |-> 0]

Goto(p, label) == pc' = [pc EXCEPT ![p] = label]
Hold(p, c) == hand' = [hand EXCEPT ![p] = c]
SetLife(c, l) == life' = [life EXCEPT ![c] = l]
SetReleased(c, r) == released' = [released EXCEPT ![c] = r]

\* Faulty variant: destroyConn does not close the connection.
CloseConnForgotten(c) == UNCHANGED connVars
\* conn.Close() of destroyConn; its <-p.semaphore is a later step.
CloseConn(c) == SetLife(c, "none") /\ UNCHANGED released

\* What shouldDestroy(conn) can answer.
Verdicts == IF Perishable THEN BOOLEAN ELSE {FALSE}

\* <-p.semaphore, after which the goroutine goes on at label.
FreeSlot(p, from, label) ==
    /\ pc[p] = from
    /\ sem > 0
    /\ sem' = sem - 1
    /\ Goto(p, label)
    /\ UNCHANGED <<flagVars, idle, connVars, localVars>>

\* An identity can be given to a new connection once nothing refers to the old one.
Fresh(c) ==
    /\ life[c] = "none"
    /\ \A p \in Clients : hand[p] # c /\ c \notin stale[p]

\* A send on p.conns finds room in its buffer.
Room == Len(idle) < MaxSize

\* Faulty variant: one token too many.
HasSlotOffByOne == sem <= MaxSize
\* A send on p.semaphore finds room in its buffer.
HasSlot == sem < MaxSize

\* Faulty variant: no protection against a second Release.
FirstReleaseUnprotected(c) == TRUE
\* The test of conn.released under conn.mu.
FirstRelease(c) == ~released[c]

\* Faulty variant: conn.released is not reset.
LendUnmarked(p, c) == Hold(p, c) /\ Goto(p, "use") /\ UNCHANGED connVars
\* Acquire returns an idle connection.
Lend(p, c) == SetReleased(c, FALSE) /\ Hold(p, c) /\ Goto(p, "use") /\ UNCHANGED life

\* A send or a receive that panics.
Panic == crashed' = TRUE /\ UNCHANGED <<closed, chClosed, idle, sem, connVars, pc, localVars>>

-----------------------------------------------------------------------------
(***************************************************************************)
(* Acquire.                                                                *)
(***************************************************************************)
AcquireCall(p) ==
    /\ pc[p] = "out"
    /\ Goto(p, "check")
    /\ UNCHANGED <<flagVars, idle, sem, connVars, localVars>>

\* if p.closed, under p.mu, which is unlocked before anything else happens.
AcquireCheck(p) ==
    /\ pc[p] = "check"
    /\ Goto(p, IF closed THEN "out" ELSE "tryIdle")
    /\ UNCHANGED <<flagVars, idle, sem, connVars, localVars>>

\* Faulty variant: the connection is read and left in the channel.
ReceivePeeks(p) ==
    IF idle = <<>> THEN Panic
    ELSE Lend(p, Head(idle)) /\ UNCHANGED <<flagVars, idle, sem, stale, batch, left>>

\* The receive and what shouldDestroy makes of the connection.  From the closed
\* and drained channel it yields nil, which shouldDestroy dereferences.
Receive(p) ==
    IF idle = <<>> THEN Panic
    ELSE LET c == Head(idle) IN
         /\ idle' = Tail(idle)
         /\ \E destroy \in Verdicts :
              IF destroy
              THEN CloseConn(c) /\ Goto(p, "free") /\ UNCHANGED hand
              ELSE Lend(p, c)
         /\ UNCHANGED <<flagVars, sem, stale, batch, left>>

AcquireTryIdle(p) ==
    /\ pc[p] = "tryIdle"
    /\ IF idle # <<>> \/ chClosed
       THEN Receive(p)
       ELSE Goto(p, "trySlot") /\ UNCHANGED <<flagVars, idle, sem, connVars, localVars>>

AcquireTrySlot(p) ==
    /\ pc[p] = "trySlot"
    /\ IF HasSlot
       THEN sem' = sem + 1 /\ Goto(p, "create")
       ELSE Goto(p, "wait") /\ UNCHANGED sem
    /\ UNCHANGED <<flagVars, idle, connVars, localVars>>

AcquireCreate(p) ==
    /\ pc[p] = "create"
    /\ \E c \in Conns :
         Fresh(c) /\ SetLife(c, "open") /\ SetReleased(c, FALSE) /\ Hold(p, c)
    /\ Goto(p, "use")
    /\ UNCHANGED <<flagVars, idle, sem, stale, batch, left>>

AcquireFactoryFails(p) == FactoryFails /\ FreeSlot(p, "create", "out")

AcquireWait(p) ==
    /\ pc[p] = "wait"
    /\ idle # <<>> \/ chClosed
    /\ Receive(p)

AcquireTimeout(p) ==
    /\ pc[p] = "wait"
    /\ p \notin Patient
    /\ Goto(p, "out")
    /\ UNCHANGED <<flagVars, idle, sem, connVars, localVars>>

\* The end of destroyConn, and p.Acquire(ctx) from its beginning.
AcquireRetry(p) == FreeSlot(p, "free", "check")

-----------------------------------------------------------------------------
(***************************************************************************)
(* Release.                                                                *)
(***************************************************************************)
\* PooledConn.Release, called by the client the connection was lent to.
ReleaseMark(p) ==
    /\ pc[p] = "use"
    /\ stale' = IF p \in Keepers THEN [stale EXCEPT ![p] = @ \cup {hand[p]}] ELSE stale
    /\ IF FirstRelease(hand[p])
       THEN SetReleased(hand[p], TRUE) /\ Goto(p, "relCheck") /\ UNCHANGED hand
       ELSE Hold(p, None) /\ Goto(p, "out") /\ UNCHANGED released
    /\ UNCHANGED <<flagVars, idle, sem, life, batch, left>>

\* The same code, called once more through a handle kept after a Release.
DuplicateRelease(p) ==
    /\ pc[p] = "out"
    /\ \E c \in stale[p] :
         /\ stale' = [stale EXCEPT ![p] = @ \ {c}]
         /\ IF FirstRelease(c)
            THEN SetReleased(c, TRUE) /\ Hold(p, c) /\ Goto(p, "relCheck")
            ELSE UNCHANGED <<released, pc, hand>>
    /\ UNCHANGED <<flagVars, idle, sem, life, batch, left>>

\* if p.closed, else shouldDestroy: either may destroy the connection.
ReleaseCheck(p) ==
    /\ pc[p] = "relCheck"
    /\ \E destroy \in Verdicts :
         IF closed \/ destroy
         THEN CloseConn(hand[p]) /\ Hold(p, None) /\ Goto(p, "relFree")
         ELSE Goto(p, "relPut") /\ UNCHANGED <<connVars, hand>>
    /\ UNCHANGED <<flagVars, idle, sem, stale, batch, left>>

\* The select that puts the connection back: sending on the closed channel
\* panics, and a full channel falls to default.
ReleasePut(p) ==
    /\ pc[p] = "relPut"
    /\ IF chClosed THEN Panic
       ELSE /\ Hold(p, None)
            /\ IF Room
               THEN idle' = Append(idle, hand[p]) /\ Goto(p, "out") /\ UNCHANGED connVars
               ELSE CloseConn(hand[p]) /\ Goto(p, "relFree") /\ UNCHANGED idle
            /\ UNCHANGED <<flagVars, sem, stale, batch, left>>

\* Faulty variant: the token is not given back, as in Pool.Release (pool.go:163).
ReleaseEndKeepsSlot(p) ==
    pc[p] = "relFree" /\ Goto(p, "out") /\ UNCHANGED <<flagVars, idle, sem, connVars, localVars>>
\* The end of destroyConn.
ReleaseEnd(p) == FreeSlot(p, "relFree", "out")

-----------------------------------------------------------------------------
(***************************************************************************)
(* WarmUp and EnsureMinConnections: one loop behind different guards.      *)
(***************************************************************************)
WarmUpCall(w) ==
    /\ pc[w] = "warmOut"
    /\ ~closed
    /\ left' = [left EXCEPT ![w] = MinSize]
    /\ Goto(w, "warmLoop")
    /\ UNCHANGED <<flagVars, idle, sem, connVars, hand, stale, batch>>

\* len(p.semaphore) is read once; closed is not read at all.
EnsureMinCall(w) ==
    /\ pc[w] = "warmOut"
    /\ sem < MinSize
    /\ left' = [left EXCEPT ![w] = MinSize - sem]
    /\ Goto(w, "warmLoop")
    /\ UNCHANGED <<flagVars, idle, sem, connVars, hand, stale, batch>>

WarmSlot(w) ==
    /\ pc[w] = "warmLoop"
    /\ left[w] > 0
    /\ HasSlot
    /\ sem' = sem + 1
    /\ Goto(w, "warmCreate")
    /\ UNCHANGED <<flagVars, idle, connVars, localVars>>

\* The iterations are done, the pool is at capacity, or ctx is done.
WarmReturn(w) ==
    /\ pc[w] = "warmLoop"
    /\ Goto(w, "warmOut")
    /\ left' = [left EXCEPT ![w] = 0]
    /\ UNCHANGED <<flagVars, idle, sem, connVars, hand, stale, batch>>

WarmFactoryFails(w) == FactoryFails /\ FreeSlot(w, "warmCreate", "warmOut")

\* The new connection goes straight to the channel, marked released.
WarmPut(w) ==
    /\ pc[w] = "warmCreate"
    /\ IF chClosed THEN Panic
       ELSE /\ left' = [left EXCEPT ![w] = @ - 1]
            /\ Goto(w, "warmLoop")
            /\ IF Room
               THEN \E c \in Conns :
                      /\ Fresh(c) /\ SetLife(c, "open") /\ SetReleased(c, TRUE)
                      /\ idle' = Append(idle, c)
                      /\ UNCHANGED sem
               ELSE sem > 0 /\ sem' = sem - 1 /\ UNCHANGED <<idle, connVars>>
            /\ UNCHANGED <<flagVars, hand, stale, batch>>

-----------------------------------------------------------------------------
(***************************************************************************)
(* healthCheckLoop and cleanupIdleConnections.                             *)
(***************************************************************************)
HealthTick ==
    /\ pc[HC] = "hcSelect"
    /\ Goto(HC, "hcCollect")
    /\ UNCHANGED <<flagVars, idle, sem, connVars, localVars>>

\* Faulty variant: the loop ends on the closed channel instead of p.ctx.
HealthExitOnClose ==
    /\ pc[HC] = "hcSelect" /\ chClosed /\ Goto(HC, "hcExited")
    /\ UNCHANGED <<flagVars, idle, sem, connVars, localVars>>

HealthExit ==
    /\ pc[HC] = "hcSelect"
    /\ closed
    /\ Goto(HC, "hcExited")
    /\ UNCHANGED <<flagVars, idle, sem, connVars, localVars>>

\* One receive of the loop that empties the channel; from a closed channel it
\* would collect nil for ever.
HealthCollect ==
    /\ pc[HC] = "hcCollect"
    /\ IF idle # <<>>
       THEN batch' = Append(batch, Head(idle)) /\ idle' = Tail(idle) /\ UNCHANGED <<pc, crashed>>
       ELSE crashed' = chClosed /\ Goto(HC, "hcCheck") /\ UNCHANGED <<batch, idle>>
    /\ UNCHANGED <<closed, chClosed, sem, connVars, hand, stale, left>>

HealthDone ==
    /\ pc[HC] = "hcCheck"
    /\ batch = <<>>
    /\ Goto(HC, "hcSelect")
    /\ UNCHANGED <<flagVars, idle, sem, connVars, localVars>>

\* One iteration over toCheck: destroy the connection or put it back.
HealthCheckConn ==
    /\ pc[HC] = "hcCheck"
    /\ batch # <<>>
    /\ \E destroy \in Verdicts :
         IF ~destroy /\ chClosed THEN Panic
         ELSE /\ batch' = Tail(batch)
              /\ IF ~destroy /\ Room
                 THEN idle' = Append(idle, Head(batch)) /\ UNCHANGED <<connVars, pc>>
                 ELSE CloseConn(Head(batch)) /\ Goto(HC, "hcFree") /\ UNCHANGED idle
              /\ UNCHANGED <<flagVars, sem, hand, stale, left>>

HealthFree == FreeSlot(HC, "hcFree", "hcCheck")

-----------------------------------------------------------------------------
(***************************************************************************)
(* Close.                                                                  *)
(***************************************************************************)
\* The flag and p.cancel(), which only HC's select observes.
CloseMark(k) ==
    /\ pc[k] = "closeOut"
    /\ closed' = TRUE
    /\ Goto(k, IF closed THEN "closeDone" ELSE "closeWait")
    /\ UNCHANGED <<chClosed, crashed, idle, sem, connVars, localVars>>

\* Faulty variant: Close does not wait for the health check.
WaitGroupIgnored == TRUE
\* p.wg.Wait() can return.
WaitGroupDone == pc[HC] = "hcExited"

\* p.wg.Wait(), then close(p.conns), which panics on a closed channel.
CloseChannel(k) ==
    /\ pc[k] = "closeWait"
    /\ WaitGroupDone
    /\ chClosed' = TRUE
    /\ crashed' = chClosed
    /\ Goto(k, "closeDrain")
    /\ UNCHANGED <<closed, idle, sem, connVars, localVars>>

\* for conn := range p.conns: each is closed and counted, its token is kept.
CloseDrain(k) ==
    /\ pc[k] = "closeDrain"
    /\ IF idle # <<>>
       THEN SetLife(Head(idle), "drained") /\ idle' = Tail(idle) /\ UNCHANGED pc
       ELSE Goto(k, "closeDone") /\ UNCHANGED <<life, idle>>
    /\ UNCHANGED <<flagVars, sem, released, localVars>>

-----------------------------------------------------------------------------
AcquireStep(p) ==
    \/ AcquireCheck(p) \/ AcquireTryIdle(p) \/ AcquireTrySlot(p) \/ AcquireCreate(p)
    \/ AcquireFactoryFails(p) \/ AcquireWait(p) \/ AcquireTimeout(p) \/ AcquireRetry(p)
ReleaseStep(p) == ReleaseMark(p) \/ ReleaseCheck(p) \/ ReleasePut(p) \/ ReleaseEnd(p)
WarmStep(w) == WarmSlot(w) \/ WarmReturn(w) \/ WarmFactoryFails(w) \/ WarmPut(w)
HealthWork == HealthCollect \/ HealthDone \/ HealthCheckConn \/ HealthFree
CloseStep(k) == CloseChannel(k) \/ CloseDrain(k)

\* A process that has panicked takes no further step.
Alive == ~crashed
Client(p) == Alive /\ (AcquireCall(p) \/ AcquireStep(p) \/ ReleaseStep(p) \/ DuplicateRelease(p))
Warmer(w) == Alive /\ (WarmUpCall(w) \/ EnsureMinCall(w) \/ WarmStep(w))
Health    == Alive /\ (HealthTick \/ HealthExit \/ HealthWork)
Closer(k) == Alive /\ (CloseMark(k) \/ CloseStep(k))
Crashed   == crashed /\ UNCHANGED vars

Next ==
    \/ \E p \in Clients : Client(p)
    \/ \E w \in Warmers : Warmer(w)
    \/ \E k \in Closers : Closer(k)
    \/ Health
    \/ Crashed

Spec == Init /\ [][Next]_vars

(***************************************************************************)
(* Fairness: the Go scheduler runs every goroutine that can run; callers   *)
(* eventually release what they acquired (WithConn defers the Release) but *)
(* need not acquire again.  A goroutine blocked on p.conns is served in    *)
(* the order of the channel's queue, hence the strong fairness of          *)
(* AcquireWait; a select chooses at random among the ready cases, hence    *)
(* that of HealthExit.                                                     *)
(***************************************************************************)
Fairness ==
    /\ \A p \in Clients : /\ WF_vars(Alive /\ (AcquireStep(p) \/ ReleaseStep(p)))
                          /\ SF_vars(Alive /\ AcquireWait(p))
    /\ \A w \in Warmers : WF_vars(Alive /\ WarmStep(w))
    /\ WF_vars(Alive /\ HealthWork) /\ SF_vars(Alive /\ HealthExit)
    /\ \A k \in Closers : WF_vars(Alive /\ CloseStep(k))

FairSpec == Spec /\ Fairness

-----------------------------------------------------------------------------
Holding == {"use"} \cup ReturnPc
Owned == {c \in Conns : life[c] # "none"}   \* created and its token not given back
Open == {c \in Conns : life[c] = "open"}
SlotHolders == {p \in Procs : pc[p] \in SlotPc}
InUse(p) == pc[p] = "use"
Returning(p) == pc[p] \in ReturnPc

PcOK ==
    /\ pc \in [Procs -> ClientPc \cup WarmerPc \cup CloserPc \cup HealthPc]
    /\ \A p \in Clients : pc[p] \in ClientPc
    /\ \A w \in Warmers : pc[w] \in WarmerPc
    /\ \A k \in Closers : pc[k] \in CloserPc
    /\ pc[HC] \in HealthPc

DataOK ==
    /\ closed \in BOOLEAN /\ chClosed \in BOOLEAN /\ crashed \in BOOLEAN
    /\ idle \in Seq(Conns) /\ batch \in Seq(Conns)
    /\ sem \in 0..MaxSize
    /\ life \in [Conns -> {"none", "open", "drained"}]
    /\ released \in [Conns -> BOOLEAN]
    /\ stale \in [Clients -> SUBSET Conns]

HandOK ==
    /\ hand \in [Clients -> Conns \cup {None}]
    /\ \A p \in Clients : hand[p] # None <=> pc[p] \in Holding
    /\ left \in [Warmers -> Nat]
    /\ \A w \in Warmers : pc[w] = "warmCreate" => left[w] > 0

\* The type invariant: a client has a connection in hand exactly from the
\* moment Acquire hands it over until Release has disposed of it.
TypeOK == PcOK /\ DataOK /\ HandOK

\* The semaphore counts exactly the connections that exist (Close's drained ones
\* included) and the goroutines whose connection is not created yet or is
\* already closed: no path of Acquire, Release, WarmUp, EnsureMinConnections or
\* the health check loses or invents a token (destroyConn, managed.go:205).
SlotAccounting == sem = Cardinality(Owned) + Cardinality(SlotHolders)

\* Never more than MaxSize open connections, whoever creates them.
CapacityRespected == Cardinality(Open) <= MaxSize

\* Somewhere in the program there is a handle to the connection.
Reachable(c) == \E p \in Clients : hand[p] = c \/ c \in stale[p]

\* A connection out of circulation is in one place only: once in the channel,
\* once in toCheck, or with one client that is returning it, and it is open and
\* marked released there; and a handle to a closed connection is marked released,
\* so that releasing it once more does nothing (managed.go:22-33).  This holds
\* even when clients call Release twice.
OnePlace ==
    /\ IsInjective(idle) /\ IsInjective(batch)
    /\ Range(idle) \cap Range(batch) = {}
    /\ \A c \in Range(idle) \cup Range(batch) : life[c] = "open" /\ released[c]
    /\ \A p \in Clients : Returning(p) =>
         /\ hand[p] \notin Range(idle) \cup Range(batch)
         /\ life[hand[p]] = "open" /\ released[hand[p]]
         /\ \A q \in Clients : Returning(q) /\ hand[q] = hand[p] => q = p
    /\ \A c \in Conns : Reachable(c) => life[c] = "open" \/ released[c]

\* The channel always has room for a connection that is put back: the default
\* branches of release and of the health check (managed.go:176, 296) and the one
\* WarmUp says should not happen (managed.go:421) are never taken.
PutFindsRoom ==
    /\ \A p \in Procs : pc[p] \in {"relPut", "warmCreate"} => Room
    /\ batch # <<>> => Room

\* Once the channel is closed the health check has ended and no other Close is
\* on its way to close it again: neither the loop's send and receive nor a
\* second close(p.conns) can hit the closed channel (managed.go:306, 314-318).
CloseIsOrderly == chClosed =>
    pc[HC] = "hcExited" /\ \A k \in Closers : pc[k] # "closeWait"

\* Nothing is forgotten: an open connection is in the channel, in toCheck or in
\* some client's hand, so that it will be lent again or closed.
NoLeak == \A c \in Open :
    c \in Range(idle) \cup Range(batch) \/ \E p \in Clients : hand[p] = c

\* Without duplicate Releases, a connection in use is open, is held by that
\* client alone, and cannot be lent to another nor be closed by the health
\* check or Close.
ExclusiveUse == \A p \in Clients : InUse(p) =>
    /\ life[hand[p]] = "open" /\ ~released[hand[p]]
    /\ \A q \in Clients : hand[q] = hand[p] => q = p
    /\ hand[p] \notin Range(idle) \cup Range(batch)

\* The pool implements the abstract one: a connection counts as pooled from the
\* moment its Release is accepted until it is lent again or closed.
Owner == [c \in Conns |->
    IF life[c] # "open" THEN Absent
    ELSE IF \E p \in Clients : InUse(p) /\ hand[p] = c
         THEN CHOOSE p \in Clients : InUse(p) /\ hand[p] = c
         ELSE Pooled]
Abstract == INSTANCE ConnLifecycle WITH Capacity <- MaxSize, owner <- Owner
Lifecycle == Abstract!Spec

\* No unrecovered panic.
NoPanic == ~crashed

\* Close returns, whatever the health check is doing.
CloseReturns == \A k \in Closers :
    pc[k] \in {"closeWait", "closeDrain"} ~> pc[k] = "closeDone" \/ crashed

\* A client blocked in Acquire with a context that is never done gets a
\* connection, unless a slot is free or the pool is closed: it can stay blocked
\* only because nothing tells it of a slot that was freed (managed.go:258-272).
WaiterServed == \A p \in Patient :
    pc[p] = "wait" ~> InUse(p) \/ sem < MaxSize \/ closed
=============================================================================
