----------------------- MODULE ManagedPoolRefinement -----------------------
(***************************************************************************)
(* The managed pool implements ConnLifecycle, for every value of its       *)
(* constants with which handles are released once.                         *)
(***************************************************************************)
EXTENDS ManagedPoolProofs

\* What the mapping is when a connection in use has one user.
OwnersKnown == \A c \in Conns :
    /\ life[c] # "open" => Owner[c] = Absent
    /\ \A p \in Clients : InUse(p) /\ hand[p] = c => Owner[c] = p
    /\ life[c] = "open" /\ (\A p \in Clients : ~(InUse(p) /\ hand[p] = c)) => Owner[c] = Pooled

LEMMA OwnerValues == UseInv => OwnersKnown
<1> SUFFICES ASSUME UseInv, NEW c \in Conns
             PROVE  /\ life[c] # "open" => Owner[c] = Absent
                    /\ \A p \in Clients : InUse(p) /\ hand[p] = c => Owner[c] = p
                    /\ life[c] = "open" /\ (\A p \in Clients : ~(InUse(p) /\ hand[p] = c)) => Owner[c] = Pooled
  BY DEF OwnersKnown
<1>1. ASSUME NEW p \in Clients, InUse(p), hand[p] = c
      PROVE  Owner[c] = p
  <2>1. life[c] = "open" /\ \A q \in Clients : InUse(q) /\ hand[q] = c <=> q = p
    BY <1>1 DEF UseInv
  <2>2. (CHOOSE q \in Clients : InUse(q) /\ hand[q] = c) = p
    BY <2>1
  <2>3. QED
    BY <1>1, <2>1, <2>2 DEF Owner
<1>2. QED
  BY <1>1 DEF Owner

\* The connections of the abstract pool are the open ones.
LEMMA ExistingIsOpen == OwnersKnown => Abstract!Existing = Open
<1> SUFFICES ASSUME OwnersKnown, NEW c \in Conns
             PROVE  Owner[c] # Absent <=> life[c] = "open"
  BY DEF Abstract!Existing, Open
<1>1. CASE \E p \in Clients : InUse(p) /\ hand[p] = c
  BY <1>1, StatusAssumption DEF OwnersKnown
<1>2. CASE \A p \in Clients : ~(InUse(p) /\ hand[p] = c)
  BY <1>2 DEF OwnersKnown, Absent, Pooled
<1>3. QED
  BY <1>1, <1>2

\* The instance's Cardinality is the module's.
LEMMA SameCardinality == Abstract!Cardinality(Open) = Cardinality(Open)
BY DEF Abstract!Cardinality, Cardinality

\* A step that neither opens nor closes d, nor changes who uses it.
LEMMA OwnerSame ==
    ASSUME NEW d \in Conns, life'[d] = "open" <=> life[d] = "open",
           \A p \in Clients : InUse(p)' /\ hand'[p] = d <=> InUse(p) /\ hand[p] = d
    PROVE  Owner'[d] = Owner[d]
<1>1. (CHOOSE p \in Clients : InUse(p)' /\ hand'[p] = d) = (CHOOSE p \in Clients : InUse(p) /\ hand[p] = d)
  OBVIOUS
<1>2. QED
  BY <1>1 DEF Owner

\* A step that is invisible: no client starts or stops using a connection.
LEMMA OwnerFrame ==
    ASSUME \A p \in Clients : InUse(p)' = InUse(p) /\ (InUse(p) => hand'[p] = hand[p]),
           \A c \in Conns : life'[c] = "open" <=> life[c] = "open"
    PROVE  Owner' = Owner
<1>1. \A d \in Conns : Owner'[d] = Owner[d]
  BY OwnerSame
<1>2. QED
  BY <1>1 DEF Owner

\* A step that changes the owner of one connection.
LEMMA OwnerOne ==
    ASSUME NEW c \in Conns, NEW v, Owner'[c] = v,
           \A d \in Conns \ {c} : Owner'[d] = Owner[d]
    PROVE  Owner' = [Owner EXCEPT ![c] = v]
<1>1. Owner = [d \in Conns |-> Owner[d]] /\ Owner' = [d \in Conns |-> Owner'[d]]
  BY DEF Owner
<1>2. QED
  BY <1>1

\* The steps that close a connection nobody uses.
LEMMA RefineClose ==
    ASSUME TypeOK, OwnersKnown, OwnersKnown', UseInv, NEW c \in Conns, life[c] = "open", released[c],
           NEW l \in {"none", "drained"}, SetLife(c, l),
           \A q \in Clients : InUse(q)' = InUse(q) /\ (InUse(q) => hand'[q] = hand[q])
    PROVE  Abstract!Next
<1>1. \A q \in Clients : InUse(q) => hand[q] # c
  BY DEF UseInv
<1>2. Owner[c] = Pooled
  BY <1>1 DEF OwnersKnown
<1>3. Owner'[c] = Absent
  BY DEF OwnersKnown, SetLife, TypeOK, DataOK
<1>4. \A d \in Conns \ {c} : Owner'[d] = Owner[d]
  BY OwnerSame DEF SetLife, TypeOK, DataOK
<1>5. QED
  BY <1>2, <1>3, <1>4, OwnerOne DEF Abstract!Next, Abstract!Destroy

\* While somebody is between a token and its connection there is room for one more.
LEMMA RoomToCreate ==
    ASSUME TypeOK, SlotAccounting, NEW p \in Procs, pc[p] \in SlotPc
    PROVE  Cardinality(Open) < MaxSize
<1>1. Cardinality(SlotHolders) # 0
  BY FiniteCounts, FS_EmptySet DEF SlotHolders
<1>2. Cardinality(Open) <= Cardinality(Owned) /\ Cardinality(Open) \in Nat
  BY FiniteCounts, FS_Subset, FS_CardinalityType DEF Open, Owned
<1>3. QED
  BY <1>1, <1>2, FiniteCounts, SizesAssumption DEF SlotAccounting, TypeOK, DataOK

LEMMA RefineReceive ==
    ASSUME TypeOK, OnePlace, UseInv, OwnersKnown, OwnersKnown',
           NEW p \in Clients, pc[p] \in {"tryIdle", "wait"}, Receive(p)
    PROVE  Abstract!Next \/ Owner' = Owner
<1>1. CASE idle = <<>>
  BY <1>1, OwnerFrame DEF Receive, Panic, connVars, localVars, InUse
<1>2. CASE idle # <<>>
  <2> DEFINE c == Head(idle)
  <2>1. c \in Conns /\ released[c] /\ life[c] = "open"
    BY <1>2, IdleHead
  <2>2. CASE CloseConn(c) /\ Goto(p, "free") /\ UNCHANGED hand
    <3>1. \A q \in Clients : InUse(q)' = InUse(q) /\ hand'[q] = hand[q]
      BY <2>2 DEF Goto, InUse, TypeOK, PcOK, Procs
    <3>2. QED
      BY <2>1, <2>2, <3>1, RefineClose DEF CloseConn
  <2>3. CASE Lend(p, c)
    <3>1. /\ \A q \in Clients \ {p} : InUse(q)' = InUse(q) /\ hand'[q] = hand[q]
          /\ InUse(p)' /\ hand'[p] = c /\ ~InUse(p) /\ life' = life
      BY <2>3 DEF Lend, Hold, Goto, InUse, TypeOK, PcOK, HandOK, Procs
    <3>2. \A q \in Clients : InUse(q) => hand[q] # c
      BY <2>1 DEF UseInv
    <3>3. Owner[c] = Pooled /\ Owner'[c] = p
      BY <2>1, <3>1, <3>2 DEF OwnersKnown
    <3>4. \A d \in Conns \ {c} : Owner'[d] = Owner[d]
      BY <3>1, OwnerSame
    <3>5. QED
      BY <2>1, <3>3, <3>4, OwnerOne DEF Abstract!Next, Abstract!Lend
  <2>4. QED
    BY <1>2, <2>2, <2>3 DEF Receive
<1>3. QED
  BY <1>1, <1>2

LEMMA RefineClient ==
    ASSUME TypeOK, OnePlace, SlotAccounting, NoStale, UseInv, OwnersKnown, OwnersKnown',
           NEW p \in Clients, Client(p)
    PROVE  Abstract!Next \/ Owner' = Owner
<1>0. p \in Procs /\ (pc[p] \in Holding => hand[p] \in Conns)
  BY DEF Procs, TypeOK, HandOK
<1>1. CASE AcquireCall(p) \/ AcquireCheck(p) \/ AcquireTimeout(p) \/ AcquireTrySlot(p)
           \/ AcquireFactoryFails(p) \/ AcquireRetry(p) \/ ReleaseEnd(p)
  <2>1. \A q \in Clients : InUse(q)' = InUse(q)
    BY <1>1
       DEF AcquireCall, AcquireCheck, AcquireTimeout, AcquireTrySlot, AcquireFactoryFails, AcquireRetry,
           ReleaseEnd, FreeSlot, Goto, InUse, TypeOK, PcOK, Procs
  <2>2. life' = life /\ hand' = hand
    BY <1>1
       DEF AcquireCall, AcquireCheck, AcquireTimeout, AcquireTrySlot, AcquireFactoryFails, AcquireRetry,
           ReleaseEnd, FreeSlot, connVars, localVars
  <2>3. QED
    BY <2>1, <2>2, OwnerFrame
<1>2. CASE AcquireTryIdle(p) \/ AcquireWait(p)
  <2>1. CASE Receive(p)
    BY <1>2, <2>1, RefineReceive DEF AcquireTryIdle, AcquireWait
  <2>2. CASE ~Receive(p)
    <3>1. \A q \in Clients : InUse(q)' = InUse(q)
      BY <1>2, <2>2 DEF AcquireTryIdle, AcquireWait, Goto, InUse, TypeOK, PcOK, Procs
    <3>2. QED
      BY <1>2, <2>2, <3>1, OwnerFrame DEF AcquireTryIdle, AcquireWait, connVars, localVars
  <2>3. QED
    BY <2>1, <2>2
<1>3. CASE AcquireCreate(p)
  <2>1. PICK c \in Conns : Fresh(c) /\ SetLife(c, "open") /\ SetReleased(c, FALSE) /\ Hold(p, c)
    BY <1>3 DEF AcquireCreate
  <2>2. /\ \A q \in Clients \ {p} : InUse(q)' = InUse(q) /\ hand'[q] = hand[q]
        /\ InUse(p)' /\ hand'[p] = c /\ ~InUse(p)
        /\ life' = [life EXCEPT ![c] = "open"] /\ life[c] = "none"
    BY <1>3, <2>1
       DEF AcquireCreate, Fresh, SetLife, Hold, Goto, InUse, TypeOK, PcOK, HandOK, Procs
  <2>3. Owner[c] = Absent /\ Owner'[c] = p
    BY <2>2 DEF OwnersKnown
  <2>4. \A d \in Conns \ {c} : Owner'[d] = Owner[d]
    BY <2>2, OwnerSame DEF TypeOK, DataOK
  <2>5. Abstract!Cardinality(Abstract!Existing) < MaxSize
    BY <1>0, <1>3, RoomToCreate, ExistingIsOpen, SameCardinality DEF AcquireCreate, SlotPc
  <2>6. Abstract!Create(c, p)
    BY <2>3, <2>4, <2>5, OwnerOne DEF Abstract!Create
  <2>7. QED
    BY <2>6 DEF Abstract!Next
<1>4. CASE ReleaseMark(p)
  <2>1. hand[p] \in Conns /\ ~released[hand[p]] /\ life[hand[p]] = "open" /\ InUse(p)
    BY <1>0, <1>4 DEF ReleaseMark, Holding, UseInv, InUse
  <2>2. /\ life' = life /\ hand' = hand /\ ~InUse(p)'
        /\ \A q \in Clients \ {p} : InUse(q)' = InUse(q)
    BY <1>4, <2>1 DEF ReleaseMark, FirstRelease, Goto, InUse, TypeOK, PcOK, Procs
  <2>3. \A q \in Clients \ {p} : InUse(q) => hand[q] # hand[p]
    BY <2>1 DEF UseInv
  <2>4. Owner[hand[p]] = p /\ Owner'[hand[p]] = Pooled
    BY <2>1, <2>2, <2>3 DEF OwnersKnown
  <2>5. \A d \in Conns \ {hand[p]} : Owner'[d] = Owner[d]
    BY <2>2, OwnerSame
  <2>6. QED
    BY <2>1, <2>4, <2>5, OwnerOne DEF Abstract!Next, Abstract!Return
<1>5. CASE DuplicateRelease(p)
  BY <1>5 DEF DuplicateRelease, NoStale
<1>6. CASE ReleaseCheck(p) \/ ReleasePut(p)
  <2>1. hand[p] \in Conns /\ released[hand[p]] /\ life[hand[p]] = "open"
    BY <1>0, <1>6 DEF ReleaseCheck, ReleasePut, Holding, ReturnPc, OnePlace, Returning
  <2>2. \A q \in Clients : InUse(q)' = InUse(q) /\ (InUse(q) => hand'[q] = hand[q])
    BY <1>6
       DEF ReleaseCheck, ReleasePut, Panic, localVars, Hold, Goto, InUse, TypeOK, PcOK, HandOK, Procs
  <2>3. CASE CloseConn(hand[p])
    BY <2>1, <2>2, <2>3, RefineClose DEF CloseConn
  <2>4. CASE UNCHANGED connVars
    BY <2>2, <2>4, OwnerFrame DEF connVars
  <2>5. QED
    BY <1>6, <2>3, <2>4 DEF ReleaseCheck, ReleasePut, Panic, connVars
<1>7. QED
  BY <1>1, <1>2, <1>3, <1>4, <1>5, <1>6 DEF Client, AcquireStep, ReleaseStep

LEMMA RefineOthers ==
    ASSUME TypeOK, OnePlace, SlotAccounting, UseInv, OwnersKnown, OwnersKnown',
           \/ \E w \in Warmers : Warmer(w)
           \/ Health
           \/ \E k \in Closers : Closer(k)
    PROVE  Abstract!Next \/ Owner' = Owner
<1>1. \A q \in Clients : InUse(q)' = InUse(q) /\ hand'[q] = hand[q]
  BY DisjointAssumption
     DEF Warmer, WarmStep, WarmUpCall, EnsureMinCall, WarmSlot, WarmReturn, WarmFactoryFails, WarmPut,
         Health, HealthWork, HealthTick, HealthExit, HealthDone, HealthCollect, HealthCheckConn, HealthFree,
         Closer, CloseStep, CloseMark, CloseChannel, CloseDrain,
         FreeSlot, Panic, localVars, Goto, InUse, TypeOK, PcOK, Procs
<1>2. CASE UNCHANGED connVars
  BY <1>1, <1>2, OwnerFrame DEF connVars
<1>3. ASSUME NEW w \in Warmers, WarmPut(w), connVars' # connVars
      PROVE  Abstract!Next
  <2>1. PICK c \in Conns : Fresh(c) /\ SetLife(c, "open")
    BY <1>3 DEF WarmPut, Panic
  <2>2. \A q \in Clients : InUse(q) => hand[q] # c
    BY <2>1 DEF Fresh
  <2>3. life[c] = "none" /\ life' = [life EXCEPT ![c] = "open"]
    BY <2>1 DEF Fresh, SetLife
  <2>4. Owner[c] = Absent /\ Owner'[c] = Pooled
    BY <1>1, <2>2, <2>3 DEF OwnersKnown, TypeOK, DataOK
  <2>5. \A d \in Conns \ {c} : Owner'[d] = Owner[d]
    BY <1>1, <2>3, OwnerSame DEF TypeOK, DataOK
  <2>6. Abstract!Cardinality(Abstract!Existing) < MaxSize
    BY <1>3, RoomToCreate, ExistingIsOpen, SameCardinality DEF WarmPut, SlotPc, Procs
  <2>7. Abstract!Create(c, Pooled)
    BY <2>4, <2>5, <2>6, OwnerOne DEF Abstract!Create
  <2>8. QED
    BY <2>7 DEF Abstract!Next
<1>4. CASE HealthCheckConn /\ connVars' # connVars
  <2>1. CloseConn(Head(batch)) /\ batch # <<>>
    BY <1>4 DEF HealthCheckConn, Panic
  <2>2. QED
    BY <1>1, <2>1, BatchHead, RefineClose DEF CloseConn
<1>5. ASSUME NEW k \in Closers, CloseDrain(k), connVars' # connVars
      PROVE  Abstract!Next
  <2>1. SetLife(Head(idle), "drained") /\ idle # <<>>
    BY <1>5 DEF CloseDrain, connVars
  <2>2. QED
    BY <1>1, <2>1, IdleHead, RefineClose
<1>6. QED
  BY <1>2, <1>3, <1>4, <1>5
     DEF Warmer, WarmStep, WarmUpCall, EnsureMinCall, WarmSlot, WarmReturn, WarmFactoryFails,
         Health, HealthWork, HealthTick, HealthExit, HealthDone, HealthCollect, HealthFree,
         Closer, CloseStep, CloseMark, CloseChannel, FreeSlot

\* Every behaviour of the pool is one of the abstract pool: connections are lent
\* to one client at a time, closed only while nobody has them, and never more
\* than MaxSize.
THEOREM PoolImplementsLifecycle ==
    ASSUME Keepers = {}
    PROVE  Spec => Lifecycle
<1>1. Init => Abstract!Init
  BY DEF Init, Owner, Abstract!Init
<1>2. UseInv' => OwnersKnown'
  BY OwnerValues, PTL
<1>3. /\ TypeOK /\ OnePlace /\ SlotAccounting /\ UseInv /\ NoStale /\ UseInv' /\ [Next]_vars
      => Abstract!Next \/ Owner' = Owner
  <2> SUFFICES ASSUME TypeOK, OnePlace, SlotAccounting, UseInv, NoStale, UseInv', [Next]_vars
               PROVE  Abstract!Next \/ Owner' = Owner
    OBVIOUS
  <2>1. OwnersKnown /\ OwnersKnown'
    BY <1>2, OwnerValues
  <2>2. CASE UNCHANGED vars
    BY <2>2, OwnerFrame DEF vars, connVars, localVars, InUse
  <2>3. QED
    BY <2>1, <2>2, RefineClient, RefineOthers DEF Next, Crashed
<1>4. /\ TypeOK /\ OnePlace /\ SlotAccounting /\ UseInv /\ NoStale /\ UseInv' /\ [Next]_vars
      => [Abstract!Next]_Owner
  BY <1>3
<1>5. QED
  BY TypeCorrect, ReleasedInOnePlace, SlotsAccounted, UseInvariant, <1>1, <1>4, PTL
     DEF Spec, Lifecycle, Abstract!Spec
=============================================================================
