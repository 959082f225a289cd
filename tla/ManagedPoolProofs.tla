------------------------- MODULE ManagedPoolProofs -------------------------
(***************************************************************************)
(* Theorems of ManagedPool, for every value of its constants.              *)
(***************************************************************************)
EXTENDS ManagedPool, FiniteSetTheorems, TLAPS

-----------------------------------------------------------------------------
(***************************************************************************)
(* Types.                                                                  *)
(***************************************************************************)
LEMMA InitType == Init => TypeOK
<1> USE SizesAssumption, DisjointAssumption, NoneAssumption DEF Init
<1>1. Init => PcOK
  BY DEF PcOK, Procs, ClientPc, WarmerPc, CloserPc, HealthPc
<1>2. Init => DataOK
  <2>1. <<>> \in Seq(Conns) /\ 0 \in 0..MaxSize
    OBVIOUS
  <2>2. QED
    BY <2>1 DEF DataOK
<1>3. Init => HandOK
  BY DEF HandOK, Holding, ReturnPc, Procs
<1>4. QED
  BY <1>1, <1>2, <1>3 DEF TypeOK

\* One goroutine moves to a label of its own kind and the others stay.
LEMMA GotoType ==
    ASSUME PcOK, NEW p \in Procs, NEW l, Goto(p, l),
           \/ p \in Clients /\ l \in ClientPc
           \/ p \in Warmers /\ l \in WarmerPc
           \/ p \in Closers /\ l \in CloserPc
           \/ p = HC /\ l \in HealthPc
    PROVE  PcOK' /\ pc'[p] = l /\ \A q \in Procs \ {p} : pc'[q] = pc[q]
BY DisjointAssumption DEF PcOK, Goto, Procs

LEMMA ReceiveType ==
    ASSUME TypeOK, NEW p \in Clients, pc[p] \in {"tryIdle", "wait"}, Receive(p)
    PROVE  TypeOK'
<1> USE DEF TypeOK, flagVars, connVars, localVars
<1>1. CASE idle = <<>>
  BY <1>1 DEF Receive, Panic, PcOK, DataOK, HandOK
<1>2. CASE idle # <<>>
  <2> DEFINE c == Head(idle)
  <2>1. c \in Conns /\ Tail(idle) \in Seq(Conns)
    BY <1>2 DEF DataOK
  <2>2. CASE CloseConn(c) /\ Goto(p, "free") /\ UNCHANGED hand
    <3>1. PcOK' /\ pc'[p] = "free" /\ \A q \in Procs \ {p} : pc'[q] = pc[q]
      BY <2>2, GotoType DEF ClientPc, Procs
    <3>2. DataOK'
      BY <1>2, <2>1, <2>2 DEF Receive, DataOK, CloseConn, SetLife
    <3>3. HandOK'
      BY <1>2, <2>2, <3>1, DisjointAssumption DEF Receive, HandOK, Procs, Holding, ReturnPc
    <3>4. QED
      BY <3>1, <3>2, <3>3
  <2>3. CASE Lend(p, c)
    <3>1. PcOK' /\ pc'[p] = "use" /\ \A q \in Procs \ {p} : pc'[q] = pc[q]
      BY <2>3, GotoType DEF ClientPc, Procs, Lend
    <3>2. DataOK'
      BY <1>2, <2>1, <2>3 DEF Receive, DataOK, Lend, SetReleased
    <3>3. HandOK'
      BY <1>2, <2>1, <2>3, <3>1, DisjointAssumption, NoneAssumption
         DEF Receive, HandOK, Procs, Holding, ReturnPc, Lend, Hold
    <3>4. QED
      BY <3>1, <3>2, <3>3
  <2>4. QED
    BY <1>2, <2>2, <2>3 DEF Receive
<1>3. QED
  BY <1>1, <1>2

\* destroyConn's receive from the semaphore, by any goroutine.
LEMMA FreeSlotType ==
    ASSUME TypeOK, NEW p \in Procs, NEW from, NEW l, FreeSlot(p, from, l),
           \/ p \in Clients /\ from \in ClientPc \ Holding /\ l \in ClientPc \ Holding
           \/ p \in Warmers /\ l \in WarmerPc \ {"warmCreate"}
           \/ p = HC /\ l \in HealthPc
    PROVE  TypeOK'
<1> USE DEF TypeOK, flagVars, connVars, localVars
<1>1. PcOK' /\ pc'[p] = l /\ \A q \in Procs \ {p} : pc'[q] = pc[q]
  BY GotoType DEF FreeSlot
<1>2. DataOK'
  BY SizesAssumption DEF FreeSlot, DataOK
<1>3. HandOK'
  BY <1>1, DisjointAssumption DEF FreeSlot, HandOK, Procs
<1>4. QED
  BY <1>1, <1>2, <1>3

LEMMA AcquireType ==
    ASSUME TypeOK, NEW p \in Clients, AcquireCall(p) \/ AcquireStep(p)
    PROVE  TypeOK'
<1> USE DEF TypeOK, flagVars, connVars, localVars
<1>0. p \in Procs
  BY DEF Procs
<1>1. CASE AcquireCall(p) \/ AcquireCheck(p) \/ AcquireTimeout(p) \/ AcquireTrySlot(p)
  <2>1. PICK l \in ClientPc \ Holding : Goto(p, l) /\ pc[p] \notin Holding
    BY <1>1 DEF AcquireCall, AcquireCheck, AcquireTimeout, AcquireTrySlot, ClientPc, Holding, ReturnPc
  <2>2. PcOK' /\ pc'[p] = l /\ \A q \in Procs \ {p} : pc'[q] = pc[q]
    BY <1>0, <2>1, GotoType
  <2>3. DataOK'
    BY <1>1, SizesAssumption
       DEF DataOK, AcquireCall, AcquireCheck, AcquireTimeout, AcquireTrySlot, HasSlot
  <2>4. HandOK'
    BY <1>1, <2>1, <2>2, DisjointAssumption
       DEF HandOK, AcquireCall, AcquireCheck, AcquireTimeout, AcquireTrySlot, Procs
  <2>5. QED
    BY <2>2, <2>3, <2>4
<1>2. CASE AcquireTryIdle(p)
  <2>1. CASE idle # <<>> \/ chClosed
    BY <1>2, <2>1, ReceiveType DEF AcquireTryIdle
  <2>2. CASE ~(idle # <<>> \/ chClosed)
    <3>1. PcOK' /\ pc'[p] = "trySlot" /\ \A q \in Procs \ {p} : pc'[q] = pc[q]
      BY <1>0, <1>2, <2>2, GotoType DEF AcquireTryIdle, ClientPc
    <3>2. DataOK'
      BY <1>2, <2>2 DEF DataOK, AcquireTryIdle
    <3>3. HandOK'
      BY <1>2, <2>2, <3>1, DisjointAssumption DEF HandOK, AcquireTryIdle, Procs, Holding, ReturnPc
    <3>4. QED
      BY <3>1, <3>2, <3>3
  <2>3. QED
    BY <2>1, <2>2
<1>3. CASE AcquireWait(p)
  BY <1>3, ReceiveType DEF AcquireWait
<1>4. CASE AcquireCreate(p)
  <2>1. PICK c \in Conns : SetLife(c, "open") /\ SetReleased(c, FALSE) /\ Hold(p, c)
    BY <1>4 DEF AcquireCreate
  <2>2. PcOK' /\ pc'[p] = "use" /\ \A q \in Procs \ {p} : pc'[q] = pc[q]
    BY <1>0, <1>4, GotoType DEF AcquireCreate, ClientPc
  <2>3. DataOK'
    BY <1>4, <2>1 DEF DataOK, AcquireCreate, SetLife, SetReleased
  <2>4. HandOK'
    BY <1>4, <2>1, <2>2, DisjointAssumption, NoneAssumption
       DEF HandOK, AcquireCreate, Hold, Procs, Holding, ReturnPc
  <2>5. QED
    BY <2>2, <2>3, <2>4
<1>5. CASE AcquireFactoryFails(p) \/ AcquireRetry(p)
  BY <1>0, <1>5, FreeSlotType DEF AcquireFactoryFails, AcquireRetry, ClientPc, Holding, ReturnPc
<1>6. QED
  BY <1>1, <1>2, <1>3, <1>4, <1>5 DEF AcquireStep

LEMMA ReleaseType ==
    ASSUME TypeOK, NEW p \in Clients, ReleaseStep(p) \/ DuplicateRelease(p)
    PROVE  TypeOK'
<1> USE DEF TypeOK, flagVars, connVars, localVars
<1>0. p \in Procs /\ (pc[p] \in Holding => hand[p] \in Conns)
  BY DEF Procs, HandOK
<1>1. CASE ReleaseMark(p)
  <2>1. hand[p] \in Conns
    BY <1>0, <1>1 DEF ReleaseMark, Holding
  <2>2. CASE FirstRelease(hand[p])
    <3>1. PcOK' /\ pc'[p] = "relCheck" /\ \A q \in Procs \ {p} : pc'[q] = pc[q]
      BY <1>0, <1>1, <2>2, GotoType DEF ReleaseMark, ClientPc
    <3>2. DataOK'
      BY <1>1, <2>1, <2>2 DEF DataOK, ReleaseMark, SetReleased
    <3>3. HandOK'
      BY <1>1, <2>2, <3>1, DisjointAssumption DEF HandOK, ReleaseMark, Procs, Holding, ReturnPc
    <3>4. QED
      BY <3>1, <3>2, <3>3
  <2>3. CASE ~FirstRelease(hand[p])
    <3>1. PcOK' /\ pc'[p] = "out" /\ \A q \in Procs \ {p} : pc'[q] = pc[q]
      BY <1>0, <1>1, <2>3, GotoType DEF ReleaseMark, ClientPc
    <3>2. DataOK'
      BY <1>1, <2>1, <2>3 DEF DataOK, ReleaseMark
    <3>3. HandOK'
      BY <1>1, <2>3, <3>1, DisjointAssumption DEF HandOK, ReleaseMark, Hold, Procs, Holding, ReturnPc
    <3>4. QED
      BY <3>1, <3>2, <3>3
  <2>4. QED
    BY <2>2, <2>3
<1>2. CASE DuplicateRelease(p)
  <2>1. PICK c \in stale[p] :
          /\ stale' = [stale EXCEPT ![p] = @ \ {c}]
          /\ IF FirstRelease(c)
             THEN SetReleased(c, TRUE) /\ Hold(p, c) /\ Goto(p, "relCheck")
             ELSE UNCHANGED <<released, pc, hand>>
    BY <1>2 DEF DuplicateRelease
  <2>2. c \in Conns
    BY <2>1 DEF DataOK
  <2>3. DataOK'
    BY <1>2, <2>1, <2>2 DEF DataOK, DuplicateRelease, SetReleased
  <2>4. CASE FirstRelease(c)
    <3>1. PcOK' /\ pc'[p] = "relCheck" /\ \A q \in Procs \ {p} : pc'[q] = pc[q]
      BY <1>0, <2>1, <2>4, GotoType DEF ClientPc
    <3>2. HandOK'
      BY <1>2, <2>1, <2>2, <2>4, <3>1, DisjointAssumption, NoneAssumption
         DEF HandOK, DuplicateRelease, Hold, Procs, Holding, ReturnPc
    <3>3. QED
      BY <2>3, <3>1, <3>2
  <2>5. CASE ~FirstRelease(c)
    BY <1>2, <2>1, <2>3, <2>5 DEF DuplicateRelease, PcOK, HandOK
  <2>6. QED
    BY <2>4, <2>5
<1>3. CASE ReleaseCheck(p)
  <2>1. hand[p] \in Conns
    BY <1>0, <1>3 DEF ReleaseCheck, Holding, ReturnPc
  <2>2. CASE CloseConn(hand[p]) /\ Hold(p, None) /\ Goto(p, "relFree")
    <3>1. PcOK' /\ pc'[p] = "relFree" /\ \A q \in Procs \ {p} : pc'[q] = pc[q]
      BY <1>0, <2>2, GotoType DEF ClientPc
    <3>2. DataOK'
      BY <1>3, <2>1, <2>2 DEF DataOK, ReleaseCheck, CloseConn, SetLife
    <3>3. HandOK'
      BY <1>3, <2>2, <3>1, DisjointAssumption DEF HandOK, ReleaseCheck, Hold, Procs, Holding, ReturnPc
    <3>4. QED
      BY <3>1, <3>2, <3>3
  <2>3. CASE Goto(p, "relPut") /\ UNCHANGED <<connVars, hand>>
    <3>1. PcOK' /\ pc'[p] = "relPut" /\ \A q \in Procs \ {p} : pc'[q] = pc[q]
      BY <1>0, <2>3, GotoType DEF ClientPc
    <3>2. DataOK'
      BY <1>3, <2>3 DEF DataOK, ReleaseCheck
    <3>3. HandOK'
      BY <1>3, <2>3, <3>1, DisjointAssumption DEF HandOK, ReleaseCheck, Procs, Holding, ReturnPc
    <3>4. QED
      BY <3>1, <3>2, <3>3
  <2>4. QED
    BY <1>3, <2>2, <2>3 DEF ReleaseCheck
<1>4. CASE ReleasePut(p)
  <2>1. hand[p] \in Conns
    BY <1>0, <1>4 DEF ReleasePut, Holding, ReturnPc
  <2>2. CASE chClosed
    BY <1>4, <2>2 DEF ReleasePut, Panic, PcOK, DataOK, HandOK
  <2>3. CASE ~chClosed
    <3>1. PICK l \in {"out", "relFree"} : Goto(p, l)
      BY <1>4, <2>3 DEF ReleasePut
    <3>2. PcOK' /\ pc'[p] = l /\ \A q \in Procs \ {p} : pc'[q] = pc[q]
      BY <1>0, <3>1, GotoType DEF ClientPc
    <3>3. DataOK'
      <4>1. CASE Room
        <5>1. Append(idle, hand[p]) \in Seq(Conns)
          BY <2>1 DEF DataOK
        <5>2. QED
          BY <1>4, <2>3, <4>1, <5>1 DEF DataOK, ReleasePut
      <4>2. CASE ~Room
        BY <1>4, <2>1, <2>3, <4>2 DEF DataOK, ReleasePut, CloseConn, SetLife
      <4>3. QED
        BY <4>1, <4>2
    <3>4. HandOK'
      BY <1>4, <2>3, <3>2, DisjointAssumption DEF HandOK, ReleasePut, Hold, Procs, Holding, ReturnPc
    <3>5. QED
      BY <3>2, <3>3, <3>4
  <2>4. QED
    BY <2>2, <2>3
<1>5. CASE ReleaseEnd(p)
  BY <1>0, <1>5, FreeSlotType DEF ReleaseEnd, ClientPc, Holding, ReturnPc
<1>6. QED
  BY <1>1, <1>2, <1>3, <1>4, <1>5 DEF ReleaseStep

LEMMA WarmerType ==
    ASSUME TypeOK, NEW w \in Warmers, Warmer(w)
    PROVE  TypeOK'
<1> USE DEF TypeOK, flagVars, connVars, localVars
<1>0. w \in Procs
  BY DEF Procs
<1>1. CASE WarmFactoryFails(w)
  BY <1>0, <1>1, FreeSlotType DEF WarmFactoryFails, WarmerPc
<1>2. CASE WarmPut(w) /\ chClosed
  BY <1>2 DEF WarmPut, Panic, PcOK, DataOK, HandOK
<1>3. CASE WarmUpCall(w) \/ EnsureMinCall(w) \/ WarmSlot(w) \/ WarmReturn(w) \/ (WarmPut(w) /\ ~chClosed)
  <2>1. PICK l \in WarmerPc : Goto(w, l) /\ (l = "warmCreate" => left' = left /\ left[w] > 0)
    BY <1>3 DEF WarmUpCall, EnsureMinCall, WarmSlot, WarmReturn, WarmPut, WarmerPc
  <2>2. PcOK' /\ pc'[w] = l /\ \A q \in Procs \ {w} : pc'[q] = pc[q]
    BY <1>0, <2>1, GotoType
  <2>3. DataOK'
    <3>1. CASE WarmUpCall(w) \/ EnsureMinCall(w) \/ WarmSlot(w) \/ WarmReturn(w)
      BY <3>1, SizesAssumption DEF DataOK, WarmUpCall, EnsureMinCall, WarmSlot, WarmReturn, HasSlot
    <3>2. CASE WarmPut(w) /\ ~chClosed /\ Room
      <4>1. PICK c \in Conns : /\ SetLife(c, "open") /\ SetReleased(c, TRUE)
                               /\ idle' = Append(idle, c) /\ UNCHANGED sem
        BY <3>2 DEF WarmPut
      <4>2. Append(idle, c) \in Seq(Conns)
        BY DEF DataOK
      <4>3. QED
        BY <3>2, <4>1, <4>2 DEF DataOK, WarmPut, SetLife, SetReleased
    <3>3. CASE WarmPut(w) /\ ~chClosed /\ ~Room
      BY <3>3, SizesAssumption DEF DataOK, WarmPut
    <3>4. QED
      BY <1>3, <3>1, <3>2, <3>3
  <2>4. HandOK'
    <3>1. left' \in [Warmers -> Nat] /\ hand' = hand /\ \A v \in Warmers \ {w} : left'[v] = left[v]
      <4>1. CASE WarmUpCall(w) \/ EnsureMinCall(w) \/ WarmSlot(w) \/ WarmReturn(w)
        BY <4>1, SizesAssumption
           DEF HandOK, DataOK, WarmUpCall, EnsureMinCall, WarmSlot, WarmReturn
      <4>2. CASE WarmPut(w) /\ ~chClosed
        <5>1. left[w] - 1 \in Nat /\ left' = [left EXCEPT ![w] = @ - 1] /\ hand' = hand
          BY <4>2 DEF WarmPut, HandOK
        <5>2. QED
          BY <5>1 DEF HandOK
      <4>3. QED
        BY <1>3, <4>1, <4>2
    <3>2. QED
      BY <2>1, <2>2, <3>1, DisjointAssumption DEF HandOK, Procs
  <2>5. QED
    BY <2>2, <2>3, <2>4
<1>4. QED
  BY <1>1, <1>2, <1>3 DEF Warmer, WarmStep

LEMMA HealthType ==
    ASSUME TypeOK, Health
    PROVE  TypeOK'
<1> USE DEF TypeOK, flagVars, connVars, localVars
<1>0. HC \in Procs
  BY DEF Procs
<1>1. CASE HealthFree
  BY <1>0, <1>1, FreeSlotType DEF HealthFree, HealthPc
<1>2. CASE ~HealthFree
  <2>1. DataOK' /\ UNCHANGED <<hand, left>>
    <3>1. CASE HealthTick \/ HealthExit \/ HealthDone
      BY <3>1 DEF DataOK, HealthTick, HealthExit, HealthDone
    <3>2. CASE HealthCollect
      <4>1. CASE idle # <<>>
        <5>1. Append(batch, Head(idle)) \in Seq(Conns) /\ Tail(idle) \in Seq(Conns)
          BY <4>1 DEF DataOK
        <5>2. QED
          BY <3>2, <4>1, <5>1 DEF DataOK, HealthCollect
      <4>2. CASE idle = <<>>
        BY <3>2, <4>2 DEF DataOK, HealthCollect
      <4>3. QED
        BY <4>1, <4>2
    <3>3. CASE HealthCheckConn
      <4>1. Head(batch) \in Conns /\ Tail(batch) \in Seq(Conns)
        BY <3>3 DEF DataOK, HealthCheckConn
      <4>2. QED
        <5>1. CASE Panic
          BY <5>1 DEF DataOK, Panic
        <5>2. CASE idle' = Append(idle, Head(batch)) /\ UNCHANGED connVars /\ batch' = Tail(batch)
          <6>1. Append(idle, Head(batch)) \in Seq(Conns)
            BY <4>1 DEF DataOK
          <6>2. QED
            BY <3>3, <4>1, <5>2, <6>1 DEF DataOK, HealthCheckConn, Panic
        <5>3. CASE CloseConn(Head(batch)) /\ UNCHANGED idle /\ batch' = Tail(batch)
          BY <3>3, <4>1, <5>3 DEF DataOK, HealthCheckConn, CloseConn, SetLife, Panic
        <5>4. QED
          BY <3>3, <5>1, <5>2, <5>3 DEF HealthCheckConn
    <3>4. QED
      BY <1>2, <3>1, <3>2, <3>3 DEF Health, HealthWork
  <2>2. CASE UNCHANGED pc
    BY <2>1, <2>2 DEF PcOK, HandOK
  <2>3. CASE pc' # pc
    <3>1. PICK l \in HealthPc : Goto(HC, l)
      BY <1>2, <2>3
         DEF Health, HealthWork, HealthTick, HealthExit, HealthDone, HealthCollect, HealthCheckConn,
             Panic, HealthPc
    <3>2. PcOK' /\ \A q \in Procs \ {HC} : pc'[q] = pc[q]
      BY <1>0, <3>1, GotoType
    <3>3. HandOK'
      BY <2>1, <3>2, DisjointAssumption DEF HandOK, Procs
    <3>4. QED
      BY <2>1, <3>2, <3>3
  <2>4. QED
    BY <2>2, <2>3
<1>3. QED
  BY <1>1, <1>2

LEMMA CloserType ==
    ASSUME TypeOK, NEW k \in Closers, Closer(k)
    PROVE  TypeOK'
<1> USE DEF TypeOK, flagVars, connVars, localVars
<1>0. k \in Procs
  BY DEF Procs
<1>1. DataOK' /\ UNCHANGED <<hand, left>>
  <2>1. CASE CloseMark(k) \/ CloseChannel(k)
    BY <2>1 DEF DataOK, CloseMark, CloseChannel
  <2>2. CASE CloseDrain(k)
    <3>1. CASE idle # <<>>
      <4>1. Head(idle) \in Conns /\ Tail(idle) \in Seq(Conns)
        BY <3>1 DEF DataOK
      <4>2. QED
        BY <2>2, <3>1, <4>1 DEF DataOK, CloseDrain, SetLife
    <3>2. CASE idle = <<>>
      BY <2>2, <3>2 DEF DataOK, CloseDrain
    <3>3. QED
      BY <3>1, <3>2
  <2>3. QED
    BY <2>1, <2>2 DEF Closer, CloseStep
<1>2. CASE UNCHANGED pc
  BY <1>1, <1>2 DEF PcOK, HandOK
<1>3. CASE pc' # pc
  <2>1. PICK l \in CloserPc : Goto(k, l)
    BY <1>3 DEF Closer, CloseStep, CloseMark, CloseChannel, CloseDrain, CloserPc
  <2>2. PcOK' /\ \A q \in Procs \ {k} : pc'[q] = pc[q]
    BY <1>0, <2>1, GotoType
  <2>3. HandOK'
    BY <1>1, <2>2, DisjointAssumption DEF HandOK, Procs
  <2>4. QED
    BY <1>1, <2>2, <2>3
<1>4. QED
  BY <1>2, <1>3

LEMMA StutterType == TypeOK /\ UNCHANGED vars => TypeOK'
BY DEF TypeOK, PcOK, DataOK, HandOK, vars, flagVars, connVars, localVars

\* TypeOK holds in every behaviour: a client holds a connection exactly between
\* Acquire's return and the end of its Release, and the semaphore channel never
\* holds more tokens than its buffer (managed.go:118).
THEOREM TypeCorrect == Spec => []TypeOK
<1>1. TypeOK /\ [Next]_vars => TypeOK'
  BY AcquireType, ReleaseType, WarmerType, HealthType, CloserType, StutterType
     DEF Next, Client, Crashed
<1>2. QED
  BY InitType, <1>1, PTL DEF Spec

-----------------------------------------------------------------------------
(***************************************************************************)
(* Sequences as the contents of channels.                                  *)
(***************************************************************************)
LEMMA RangeAppend ==
    ASSUME NEW S, NEW s \in Seq(S), NEW c \in S
    PROVE  /\ Range(Append(s, c)) = Range(s) \cup {c}
           /\ IsInjective(s) /\ c \notin Range(s) => IsInjective(Append(s, c))
<1>1. /\ DOMAIN s = 1..Len(s) /\ DOMAIN Append(s, c) = 1..(Len(s) + 1) /\ Len(s) \in Nat
      /\ \A i \in 1..Len(s) : Append(s, c)[i] = s[i]
      /\ Append(s, c)[Len(s) + 1] = c
  OBVIOUS
<1>2. Range(Append(s, c)) = Range(s) \cup {c}
  <2>1. \A x \in Range(Append(s, c)) : x \in Range(s) \cup {c}
    BY <1>1 DEF Range
  <2>2. \A x \in Range(s) : x \in Range(Append(s, c))
    BY <1>1 DEF Range
  <2>3. c \in Range(Append(s, c))
    BY <1>1 DEF Range
  <2>4. QED
    BY <2>1, <2>2, <2>3
<1>3. IsInjective(s) /\ c \notin Range(s) => IsInjective(Append(s, c))
  BY <1>1 DEF Range, IsInjective
<1>4. QED
  BY <1>2, <1>3

LEMMA RangeTail ==
    ASSUME NEW S, NEW s \in Seq(S), s # <<>>, IsInjective(s)
    PROVE  /\ Head(s) \in Range(s)
           /\ Range(Tail(s)) = Range(s) \ {Head(s)}
           /\ IsInjective(Tail(s))
<1>1. /\ DOMAIN s = 1..Len(s) /\ DOMAIN Tail(s) = 1..(Len(s) - 1) /\ Len(s) \in Nat \ {0}
      /\ \A i \in 1..(Len(s) - 1) : Tail(s)[i] = s[i + 1]
      /\ Head(s) = s[1]
  OBVIOUS
<1>2. Head(s) \in Range(s)
  BY <1>1 DEF Range
<1>3. \A x \in Range(Tail(s)) : x \in Range(s) /\ x # Head(s)
  BY <1>1 DEF Range, IsInjective
<1>4. ASSUME NEW x \in Range(s), x # Head(s)
      PROVE  x \in Range(Tail(s))
  <2>1. PICK i \in 1..Len(s) : x = s[i]
    BY <1>1 DEF Range
  <2>2. i - 1 \in 1..(Len(s) - 1) /\ Tail(s)[i - 1] = s[(i - 1) + 1] /\ (i - 1) + 1 = i
    BY <1>1, <1>4, <2>1
  <2>3. QED
    BY <1>1, <2>1, <2>2 DEF Range
<1>5. IsInjective(Tail(s))
  BY <1>1 DEF IsInjective
<1>6. QED
  BY <1>2, <1>3, <1>4, <1>5

LEMMA RangeSubset == ASSUME NEW S, NEW s \in Seq(S) PROVE Range(s) \subseteq S
BY DEF Range

LEMMA RangeEmpty == Range(<<>>) = {} /\ IsInjective(<<>>)
BY DEF Range, IsInjective

-----------------------------------------------------------------------------
(***************************************************************************)
(* A released connection is in one place.                                  *)
(***************************************************************************)
\* A step that moves no connection.
LEMMA PlaceFrame ==
    ASSUME OnePlace, UNCHANGED <<idle, batch, life, released, hand, stale>>,
           \A q \in Clients : Returning(q)' <=> Returning(q)
    PROVE  OnePlace'
BY DEF OnePlace, Reachable

LEMMA PlacePanic == OnePlace /\ Panic => OnePlace'
BY PlaceFrame DEF Panic, connVars, localVars, Returning

LEMMA PlaceFreeSlot ==
    ASSUME TypeOK, OnePlace, NEW p \in Procs, NEW from, NEW l, FreeSlot(p, from, l),
           from \notin ReturnPc, l \notin ReturnPc
    PROVE  OnePlace'
<1>1. \A q \in Clients : Returning(q)' <=> Returning(q)
  BY DEF FreeSlot, Goto, Returning, TypeOK, PcOK, Procs
<1>2. QED
  BY <1>1, PlaceFrame DEF FreeSlot, connVars, localVars

\* The head of the channel: where it is, and where it is not any more.
LEMMA IdleHead ==
    ASSUME TypeOK, OnePlace, idle # <<>>
    PROVE  /\ Head(idle) \in Conns /\ Head(idle) \in Range(idle)
           /\ life[Head(idle)] = "open" /\ released[Head(idle)]
           /\ Range(Tail(idle)) = Range(idle) \ {Head(idle)}
           /\ IsInjective(Tail(idle))
BY RangeTail, RangeSubset DEF TypeOK, DataOK, OnePlace

LEMMA BatchHead ==
    ASSUME TypeOK, OnePlace, batch # <<>>
    PROVE  /\ Head(batch) \in Conns /\ Head(batch) \in Range(batch)
           /\ life[Head(batch)] = "open" /\ released[Head(batch)]
           /\ Range(Tail(batch)) = Range(batch) \ {Head(batch)}
           /\ IsInjective(Tail(batch))
BY RangeTail, RangeSubset DEF TypeOK, DataOK, OnePlace

LEMMA PlaceReceive ==
    ASSUME TypeOK, OnePlace, NEW p \in Clients, pc[p] \in {"tryIdle", "wait"}, Receive(p)
    PROVE  OnePlace'
<1>1. CASE idle = <<>>
  BY <1>1, PlacePanic DEF Receive
<1>2. CASE idle # <<>>
  <2> DEFINE c == Head(idle)
  <2>1. /\ idle' = Tail(idle) /\ batch' = batch /\ stale' = stale
        /\ \A q \in Clients : Returning(q)' <=> Returning(q)
    BY <1>2 DEF Receive, Lend, Goto, Returning, ReturnPc, localVars, TypeOK, PcOK, Procs
  <2>2. \A q \in Clients : Returning(q) => q # p
    BY DEF Returning, ReturnPc
  <2>3. CASE CloseConn(c) /\ UNCHANGED hand
    <3>1. life' = [life EXCEPT ![c] = "none"] /\ released' = released
      BY <2>3 DEF CloseConn, SetLife
    <3>2. QED
      BY <1>2, <2>1, <2>3, <3>1, IdleHead DEF OnePlace, Reachable, TypeOK, DataOK
  <2>4. CASE Lend(p, c)
    <3>1. released' = [released EXCEPT ![c] = FALSE] /\ hand' = [hand EXCEPT ![p] = c] /\ life' = life
      BY <2>4 DEF Lend, SetReleased, Hold
    <3>2. QED
      BY <1>2, <2>1, <2>2, <2>4, <3>1, IdleHead DEF OnePlace, Reachable, TypeOK, DataOK, HandOK
  <2>5. QED
    BY <1>2, <2>3, <2>4 DEF Receive
<1>3. QED
  BY <1>1, <1>2

LEMMA PlaceAcquire ==
    ASSUME TypeOK, OnePlace, NEW p \in Clients, AcquireCall(p) \/ AcquireStep(p)
    PROVE  OnePlace'
<1>0. p \in Procs /\ TypeOK'
  BY AcquireType DEF Procs
<1>1. CASE AcquireCall(p) \/ AcquireCheck(p) \/ AcquireTimeout(p) \/ AcquireTrySlot(p)
  <2>1. \A q \in Clients : Returning(q)' <=> Returning(q)
    BY <1>1 DEF AcquireCall, AcquireCheck, AcquireTimeout, AcquireTrySlot, Goto, Returning, ReturnPc,
                TypeOK, PcOK, Procs
  <2>2. QED
    BY <1>1, <2>1, PlaceFrame
       DEF AcquireCall, AcquireCheck, AcquireTimeout, AcquireTrySlot, connVars, localVars
<1>2. CASE AcquireTryIdle(p) \/ AcquireWait(p)
  <2>1. CASE Receive(p)
    BY <1>2, <2>1, PlaceReceive DEF AcquireTryIdle, AcquireWait
  <2>2. CASE ~Receive(p)
    <3>1. \A q \in Clients : Returning(q)' <=> Returning(q)
      BY <1>2, <2>2 DEF AcquireTryIdle, AcquireWait, Goto, Returning, ReturnPc, TypeOK, PcOK, Procs
    <3>2. QED
      BY <1>2, <2>2, <3>1, PlaceFrame DEF AcquireTryIdle, AcquireWait, connVars, localVars
  <2>3. QED
    BY <2>1, <2>2
<1>3. CASE AcquireCreate(p)
  <2>1. PICK c \in Conns : Fresh(c) /\ SetLife(c, "open") /\ SetReleased(c, FALSE) /\ Hold(p, c)
    BY <1>3 DEF AcquireCreate
  <2>2. /\ life' = [life EXCEPT ![c] = "open"] /\ released' = [released EXCEPT ![c] = FALSE]
        /\ hand' = [hand EXCEPT ![p] = c] /\ life[c] = "none"
    BY <2>1 DEF Fresh, SetLife, SetReleased, Hold
  <2>3. /\ idle' = idle /\ batch' = batch /\ stale' = stale
        /\ \A q \in Clients : Returning(q)' <=> Returning(q)
        /\ \A q \in Clients : Returning(q) => q # p
    BY <1>3 DEF AcquireCreate, Goto, Returning, ReturnPc, localVars, TypeOK, PcOK, Procs
  <2>4. QED
    BY <2>2, <2>3 DEF OnePlace, Reachable, TypeOK, DataOK, HandOK
<1>4. CASE AcquireFactoryFails(p) \/ AcquireRetry(p)
  BY <1>0, <1>4, PlaceFreeSlot DEF AcquireFactoryFails, AcquireRetry, ReturnPc
<1>5. QED
  BY <1>1, <1>2, <1>3, <1>4 DEF AcquireStep

LEMMA PlaceRelease ==
    ASSUME TypeOK, OnePlace, NEW p \in Clients, ReleaseStep(p) \/ DuplicateRelease(p)
    PROVE  OnePlace'
<1>0. p \in Procs /\ (pc[p] \in Holding => hand[p] \in Conns)
  BY DEF Procs, TypeOK, HandOK
<1>1. CASE ReleaseMark(p)
  <2>1. /\ idle' = idle /\ batch' = batch /\ life' = life /\ hand[p] \in Conns
        /\ stale' \in [Clients -> SUBSET Conns]
        /\ \A q \in Clients : stale'[q] \subseteq stale[q] \cup {hand[q]}
        /\ \A q \in Clients \ {p} : hand'[q] = hand[q]
        /\ \A q \in Clients \ {p} : Returning(q)' <=> Returning(q)
    BY <1>0, <1>1
       DEF ReleaseMark, Hold, Goto, Returning, ReturnPc, Holding, TypeOK, PcOK, DataOK, HandOK, Procs
  <2>2. CASE FirstRelease(hand[p])
    <3>1. /\ released' = [released EXCEPT ![hand[p]] = TRUE] /\ hand' = hand
          /\ ~released[hand[p]] /\ Reachable(hand[p])
      BY <1>1, <2>2 DEF ReleaseMark, FirstRelease, SetReleased, Reachable
    <3>2. QED
      BY <2>1, <3>1 DEF OnePlace, Reachable, TypeOK, DataOK
  <2>3. CASE ~FirstRelease(hand[p])
    <3>1. released' = released /\ hand' = [hand EXCEPT ![p] = None] /\ ~Returning(p)'
      BY <1>1, <2>3 DEF ReleaseMark, FirstRelease, Hold, Goto, Returning, ReturnPc, TypeOK, PcOK, Procs
    <3>2. QED
      BY <2>1, <3>1, NoneAssumption DEF OnePlace, Reachable, TypeOK, DataOK, HandOK
  <2>4. QED
    BY <2>2, <2>3
<1>2. CASE DuplicateRelease(p)
  <2>1. PICK c \in stale[p] :
          /\ stale' = [stale EXCEPT ![p] = @ \ {c}]
          /\ IF FirstRelease(c)
             THEN SetReleased(c, TRUE) /\ Hold(p, c) /\ Goto(p, "relCheck")
             ELSE UNCHANGED <<released, pc, hand>>
    BY <1>2 DEF DuplicateRelease
  <2>2. /\ idle' = idle /\ batch' = batch /\ life' = life /\ c \in Conns /\ Reachable(c)
        /\ \A q \in Clients : stale'[q] \subseteq stale[q]
    BY <1>2, <2>1 DEF DuplicateRelease, Reachable, TypeOK, DataOK
  <2>3. CASE FirstRelease(c)
    <3>1. /\ released' = [released EXCEPT ![c] = TRUE] /\ hand' = [hand EXCEPT ![p] = c]
          /\ ~released[c]
          /\ \A q \in Clients \ {p} : Returning(q)' <=> Returning(q)
      BY <2>1, <2>3 DEF FirstRelease, SetReleased, Hold, Goto, Returning, TypeOK, PcOK, Procs
    <3>2. QED
      BY <2>1, <2>2, <3>1 DEF OnePlace, Reachable, TypeOK, DataOK, HandOK
  <2>4. CASE ~FirstRelease(c)
    BY <2>1, <2>2, <2>4 DEF OnePlace, Reachable, Returning
  <2>5. QED
    BY <2>3, <2>4
<1>3. CASE ReleaseCheck(p)
  <2>1. /\ idle' = idle /\ batch' = batch /\ stale' = stale /\ hand[p] \in Conns /\ Returning(p)
        /\ \A q \in Clients \ {p} : Returning(q)' <=> Returning(q)
    BY <1>0, <1>3
       DEF ReleaseCheck, Goto, Returning, ReturnPc, Holding, localVars, TypeOK, PcOK, Procs
  <2>2. CASE CloseConn(hand[p]) /\ Hold(p, None) /\ Goto(p, "relFree")
    <3>1. /\ life' = [life EXCEPT ![hand[p]] = "none"] /\ released' = released
          /\ hand' = [hand EXCEPT ![p] = None] /\ ~Returning(p)'
      BY <2>2 DEF CloseConn, SetLife, Hold, Goto, Returning, ReturnPc, TypeOK, PcOK, Procs
    <3>2. QED
      BY <2>1, <3>1, NoneAssumption DEF OnePlace, Reachable, TypeOK, DataOK, HandOK
  <2>3. CASE Goto(p, "relPut") /\ UNCHANGED <<connVars, hand>>
    BY <2>1, <2>3, PlaceFrame DEF connVars, Goto, Returning, ReturnPc, TypeOK, PcOK, Procs
  <2>4. QED
    BY <1>3, <2>2, <2>3 DEF ReleaseCheck
<1>4. CASE ReleasePut(p) /\ chClosed
  BY <1>4, PlacePanic DEF ReleasePut
<1>5. CASE ReleasePut(p) /\ ~chClosed
  <2>1. /\ batch' = batch /\ stale' = stale /\ hand[p] \in Conns /\ Returning(p)
        /\ hand' = [hand EXCEPT ![p] = None] /\ ~Returning(p)'
        /\ \A q \in Clients \ {p} : Returning(q)' <=> Returning(q)
    BY <1>0, <1>5
       DEF ReleasePut, Hold, Goto, Returning, ReturnPc, Holding, TypeOK, PcOK, Procs
  <2>2. CASE Room
    <3>1. idle' = Append(idle, hand[p]) /\ life' = life /\ released' = released
      BY <1>5, <2>2 DEF ReleasePut, connVars
    <3>2. Range(idle') = Range(idle) \cup {hand[p]} /\ IsInjective(idle')
      BY <2>1, <3>1, RangeAppend DEF OnePlace, TypeOK, DataOK
    <3>3. QED
      BY <2>1, <3>1, <3>2, NoneAssumption DEF OnePlace, Reachable, TypeOK, DataOK, HandOK
  <2>3. CASE ~Room
    <3>1. idle' = idle /\ life' = [life EXCEPT ![hand[p]] = "none"] /\ released' = released
      BY <1>5, <2>3 DEF ReleasePut, CloseConn, SetLife
    <3>2. QED
      BY <2>1, <3>1, NoneAssumption DEF OnePlace, Reachable, TypeOK, DataOK, HandOK
  <2>4. QED
    BY <2>2, <2>3
<1>6. CASE ReleaseEnd(p)
  BY <1>0, <1>6, PlaceFreeSlot DEF ReleaseEnd, ReturnPc
<1>7. QED
  BY <1>1, <1>2, <1>3, <1>4, <1>5, <1>6 DEF ReleaseStep

LEMMA PlaceWarmer ==
    ASSUME TypeOK, OnePlace, NEW w \in Warmers, Warmer(w)
    PROVE  OnePlace'
<1>0. w \in Procs
  BY DEF Procs
<1>1. CASE WarmFactoryFails(w)
  BY <1>0, <1>1, PlaceFreeSlot DEF WarmFactoryFails, ReturnPc
<1>2. CASE WarmPut(w) /\ chClosed
  BY <1>2, PlacePanic DEF WarmPut
<1>3. CASE ~WarmFactoryFails(w) /\ ~(WarmPut(w) /\ chClosed)
  <2>1. \A q \in Clients : Returning(q)' <=> Returning(q)
    BY <1>3, DisjointAssumption
       DEF Warmer, WarmStep, WarmUpCall, EnsureMinCall, WarmSlot, WarmReturn, WarmPut, Goto,
           Returning, TypeOK, PcOK, Procs
  <2>2. CASE WarmPut(w) /\ Room
    <3>1. PICK c \in Conns : /\ Fresh(c) /\ SetLife(c, "open") /\ SetReleased(c, TRUE)
                             /\ idle' = Append(idle, c)
      BY <1>3, <2>2 DEF WarmPut
    <3>2. life[c] = "none" /\ c \notin Range(idle) \cup Range(batch)
      BY <3>1 DEF Fresh, OnePlace
    <3>3. Range(idle') = Range(idle) \cup {c} /\ IsInjective(idle')
      BY <3>1, <3>2, RangeAppend DEF OnePlace, TypeOK, DataOK
    <3>4. batch' = batch /\ hand' = hand /\ stale' = stale
      BY <1>3, <2>2 DEF WarmPut
    <3>5. QED
      BY <2>1, <3>1, <3>2, <3>3, <3>4 DEF SetLife, SetReleased, OnePlace, Reachable, TypeOK, DataOK
  <2>3. CASE ~(WarmPut(w) /\ Room)
    BY <1>3, <2>1, <2>3, PlaceFrame
       DEF Warmer, WarmStep, WarmUpCall, EnsureMinCall, WarmSlot, WarmReturn, WarmPut, connVars, localVars
  <2>4. QED
    BY <2>2, <2>3
<1>4. QED
  BY <1>1, <1>2, <1>3

LEMMA PlaceHealth ==
    ASSUME TypeOK, OnePlace, Health
    PROVE  OnePlace'
<1>0. HC \in Procs
  BY DEF Procs
<1>1. CASE HealthFree
  BY <1>0, <1>1, PlaceFreeSlot DEF HealthFree, ReturnPc
<1>2. CASE Panic
  BY <1>2, PlacePanic
<1>3. CASE ~HealthFree /\ ~Panic
  <2>1. /\ \A q \in Clients : Returning(q)' <=> Returning(q)
        /\ hand' = hand /\ stale' = stale
    BY <1>3, DisjointAssumption
       DEF Health, HealthWork, HealthTick, HealthExit, HealthDone, HealthCollect, HealthCheckConn,
           localVars, Goto, Returning, TypeOK, PcOK, Procs
  <2>2. CASE HealthCollect /\ idle # <<>>
    <3>1. /\ batch' = Append(batch, Head(idle)) /\ idle' = Tail(idle)
          /\ life' = life /\ released' = released
      BY <2>2 DEF HealthCollect, connVars
    <3>2. Range(batch') = Range(batch) \cup {Head(idle)} /\ IsInjective(batch')
      BY <2>2, <3>1, IdleHead, RangeAppend DEF OnePlace, TypeOK, DataOK
    <3>3. QED
      BY <2>1, <2>2, <3>1, <3>2, IdleHead DEF OnePlace, Reachable
  <2>3. CASE HealthCheckConn
    <3>1. batch # <<>> /\ batch' = Tail(batch)
      BY <1>3, <2>3 DEF HealthCheckConn
    <3>2. CASE idle' = Append(idle, Head(batch)) /\ UNCHANGED connVars
      <4>1. Range(idle') = Range(idle) \cup {Head(batch)} /\ IsInjective(idle')
        BY <3>1, <3>2, BatchHead, RangeAppend DEF OnePlace, TypeOK, DataOK
      <4>2. QED
        BY <2>1, <3>1, <3>2, <4>1, BatchHead DEF OnePlace, Reachable, connVars
    <3>3. CASE CloseConn(Head(batch)) /\ UNCHANGED idle
      BY <2>1, <3>1, <3>3, BatchHead DEF CloseConn, SetLife, OnePlace, Reachable, TypeOK, DataOK
    <3>4. QED
      BY <1>3, <2>3, <3>2, <3>3 DEF HealthCheckConn
  <2>4. CASE ~(HealthCollect /\ idle # <<>>) /\ ~HealthCheckConn
    BY <1>3, <2>1, <2>4, PlaceFrame
       DEF Health, HealthWork, HealthTick, HealthExit, HealthDone, HealthCollect, connVars, localVars
  <2>5. QED
    BY <2>2, <2>3, <2>4
<1>4. QED
  BY <1>1, <1>2, <1>3

LEMMA PlaceCloser ==
    ASSUME TypeOK, OnePlace, NEW k \in Closers, Closer(k)
    PROVE  OnePlace'
<1>1. /\ \A q \in Clients : Returning(q)' <=> Returning(q)
      /\ hand' = hand /\ stale' = stale /\ batch' = batch /\ released' = released
  BY DisjointAssumption
     DEF Closer, CloseStep, CloseMark, CloseChannel, CloseDrain, connVars, localVars, Goto, Returning,
         TypeOK, PcOK, Procs
<1>2. CASE CloseDrain(k) /\ idle # <<>>
  <2>1. idle' = Tail(idle) /\ life' = [life EXCEPT ![Head(idle)] = "drained"]
    BY <1>2 DEF CloseDrain, SetLife
  <2>2. QED
    BY <1>1, <1>2, <2>1, IdleHead DEF OnePlace, Reachable, TypeOK, DataOK
<1>3. CASE ~(CloseDrain(k) /\ idle # <<>>)
  BY <1>1, <1>3, PlaceFrame DEF Closer, CloseStep, CloseMark, CloseChannel, CloseDrain, connVars
<1>4. QED
  BY <1>2, <1>3

\* A connection that is not in use is in the channel once, in toCheck once, or
\* with the one client returning it, whatever clients do with old handles: two
\* goroutines can never receive it both.
THEOREM ReleasedInOnePlace == Spec => []OnePlace
<1>1. Init => OnePlace
  BY RangeEmpty, NoneAssumption DEF Init, OnePlace, Returning, ReturnPc, Reachable, Procs
<1>2. TypeOK /\ OnePlace /\ [Next]_vars => OnePlace'
  <2> SUFFICES ASSUME TypeOK, OnePlace, [Next]_vars PROVE OnePlace'
    OBVIOUS
  <2>1. CASE UNCHANGED vars
    BY <2>1, PlaceFrame DEF vars, connVars, localVars, Returning
  <2>2. QED
    BY <2>1, PlaceAcquire, PlaceRelease, PlaceWarmer, PlaceHealth, PlaceCloser DEF Next, Client, Crashed
<1>3. QED
  BY TypeCorrect, <1>1, <1>2, PTL DEF Spec

-----------------------------------------------------------------------------
(***************************************************************************)
(* The semaphore's tokens.                                                 *)
(***************************************************************************)
LEMMA FiniteCounts == IsFiniteSet(Owned) /\ IsFiniteSet(SlotHolders) /\ IsFiniteSet(Open)
                    /\ Cardinality(Owned) \in Nat /\ Cardinality(SlotHolders) \in Nat
BY FiniteAssumption, FS_Subset, FS_CardinalityType DEF Owned, SlotHolders, Open

LEMMA SlotEnter ==
    ASSUME TypeOK, NEW p \in Procs, NEW l, Goto(p, l), pc[p] \notin SlotPc, l \in SlotPc
    PROVE  Cardinality(SlotHolders') = Cardinality(SlotHolders) + 1
<1>1. SlotHolders' = SlotHolders \cup {p} /\ p \notin SlotHolders
  BY DEF SlotHolders, Goto, TypeOK, PcOK
<1>2. QED
  BY <1>1, FiniteCounts, FS_AddElement

LEMMA SlotLeave ==
    ASSUME TypeOK, NEW p \in Procs, NEW l, Goto(p, l), pc[p] \in SlotPc, l \notin SlotPc
    PROVE  Cardinality(SlotHolders') = Cardinality(SlotHolders) - 1
<1>1. SlotHolders' = SlotHolders \ {p} /\ p \in SlotHolders
  BY DEF SlotHolders, Goto, TypeOK, PcOK
<1>2. QED
  BY <1>1, FiniteCounts, FS_RemoveElement

LEMMA SlotStay ==
    ASSUME TypeOK, NEW p \in Procs, NEW l, Goto(p, l), pc[p] \in SlotPc <=> l \in SlotPc
    PROVE  SlotHolders' = SlotHolders
BY DEF SlotHolders, Goto, TypeOK, PcOK

LEMMA OwnedEnter ==
    ASSUME TypeOK, NEW c \in Conns, life[c] = "none", SetLife(c, "open")
    PROVE  Cardinality(Owned') = Cardinality(Owned) + 1
<1>1. Owned' = Owned \cup {c} /\ c \notin Owned
  BY DEF Owned, SetLife, TypeOK, DataOK
<1>2. QED
  BY <1>1, FiniteCounts, FS_AddElement

LEMMA OwnedLeave ==
    ASSUME TypeOK, NEW c \in Conns, life[c] # "none", CloseConn(c)
    PROVE  Cardinality(Owned') = Cardinality(Owned) - 1
<1>1. Owned' = Owned \ {c} /\ c \in Owned
  BY DEF Owned, CloseConn, SetLife, TypeOK, DataOK
<1>2. QED
  BY <1>1, FiniteCounts, FS_RemoveElement

\* A step that moves one goroutine, touches no token and changes no connection.
LEMMA SlotFrame ==
    ASSUME TypeOK, SlotAccounting, NEW p \in Procs, NEW l, Goto(p, l),
           pc[p] \in SlotPc <=> l \in SlotPc, sem' = sem, life' = life
    PROVE  SlotAccounting'
BY SlotStay DEF SlotAccounting, Owned

\* destroyConn's Close: a connection goes and a goroutine owes the token.
LEMMA SlotClose ==
    ASSUME TypeOK, SlotAccounting, NEW p \in Procs, NEW l, Goto(p, l),
           pc[p] \notin SlotPc, l \in SlotPc, sem' = sem,
           NEW c \in Conns, life[c] # "none", CloseConn(c)
    PROVE  SlotAccounting'
BY SlotEnter, OwnedLeave, FiniteCounts DEF SlotAccounting, TypeOK, DataOK

\* destroyConn's receive: the debt is paid.
LEMMA SlotFree ==
    ASSUME TypeOK, SlotAccounting, NEW p \in Procs, NEW from, NEW l, FreeSlot(p, from, l),
           from \in SlotPc, l \notin SlotPc
    PROVE  SlotAccounting'
BY SlotLeave, FiniteCounts DEF SlotAccounting, TypeOK, DataOK, FreeSlot, connVars, Owned

\* A token is taken for a connection to come.
LEMMA SlotTake ==
    ASSUME TypeOK, SlotAccounting, NEW p \in Procs, NEW l, Goto(p, l),
           pc[p] \notin SlotPc, l \in SlotPc, sem' = sem + 1, life' = life
    PROVE  SlotAccounting'
BY SlotEnter, FiniteCounts DEF SlotAccounting, TypeOK, DataOK, Owned

\* The connection has come.
LEMMA SlotUse ==
    ASSUME TypeOK, SlotAccounting, NEW p \in Procs, NEW l, Goto(p, l),
           pc[p] \in SlotPc, l \notin SlotPc, sem' = sem,
           NEW c \in Conns, life[c] = "none", SetLife(c, "open")
    PROVE  SlotAccounting'
BY SlotLeave, OwnedEnter, FiniteCounts DEF SlotAccounting, TypeOK, DataOK

LEMMA SlotSame ==
    ASSUME SlotAccounting, UNCHANGED <<sem, life, pc>>
    PROVE  SlotAccounting'
BY DEF SlotAccounting, Owned, SlotHolders

LEMMA SlotReceive ==
    ASSUME TypeOK, OnePlace, SlotAccounting,
           NEW p \in Clients, pc[p] \in {"tryIdle", "wait"}, Receive(p)
    PROVE  SlotAccounting'
<1>1. CASE idle = <<>>
  BY <1>1, SlotSame DEF Receive, Panic, connVars
<1>2. CASE idle # <<>>
  <2>1. sem' = sem /\ Head(idle) \in Conns /\ life[Head(idle)] # "none" /\ p \in Procs
    BY <1>2, IdleHead DEF Receive, Procs
  <2>2. CASE CloseConn(Head(idle)) /\ Goto(p, "free")
    BY <2>1, <2>2, SlotClose DEF SlotPc
  <2>3. CASE Lend(p, Head(idle))
    BY <2>1, <2>3, SlotFrame DEF Lend, SlotPc
  <2>4. QED
    BY <1>2, <2>2, <2>3 DEF Receive
<1>3. QED
  BY <1>1, <1>2

LEMMA SlotClient ==
    ASSUME TypeOK, OnePlace, SlotAccounting, NEW p \in Clients, Client(p)
    PROVE  SlotAccounting'
<1>0. p \in Procs /\ (pc[p] \in Holding => hand[p] \in Conns)
  BY DEF Procs, TypeOK, HandOK
<1>1. CASE AcquireCall(p) \/ AcquireCheck(p) \/ AcquireTimeout(p)
  BY <1>0, <1>1, SlotFrame DEF AcquireCall, AcquireCheck, AcquireTimeout, SlotPc, connVars
<1>2. CASE AcquireTrySlot(p) /\ HasSlot
  BY <1>0, <1>2, SlotTake DEF AcquireTrySlot, SlotPc, connVars
<1>3. CASE AcquireTrySlot(p) /\ ~HasSlot
  BY <1>0, <1>3, SlotFrame DEF AcquireTrySlot, SlotPc, connVars
<1>4. CASE AcquireTryIdle(p) \/ AcquireWait(p)
  <2>1. CASE Receive(p)
    BY <1>4, <2>1, SlotReceive DEF AcquireTryIdle, AcquireWait
  <2>2. CASE ~Receive(p)
    BY <1>0, <1>4, <2>2, SlotFrame DEF AcquireTryIdle, AcquireWait, SlotPc, connVars
  <2>3. QED
    BY <2>1, <2>2
<1>5. CASE AcquireCreate(p)
  BY <1>0, <1>5, SlotUse DEF AcquireCreate, Fresh, SlotPc
<1>6. CASE AcquireFactoryFails(p) \/ AcquireRetry(p) \/ ReleaseEnd(p)
  BY <1>0, <1>6, SlotFree DEF AcquireFactoryFails, AcquireRetry, ReleaseEnd, SlotPc
<1>7. CASE ReleaseMark(p)
  <2>1. PICK l \in {"relCheck", "out"} : Goto(p, l)
    BY <1>7 DEF ReleaseMark
  <2>2. QED
    BY <1>0, <1>7, <2>1, SlotFrame DEF ReleaseMark, SlotPc
<1>8. CASE DuplicateRelease(p)
  <2>1. sem' = sem /\ life' = life /\ pc[p] = "out" /\ (Goto(p, "relCheck") \/ UNCHANGED pc)
    BY <1>8 DEF DuplicateRelease
  <2>2. QED
    BY <1>0, <2>1, SlotFrame, SlotSame DEF SlotPc
<1>9. CASE ReleaseCheck(p)
  <2>1. hand[p] \in Conns /\ life[hand[p]] # "none" /\ sem' = sem /\ pc[p] = "relCheck"
    BY <1>0, <1>9 DEF ReleaseCheck, Holding, ReturnPc, OnePlace, Returning
  <2>2. CASE CloseConn(hand[p]) /\ Goto(p, "relFree")
    BY <1>0, <2>1, <2>2, SlotClose DEF SlotPc
  <2>3. CASE Goto(p, "relPut") /\ UNCHANGED connVars
    BY <1>0, <2>1, <2>3, SlotFrame DEF SlotPc, connVars
  <2>4. QED
    BY <1>9, <2>2, <2>3 DEF ReleaseCheck
<1>10. CASE ReleasePut(p)
  <2>1. hand[p] \in Conns /\ life[hand[p]] # "none" /\ pc[p] = "relPut"
    BY <1>0, <1>10 DEF ReleasePut, Holding, ReturnPc, OnePlace, Returning
  <2>2. CASE Panic
    BY <2>2, SlotSame DEF Panic, connVars
  <2>3. CASE sem' = sem /\ CloseConn(hand[p]) /\ Goto(p, "relFree")
    BY <1>0, <2>1, <2>3, SlotClose DEF SlotPc
  <2>4. CASE sem' = sem /\ Goto(p, "out") /\ UNCHANGED connVars
    BY <1>0, <2>1, <2>4, SlotFrame DEF SlotPc, connVars
  <2>5. QED
    BY <1>10, <2>2, <2>3, <2>4 DEF ReleasePut
<1>11. QED
  BY <1>1, <1>2, <1>3, <1>4, <1>5, <1>6, <1>7, <1>8, <1>9, <1>10 DEF Client, AcquireStep, ReleaseStep

LEMMA SlotWarmer ==
    ASSUME TypeOK, OnePlace, SlotAccounting, NEW w \in Warmers, Warmer(w)
    PROVE  SlotAccounting'
<1>0. w \in Procs
  BY DEF Procs
<1>1. CASE WarmUpCall(w) \/ EnsureMinCall(w) \/ WarmReturn(w)
  BY <1>0, <1>1, SlotFrame DEF WarmUpCall, EnsureMinCall, WarmReturn, SlotPc, connVars
<1>2. CASE WarmSlot(w)
  BY <1>0, <1>2, SlotTake DEF WarmSlot, SlotPc, connVars
<1>3. CASE WarmFactoryFails(w)
  BY <1>0, <1>3, SlotFree DEF WarmFactoryFails, SlotPc
<1>4. CASE WarmPut(w) /\ chClosed
  BY <1>4, SlotSame DEF WarmPut, Panic, connVars
<1>5. CASE WarmPut(w) /\ ~chClosed /\ Room
  <2>1. PICK c \in Conns : Fresh(c) /\ SetLife(c, "open")
    BY <1>5 DEF WarmPut
  <2>2. QED
    BY <1>0, <1>5, <2>1, SlotUse DEF WarmPut, Fresh, SlotPc
<1>6. CASE WarmPut(w) /\ ~chClosed /\ ~Room
  BY <1>0, <1>6, SlotLeave, FiniteCounts
     DEF WarmPut, SlotPc, connVars, SlotAccounting, Owned, TypeOK, DataOK
<1>7. QED
  BY <1>1, <1>2, <1>3, <1>4, <1>5, <1>6 DEF Warmer, WarmStep

LEMMA SlotHealth ==
    ASSUME TypeOK, OnePlace, SlotAccounting, Health
    PROVE  SlotAccounting'
<1>0. HC \in Procs
  BY DEF Procs
<1>1. CASE HealthTick \/ HealthExit \/ HealthDone
  BY <1>0, <1>1, SlotFrame DEF HealthTick, HealthExit, HealthDone, SlotPc, connVars
<1>2. CASE HealthCollect
  <2>1. sem' = sem /\ life' = life /\ pc[HC] = "hcCollect" /\ (Goto(HC, "hcCheck") \/ UNCHANGED pc)
    BY <1>2 DEF HealthCollect, connVars
  <2>2. QED
    BY <1>0, <2>1, SlotFrame, SlotSame DEF SlotPc
<1>3. CASE HealthCheckConn
  <2>1. Head(batch) \in Conns /\ life[Head(batch)] # "none" /\ pc[HC] = "hcCheck"
    BY <1>3, BatchHead DEF HealthCheckConn
  <2>2. CASE Panic
    BY <2>2, SlotSame DEF Panic, connVars
  <2>3. CASE sem' = sem /\ CloseConn(Head(batch)) /\ Goto(HC, "hcFree")
    BY <1>0, <2>1, <2>3, SlotClose DEF SlotPc
  <2>4. CASE sem' = sem /\ UNCHANGED <<connVars, pc>>
    BY <2>4, SlotSame DEF connVars
  <2>5. QED
    BY <1>3, <2>2, <2>3, <2>4 DEF HealthCheckConn
<1>4. CASE HealthFree
  BY <1>0, <1>4, SlotFree DEF HealthFree, SlotPc
<1>5. QED
  BY <1>1, <1>2, <1>3, <1>4 DEF Health, HealthWork

LEMMA SlotCloser ==
    ASSUME TypeOK, OnePlace, SlotAccounting, NEW k \in Closers, Closer(k)
    PROVE  SlotAccounting'
<1>0. k \in Procs
  BY DEF Procs
<1>1. CASE CloseMark(k)
  <2>1. PICK l \in {"closeDone", "closeWait"} : Goto(k, l)
    BY <1>1 DEF CloseMark
  <2>2. QED
    BY <1>0, <1>1, <2>1, SlotFrame DEF CloseMark, SlotPc, connVars
<1>2. CASE CloseChannel(k)
  BY <1>0, <1>2, SlotFrame DEF CloseChannel, SlotPc, connVars
<1>3. CASE CloseDrain(k) /\ idle # <<>>
  <2>1. /\ Head(idle) \in Conns /\ life[Head(idle)] = "open"
        /\ SetLife(Head(idle), "drained") /\ UNCHANGED <<pc, sem>>
    BY <1>3, IdleHead DEF CloseDrain
  <2>2. Owned' = Owned
    BY <2>1 DEF SetLife, Owned, TypeOK, DataOK
  <2>3. QED
    BY <2>1, <2>2 DEF SlotAccounting, SlotHolders
<1>4. CASE CloseDrain(k) /\ idle = <<>>
  BY <1>0, <1>4, SlotFrame DEF CloseDrain, SlotPc
<1>5. QED
  BY <1>1, <1>2, <1>3, <1>4 DEF Closer, CloseStep

\* len(p.semaphore) is at every moment the number of connections that exist plus
\* the number of goroutines between a token and its connection: no interleaving
\* of Acquire, Release, WarmUp, EnsureMinConnections, the health check and Close
\* loses a token or takes one twice.
THEOREM SlotsAccounted == Spec => []SlotAccounting
<1>1. Init => SlotAccounting
  <2> SUFFICES ASSUME Init PROVE SlotAccounting
    OBVIOUS
  <2>1. Owned = {} /\ SlotHolders = {}
    BY DEF Init, Owned, SlotHolders, SlotPc, Procs
  <2>2. QED
    BY <2>1, FS_EmptySet DEF Init, SlotAccounting
<1>2. TypeOK /\ OnePlace /\ SlotAccounting /\ [Next]_vars => SlotAccounting'
  BY SlotClient, SlotWarmer, SlotHealth, SlotCloser, SlotSame DEF Next, Crashed, vars, connVars
<1>3. QED
  BY TypeCorrect, ReleasedInOnePlace, <1>1, <1>2, PTL DEF Spec

\* The pool never has more than MaxSize open connections.
THEOREM CapacityHolds == Spec => []CapacityRespected
<1>1. TypeOK /\ SlotAccounting => CapacityRespected
  <2> SUFFICES ASSUME TypeOK, SlotAccounting PROVE CapacityRespected
    OBVIOUS
  <2>1. Cardinality(Open) <= Cardinality(Owned)
    BY FiniteCounts, FS_Subset DEF Open, Owned
  <2>2. Cardinality(Open) \in Nat
    BY FiniteCounts, FS_CardinalityType
  <2>3. QED
    BY <2>1, <2>2, FiniteCounts, SizesAssumption DEF SlotAccounting, CapacityRespected, TypeOK, DataOK
<1>2. QED
  BY TypeCorrect, SlotsAccounted, <1>1, PTL

-----------------------------------------------------------------------------
(***************************************************************************)
(* The channel has room.                                                   *)
(***************************************************************************)
\* A channel without repetitions holds as many connections as it has elements.
LEMMA LenOfInjective ==
    ASSUME NEW S, NEW s \in Seq(S), IsFiniteSet(S), IsInjective(s)
    PROVE  Cardinality(Range(s)) = Len(s)
<1>1. IsFiniteSet(1..Len(s)) /\ Cardinality(1..Len(s)) = Len(s)
  <2>1. Len(s) \in Nat
    OBVIOUS
  <2>2. QED
    BY <2>1, FS_Interval
<1>2. s \in Bijection(1..Len(s), Range(s))
  BY DEF Bijection, Injection, Surjection, IsInjective, Range
<1>3. ExistsBijection(1..Len(s), Range(s))
  BY <1>2 DEF ExistsBijection
<1>4. QED
  BY <1>1, <1>3, FS_Bijection

\* Every put finds room: the default branches that destroy a good connection
\* because the channel is full are dead code.
THEOREM PutsFindRoom == Spec => []PutFindsRoom
<1>1. TypeOK /\ OnePlace /\ SlotAccounting => PutFindsRoom
  <2> SUFFICES ASSUME TypeOK, OnePlace, SlotAccounting PROVE PutFindsRoom
    OBVIOUS
  <2>1. Len(idle) = Cardinality(Range(idle)) /\ Range(idle) \subseteq Owned /\ Len(idle) \in Nat
    BY LenOfInjective, RangeSubset, FiniteAssumption DEF OnePlace, Owned, TypeOK, DataOK
  <2>2. ASSUME NEW c \in Owned, c \notin Range(idle)
        PROVE  Len(idle) + 1 <= Cardinality(Owned)
    <3>1. IsFiniteSet(Range(idle))
      BY <2>1, FiniteCounts, FS_Subset
    <3>2. Cardinality(Range(idle) \cup {c}) = Len(idle) + 1
      BY <2>1, <2>2, <3>1, FS_AddElement
    <3>3. Range(idle) \cup {c} \subseteq Owned
      BY <2>1, <2>2
    <3>4. QED
      BY <3>2, <3>3, FiniteCounts, FS_Subset
  <2>3. Cardinality(Owned) + Cardinality(SlotHolders) <= MaxSize
    BY SizesAssumption DEF SlotAccounting, TypeOK, DataOK
  <2>4. ASSUME NEW p \in Procs, pc[p] = "relPut"
        PROVE  Room
    <3>1. p \in Clients /\ Returning(p)
      BY <2>4 DEF TypeOK, PcOK, Procs, WarmerPc, CloserPc, HealthPc, Returning, ReturnPc
    <3>2. hand[p] \in Owned /\ hand[p] \notin Range(idle)
      BY <2>4, <3>1 DEF OnePlace, Owned, TypeOK, HandOK, Holding, ReturnPc
    <3>3. QED
      BY <2>1, <2>2, <2>3, <3>2, FiniteCounts, SizesAssumption DEF Room
  <2>5. ASSUME NEW p \in Procs, pc[p] = "warmCreate"
        PROVE  Room
    <3>1. SlotHolders # {}
      BY <2>5 DEF SlotHolders, SlotPc
    <3>2. Cardinality(SlotHolders) # 0
      BY <3>1, FiniteCounts, FS_EmptySet
    <3>3. Len(idle) <= Cardinality(Owned)
      BY <2>1, FiniteCounts, FS_Subset
    <3>4. QED
      BY <2>1, <2>3, <3>2, <3>3, FiniteCounts, SizesAssumption DEF Room
  <2>6. ASSUME batch # <<>>
        PROVE  Room
    <3>1. Head(batch) \in Owned /\ Head(batch) \notin Range(idle)
      BY <2>6, BatchHead DEF OnePlace, Owned
    <3>2. QED
      BY <2>1, <2>2, <2>3, <3>1, FiniteCounts, SizesAssumption DEF Room
  <2>7. QED
    BY <2>4, <2>5, <2>6 DEF PutFindsRoom
<1>2. QED
  BY TypeCorrect, ReleasedInOnePlace, SlotsAccounted, <1>1, PTL

-----------------------------------------------------------------------------
(***************************************************************************)
(* A connection in use belongs to one client.                              *)
(***************************************************************************)
\* With no keeper no handle outlives its Release.
NoStale == \A p \in Clients : stale[p] = {}

\* The part of ExclusiveUse that is not a consequence of OnePlace.
UseInv == \A p \in Clients : InUse(p) =>
    /\ life[hand[p]] = "open" /\ ~released[hand[p]]
    /\ \A q \in Clients : InUse(q) /\ hand[q] = hand[p] => q = p

LEMMA UseFrame ==
    ASSUME UseInv, UNCHANGED <<life, released, hand>>,
           \A q \in Clients : InUse(q)' => InUse(q)
    PROVE  UseInv'
BY DEF UseInv

\* A connection that is marked released is closed or drained: nobody uses it.
LEMMA UseClose ==
    ASSUME TypeOK, UseInv, NEW c \in Conns, released[c], NEW l \in {"none", "drained"},
           SetLife(c, l), released' = released,
           \A q \in Clients : InUse(q)' => InUse(q) /\ hand'[q] = hand[q]
    PROVE  UseInv'
BY DEF UseInv, SetLife, TypeOK, DataOK

LEMMA UseReceive ==
    ASSUME TypeOK, OnePlace, UseInv,
           NEW p \in Clients, pc[p] \in {"tryIdle", "wait"}, Receive(p)
    PROVE  UseInv'
<1>1. CASE idle = <<>>
  BY <1>1, UseFrame DEF Receive, Panic, connVars, localVars, InUse
<1>2. CASE idle # <<>>
  <2> DEFINE c == Head(idle)
  <2>1. c \in Conns /\ released[c] /\ life[c] = "open"
    BY <1>2, IdleHead
  <2>2. CASE CloseConn(c) /\ Goto(p, "free") /\ UNCHANGED hand
    <3>1. \A q \in Clients : InUse(q)' => InUse(q) /\ hand'[q] = hand[q]
      BY <2>2 DEF Goto, InUse, TypeOK, PcOK, Procs
    <3>2. QED
      BY <2>1, <2>2, <3>1, UseClose DEF CloseConn
  <2>3. CASE Lend(p, c)
    <3>1. /\ \A q \in Clients \ {p} : InUse(q)' = InUse(q) /\ hand'[q] = hand[q]
          /\ InUse(p)' /\ hand'[p] = c /\ life' = life /\ released' = [released EXCEPT ![c] = FALSE]
      BY <2>3 DEF Lend, Hold, SetReleased, Goto, InUse, TypeOK, PcOK, HandOK, Procs
    <3>2. \A q \in Clients \ {p} : InUse(q) => hand[q] # c /\ hand[q] \in Conns
      BY <2>1 DEF UseInv, TypeOK, HandOK, InUse, Holding
    <3>3. QED
      BY <2>1, <3>1, <3>2 DEF UseInv, TypeOK, DataOK
  <2>4. QED
    BY <1>2, <2>2, <2>3 DEF Receive
<1>3. QED
  BY <1>1, <1>2

LEMMA UseClient ==
    ASSUME TypeOK, OnePlace, NoStale, UseInv, NEW p \in Clients, Client(p)
    PROVE  UseInv'
<1>0. p \in Procs /\ (pc[p] \in Holding => hand[p] \in Conns)
  BY DEF Procs, TypeOK, HandOK
<1>1. CASE AcquireCall(p) \/ AcquireCheck(p) \/ AcquireTimeout(p) \/ AcquireTrySlot(p)
           \/ AcquireFactoryFails(p) \/ AcquireRetry(p) \/ ReleaseEnd(p)
  <2>1. \A q \in Clients : InUse(q)' => InUse(q)
    BY <1>1
       DEF AcquireCall, AcquireCheck, AcquireTimeout, AcquireTrySlot, AcquireFactoryFails, AcquireRetry,
           ReleaseEnd, FreeSlot, Goto, InUse, TypeOK, PcOK, Procs
  <2>2. QED
    BY <1>1, <2>1, UseFrame
       DEF AcquireCall, AcquireCheck, AcquireTimeout, AcquireTrySlot, AcquireFactoryFails, AcquireRetry,
           ReleaseEnd, FreeSlot, connVars, localVars
<1>2. CASE AcquireTryIdle(p) \/ AcquireWait(p)
  <2>1. CASE Receive(p)
    BY <1>2, <2>1, UseReceive DEF AcquireTryIdle, AcquireWait
  <2>2. CASE ~Receive(p)
    <3>1. \A q \in Clients : InUse(q)' => InUse(q)
      BY <1>2, <2>2 DEF AcquireTryIdle, AcquireWait, Goto, InUse, TypeOK, PcOK, Procs
    <3>2. QED
      BY <1>2, <2>2, <3>1, UseFrame DEF AcquireTryIdle, AcquireWait, connVars, localVars
  <2>3. QED
    BY <2>1, <2>2
<1>3. CASE AcquireCreate(p)
  <2>1. PICK c \in Conns : Fresh(c) /\ SetLife(c, "open") /\ SetReleased(c, FALSE) /\ Hold(p, c)
    BY <1>3 DEF AcquireCreate
  <2>2. /\ \A q \in Clients \ {p} : InUse(q)' = InUse(q) /\ hand'[q] = hand[q] /\ hand[q] # c
        /\ InUse(p)' /\ hand'[p] = c
        /\ life' = [life EXCEPT ![c] = "open"] /\ released' = [released EXCEPT ![c] = FALSE]
    BY <1>3, <2>1
       DEF AcquireCreate, Fresh, SetLife, SetReleased, Hold, Goto, InUse, TypeOK, PcOK, HandOK, Procs
  <2>3. \A q \in Clients : InUse(q) => hand[q] \in Conns
    BY DEF TypeOK, HandOK, InUse, Holding
  <2>4. QED
    BY <2>2, <2>3 DEF UseInv, TypeOK, DataOK
<1>4. CASE ReleaseMark(p)
  <2>1. hand[p] \in Conns /\ ~released[hand[p]] /\ InUse(p)
    BY <1>0, <1>4 DEF ReleaseMark, Holding, UseInv, InUse
  <2>2. /\ released' = [released EXCEPT ![hand[p]] = TRUE] /\ life' = life /\ hand' = hand
        /\ ~InUse(p)' /\ \A q \in Clients \ {p} : InUse(q)' = InUse(q)
    BY <1>4, <2>1 DEF ReleaseMark, FirstRelease, SetReleased, Goto, InUse, TypeOK, PcOK, Procs
  <2>3. QED
    BY <2>1, <2>2 DEF UseInv, TypeOK, DataOK
<1>5. CASE DuplicateRelease(p)
  BY <1>5 DEF DuplicateRelease, NoStale
<1>6. CASE ReleaseCheck(p) \/ ReleasePut(p)
  <2>1. hand[p] \in Conns /\ released[hand[p]]
    BY <1>0, <1>6 DEF ReleaseCheck, ReleasePut, Holding, ReturnPc, OnePlace, Returning
  <2>2. \A q \in Clients : InUse(q)' => InUse(q) /\ hand'[q] = hand[q]
    BY <1>6
       DEF ReleaseCheck, ReleasePut, Panic, localVars, Hold, Goto, InUse, TypeOK, PcOK, HandOK, Procs
  <2>3. CASE CloseConn(hand[p])
    BY <2>1, <2>2, <2>3, UseClose DEF CloseConn
  <2>4. CASE UNCHANGED connVars
    BY <2>2, <2>4 DEF UseInv, connVars
  <2>5. QED
    BY <1>6, <2>3, <2>4 DEF ReleaseCheck, ReleasePut, Panic, connVars
<1>7. QED
  BY <1>1, <1>2, <1>3, <1>4, <1>5, <1>6 DEF Client, AcquireStep, ReleaseStep

LEMMA UseOthers ==
    ASSUME TypeOK, OnePlace, UseInv,
           \/ \E w \in Warmers : Warmer(w)
           \/ Health
           \/ \E k \in Closers : Closer(k)
    PROVE  UseInv'
<1>1. \A q \in Clients : InUse(q)' = InUse(q) /\ hand'[q] = hand[q]
  BY DisjointAssumption
     DEF Warmer, WarmStep, WarmUpCall, EnsureMinCall, WarmSlot, WarmReturn, WarmFactoryFails, WarmPut,
         Health, HealthWork, HealthTick, HealthExit, HealthDone, HealthCollect, HealthCheckConn, HealthFree,
         Closer, CloseStep, CloseMark, CloseChannel, CloseDrain,
         FreeSlot, Panic, localVars, Goto, InUse, TypeOK, PcOK, Procs
<1>2. CASE UNCHANGED connVars
  BY <1>1, <1>2 DEF UseInv, connVars
<1>3. ASSUME NEW w \in Warmers, WarmPut(w), connVars' # connVars
      PROVE  UseInv'
  <2>1. PICK c \in Conns : Fresh(c) /\ SetLife(c, "open") /\ SetReleased(c, TRUE)
    BY <1>3 DEF WarmPut, Panic
  <2>2. \A q \in Clients : InUse(q) => hand[q] \in Conns /\ hand[q] # c
    BY <2>1 DEF Fresh, TypeOK, HandOK, InUse, Holding
  <2>3. QED
    BY <1>1, <2>1, <2>2 DEF SetLife, SetReleased, UseInv, TypeOK, DataOK
<1>4. CASE HealthCheckConn /\ connVars' # connVars
  <2>1. CloseConn(Head(batch)) /\ batch # <<>>
    BY <1>4 DEF HealthCheckConn, Panic
  <2>2. QED
    BY <1>1, <2>1, BatchHead, UseClose DEF CloseConn
<1>5. ASSUME NEW k \in Closers, CloseDrain(k), connVars' # connVars
      PROVE  UseInv'
  <2>1. SetLife(Head(idle), "drained") /\ idle # <<>> /\ released' = released
    BY <1>5 DEF CloseDrain, connVars
  <2>2. QED
    BY <1>1, <2>1, IdleHead, UseClose
<1>6. QED
  BY <1>2, <1>3, <1>4, <1>5
     DEF Warmer, WarmStep, WarmUpCall, EnsureMinCall, WarmSlot, WarmReturn, WarmFactoryFails,
         Health, HealthWork, HealthTick, HealthExit, HealthDone, HealthCollect, HealthFree,
         Closer, CloseStep, CloseMark, CloseChannel, FreeSlot

LEMMA StaleStep ==
    ASSUME Keepers = {}, NoStale, [Next]_vars
    PROVE  NoStale'
<1>1. ASSUME NEW p \in Clients, Client(p)
      PROVE  stale' = stale
  BY <1>1
     DEF Client, AcquireCall, AcquireStep, ReleaseStep, DuplicateRelease, NoStale, AcquireCheck,
         AcquireTryIdle, AcquireTrySlot, AcquireCreate, AcquireFactoryFails, AcquireWait, AcquireTimeout,
         AcquireRetry, ReleaseMark, ReleaseCheck, ReleasePut, ReleaseEnd, Receive, Panic, FreeSlot, localVars
<1>2. ASSUME NEW w \in Warmers, Warmer(w)
      PROVE  stale' = stale
  BY <1>2
     DEF Warmer, WarmStep, WarmUpCall, EnsureMinCall, WarmSlot, WarmReturn, WarmFactoryFails, WarmPut,
         Panic, FreeSlot, localVars
<1>3. CASE Health
  BY <1>3
     DEF Health, HealthWork, HealthTick, HealthExit, HealthDone, HealthCollect, HealthCheckConn, HealthFree,
         Panic, FreeSlot, localVars, NoStale
<1>4. ASSUME NEW k \in Closers, Closer(k)
      PROVE  stale' = stale
  BY <1>4 DEF Closer, CloseStep, CloseMark, CloseChannel, CloseDrain, localVars
<1>5. QED
  BY <1>1, <1>2, <1>3, <1>4 DEF Next, Crashed, vars, localVars, NoStale

LEMMA UseInvariant ==
    ASSUME Keepers = {}
    PROVE  Spec => [](UseInv /\ NoStale)
<1>1. Init => UseInv /\ NoStale
  BY DEF Init, UseInv, NoStale, InUse, Procs
<1>2. TypeOK /\ OnePlace /\ UseInv /\ NoStale /\ [Next]_vars => UseInv' /\ NoStale'
  BY UseClient, UseOthers, StaleStep, UseFrame DEF Next, Crashed, vars, connVars, localVars, InUse
<1>3. QED
  BY TypeCorrect, ReleasedInOnePlace, <1>1, <1>2, PTL DEF Spec

\* When every handle is released once, the connection a client uses is open and
\* that client's alone.  The hypothesis is needed: a second Release through an old
\* handle, after the connection was lent again, takes it from its new user.
THEOREM UseIsExclusive ==
    ASSUME Keepers = {}
    PROVE  Spec => []ExclusiveUse
<1>1. TypeOK /\ OnePlace /\ UseInv => ExclusiveUse
  BY DEF TypeOK, PcOK, HandOK, OnePlace, UseInv, ExclusiveUse, InUse, Returning, Holding
<1>2. QED
  BY TypeCorrect, ReleasedInOnePlace, UseInvariant, <1>1, PTL

-----------------------------------------------------------------------------
(***************************************************************************)
(* No connection is forgotten.                                             *)
(***************************************************************************)
\* An open connection that is not marked released has a user; one that is marked
\* is in the channel, in toCheck or being returned.
Located(c) ==
    \/ ~released[c] /\ \E p \in Clients : InUse(p) /\ hand[p] = c
    \/ released[c] /\ c \in Range(idle) \cup Range(batch)
    \/ released[c] /\ \E p \in Clients : Returning(p) /\ hand[p] = c

LocatedInv == \A c \in Open : Located(c)

\* A step that neither opens nor moves connections.
LEMMA LocatedFrame ==
    ASSUME LocatedInv, UNCHANGED <<life, released, hand, idle, batch>>,
           \A q \in Clients : (InUse(q) => InUse(q)') /\ (Returning(q) => Returning(q)')
    PROVE  LocatedInv'
BY DEF LocatedInv, Located, Open

LEMMA LocatedPanic == LocatedInv /\ Panic => LocatedInv'
BY LocatedFrame DEF Panic, connVars, localVars, InUse, Returning

LEMMA LocatedReceive ==
    ASSUME TypeOK, OnePlace, LocatedInv,
           NEW p \in Clients, pc[p] \in {"tryIdle", "wait"}, Receive(p)
    PROVE  LocatedInv'
<1>1. CASE idle = <<>>
  BY <1>1, LocatedPanic DEF Receive
<1>2. CASE idle # <<>>
  <2>0. PICK c \in Conns : c = Head(idle)
    BY <1>2, IdleHead
  <2>1. /\ idle' = Tail(idle) /\ batch' = batch
        /\ \A q \in Clients \ {p} : pc'[q] = pc[q] /\ hand'[q] = hand[q]
        /\ ~InUse(p) /\ ~Returning(p)
    BY <1>2 DEF Receive, Lend, Hold, Goto, InUse, Returning, ReturnPc, localVars, TypeOK, PcOK, HandOK, Procs
  <2>2. Range(idle) = {c} \cup Range(Tail(idle))
    BY <1>2, <2>0, IdleHead
  <2>3. ASSUME NEW d \in Conns, d # c, Located(d), released'[d] = released[d]
        PROVE  Located(d)'
    BY <2>1, <2>2, <2>3 DEF Located, InUse, Returning
  <2>4. CASE CloseConn(c)
    <3>1. life' = [life EXCEPT ![c] = "none"] /\ released' = released
      BY <2>4 DEF CloseConn, SetLife
    <3>2. \A d \in Open' : d \in Open /\ d # c
      BY <3>1 DEF Open, TypeOK, DataOK
    <3>3. QED
      BY <2>3, <3>1, <3>2 DEF LocatedInv, Open
  <2>5. CASE Lend(p, c)
    <3>1. /\ released' = [released EXCEPT ![c] = FALSE] /\ hand'[p] = c /\ life' = life /\ pc'[p] = "use"
      BY <2>5 DEF Lend, SetReleased, Hold, Goto, TypeOK, PcOK, HandOK, Procs
    <3>2. \A d \in Open' : d \in Open /\ (d # c => released'[d] = released[d])
      BY <3>1 DEF Open, TypeOK, DataOK
    <3>3. Located(c)'
      BY <3>1 DEF Located, InUse, TypeOK, DataOK
    <3>4. QED
      BY <2>3, <3>2, <3>3 DEF LocatedInv, Open
  <2>6. QED
    BY <1>2, <2>0, <2>4, <2>5 DEF Receive
<1>3. QED
  BY <1>1, <1>2

LEMMA LocatedClient ==
    ASSUME TypeOK, OnePlace, LocatedInv, NEW p \in Clients, Client(p)
    PROVE  LocatedInv'
<1>0. p \in Procs /\ (pc[p] \in Holding => hand[p] \in Conns)
  BY DEF Procs, TypeOK, HandOK
<1>1. CASE AcquireCall(p) \/ AcquireCheck(p) \/ AcquireTimeout(p) \/ AcquireTrySlot(p)
           \/ AcquireFactoryFails(p) \/ AcquireRetry(p) \/ ReleaseEnd(p)
  <2>1. \A q \in Clients : (InUse(q) => InUse(q)') /\ (Returning(q) => Returning(q)')
    BY <1>1
       DEF AcquireCall, AcquireCheck, AcquireTimeout, AcquireTrySlot, AcquireFactoryFails, AcquireRetry,
           ReleaseEnd, FreeSlot, Goto, InUse, Returning, ReturnPc, TypeOK, PcOK, Procs
  <2>2. QED
    BY <1>1, <2>1, LocatedFrame
       DEF AcquireCall, AcquireCheck, AcquireTimeout, AcquireTrySlot, AcquireFactoryFails, AcquireRetry,
           ReleaseEnd, FreeSlot, connVars, localVars
<1>2. CASE AcquireTryIdle(p) \/ AcquireWait(p)
  <2>1. CASE Receive(p)
    BY <1>2, <2>1, LocatedReceive DEF AcquireTryIdle, AcquireWait
  <2>2. CASE ~Receive(p)
    <3>1. \A q \in Clients : (InUse(q) => InUse(q)') /\ (Returning(q) => Returning(q)')
      BY <1>2, <2>2
         DEF AcquireTryIdle, AcquireWait, Goto, InUse, Returning, ReturnPc, TypeOK, PcOK, Procs
    <3>2. QED
      BY <1>2, <2>2, <3>1, LocatedFrame DEF AcquireTryIdle, AcquireWait, connVars, localVars
  <2>3. QED
    BY <2>1, <2>2
<1>3. CASE AcquireCreate(p)
  <2>1. PICK c \in Conns : Fresh(c) /\ SetLife(c, "open") /\ SetReleased(c, FALSE) /\ Hold(p, c)
    BY <1>3 DEF AcquireCreate
  <2>2. /\ life' = [life EXCEPT ![c] = "open"] /\ released' = [released EXCEPT ![c] = FALSE]
        /\ hand'[p] = c /\ pc'[p] = "use" /\ idle' = idle /\ batch' = batch
        /\ \A q \in Clients \ {p} : pc'[q] = pc[q] /\ hand'[q] = hand[q]
        /\ ~InUse(p) /\ ~Returning(p)
    BY <1>3, <2>1
       DEF AcquireCreate, SetLife, SetReleased, Hold, Goto, InUse, Returning, ReturnPc, TypeOK, PcOK,
           HandOK, Procs
  <2>3. Located(c)'
    BY <2>2 DEF Located, InUse, TypeOK, DataOK
  <2>4. ASSUME NEW d \in Conns, d # c, Located(d)
        PROVE  Located(d)'
    BY <2>2, <2>4 DEF Located, InUse, Returning, TypeOK, DataOK
  <2>5. \A d \in Open' : d = c \/ d \in Open
    BY <2>2 DEF Open, TypeOK, DataOK
  <2>6. QED
    BY <2>3, <2>4, <2>5 DEF LocatedInv, Open
<1>4. CASE ReleaseMark(p)
  <2>1. /\ idle' = idle /\ batch' = batch /\ life' = life /\ hand[p] \in Conns
        /\ InUse(p) /\ ~Returning(p) /\ ~InUse(p)'
        /\ \A q \in Clients \ {p} : pc'[q] = pc[q] /\ hand'[q] = hand[q]
    BY <1>0, <1>4
       DEF ReleaseMark, Hold, Goto, InUse, Returning, ReturnPc, Holding, TypeOK, PcOK, HandOK, Procs
  <2>2. CASE FirstRelease(hand[p])
    <3>1. released' = [released EXCEPT ![hand[p]] = TRUE] /\ hand'[p] = hand[p] /\ pc'[p] = "relCheck"
      BY <1>0, <1>4, <2>2 DEF ReleaseMark, FirstRelease, SetReleased, Goto, TypeOK, PcOK
    <3>2. QED
      BY <2>1, <3>1 DEF LocatedInv, Located, Open, InUse, Returning, ReturnPc, TypeOK, DataOK
  <2>3. CASE ~FirstRelease(hand[p])
    <3>1. released' = released /\ released[hand[p]]
      BY <1>4, <2>3 DEF ReleaseMark, FirstRelease, TypeOK, DataOK
    <3>2. QED
      BY <2>1, <3>1 DEF LocatedInv, Located, Open, InUse, Returning, TypeOK, DataOK
  <2>4. QED
    BY <2>2, <2>3
<1>5. CASE DuplicateRelease(p)
  <2>1. PICK c \in stale[p] :
          IF FirstRelease(c)
          THEN SetReleased(c, TRUE) /\ Hold(p, c) /\ Goto(p, "relCheck")
          ELSE UNCHANGED <<released, pc, hand>>
    BY <1>5 DEF DuplicateRelease
  <2>2. idle' = idle /\ batch' = batch /\ life' = life /\ c \in Conns /\ ~InUse(p) /\ ~Returning(p)
    BY <1>5, <2>1 DEF DuplicateRelease, InUse, Returning, ReturnPc, TypeOK, DataOK
  <2>3. CASE FirstRelease(c)
    <3>1. /\ released' = [released EXCEPT ![c] = TRUE] /\ hand'[p] = c /\ pc'[p] = "relCheck"
          /\ \A q \in Clients \ {p} : pc'[q] = pc[q] /\ hand'[q] = hand[q]
      BY <1>0, <2>1, <2>3 DEF SetReleased, Hold, Goto, TypeOK, PcOK, HandOK, Procs
    <3>2. QED
      BY <2>2, <3>1 DEF LocatedInv, Located, Open, InUse, Returning, ReturnPc, TypeOK, DataOK
  <2>4. CASE ~FirstRelease(c)
    BY <2>1, <2>2, <2>4, LocatedFrame DEF InUse, Returning
  <2>5. QED
    BY <2>3, <2>4
<1>6. CASE ReleaseCheck(p)
  <2>1. /\ hand[p] \in Conns /\ idle' = idle /\ batch' = batch /\ ~InUse(p)
        /\ \A q \in Clients \ {p} : pc'[q] = pc[q]
    BY <1>0, <1>6
       DEF ReleaseCheck, Goto, InUse, Holding, ReturnPc, localVars, TypeOK, PcOK, Procs
  <2>2. CASE CloseConn(hand[p]) /\ Hold(p, None)
    <3>1. /\ life' = [life EXCEPT ![hand[p]] = "none"] /\ released' = released
          /\ \A q \in Clients \ {p} : hand'[q] = hand[q]
      BY <2>2 DEF CloseConn, SetLife, Hold, TypeOK, HandOK
    <3>2. QED
      BY <2>1, <3>1 DEF LocatedInv, Located, Open, InUse, Returning, TypeOK, DataOK
  <2>3. CASE Goto(p, "relPut") /\ UNCHANGED <<connVars, hand>>
    <3>1. \A q \in Clients : (InUse(q) => InUse(q)') /\ (Returning(q) => Returning(q)')
      BY <1>0, <2>1, <2>3 DEF Goto, InUse, Returning, ReturnPc, TypeOK, PcOK
    <3>2. QED
      BY <2>1, <2>3, <3>1, LocatedFrame DEF connVars
  <2>4. QED
    BY <1>6, <2>2, <2>3 DEF ReleaseCheck
<1>7. CASE ReleasePut(p) /\ chClosed
  BY <1>7, LocatedPanic DEF ReleasePut
<1>8. CASE ReleasePut(p) /\ ~chClosed
  <2>1. /\ batch' = batch /\ hand[p] \in Conns /\ released[hand[p]] /\ ~InUse(p)
        /\ \A q \in Clients \ {p} : pc'[q] = pc[q] /\ hand'[q] = hand[q]
    BY <1>0, <1>8
       DEF ReleasePut, Hold, Goto, InUse, Returning, Holding, ReturnPc, OnePlace, TypeOK, PcOK, HandOK, Procs
  <2>2. CASE Room
    <3>1. idle' = Append(idle, hand[p]) /\ life' = life /\ released' = released
      BY <1>8, <2>2 DEF ReleasePut, connVars
    <3>2. Range(idle') = Range(idle) \cup {hand[p]}
      BY <2>1, <3>1, RangeAppend DEF TypeOK, DataOK
    <3>3. QED
      BY <2>1, <3>1, <3>2 DEF LocatedInv, Located, Open, InUse, Returning
  <2>3. CASE ~Room
    <3>1. idle' = idle /\ life' = [life EXCEPT ![hand[p]] = "none"] /\ released' = released
      BY <1>8, <2>3 DEF ReleasePut, CloseConn, SetLife
    <3>2. QED
      BY <2>1, <3>1 DEF LocatedInv, Located, Open, InUse, Returning, TypeOK, DataOK
  <2>4. QED
    BY <2>2, <2>3
<1>9. QED
  BY <1>1, <1>2, <1>3, <1>4, <1>5, <1>6, <1>7, <1>8 DEF Client, AcquireStep, ReleaseStep

LEMMA LocatedOthers ==
    ASSUME TypeOK, OnePlace, LocatedInv,
           \/ \E w \in Warmers : Warmer(w)
           \/ Health
           \/ \E k \in Closers : Closer(k)
    PROVE  LocatedInv'
<1>1. \A q \in Clients : InUse(q)' = InUse(q) /\ Returning(q)' = Returning(q) /\ hand'[q] = hand[q]
  BY DisjointAssumption
     DEF Warmer, WarmStep, WarmUpCall, EnsureMinCall, WarmSlot, WarmReturn, WarmFactoryFails, WarmPut,
         Health, HealthWork, HealthTick, HealthExit, HealthDone, HealthCollect, HealthCheckConn, HealthFree,
         Closer, CloseStep, CloseMark, CloseChannel, CloseDrain,
         FreeSlot, Panic, localVars, Goto, InUse, Returning, TypeOK, PcOK, Procs
<1>2. CASE UNCHANGED <<life, released, idle, batch>>
  BY <1>1, <1>2 DEF LocatedInv, Located, Open
<1>3. ASSUME NEW w \in Warmers, WarmPut(w), ~UNCHANGED <<life, released, idle, batch>>
      PROVE  LocatedInv'
  <2>1. PICK c \in Conns : Fresh(c) /\ SetLife(c, "open") /\ SetReleased(c, TRUE) /\ idle' = Append(idle, c)
    BY <1>3 DEF WarmPut, Panic, connVars, localVars
  <2>2. Range(idle') = Range(idle) \cup {c}
    BY <2>1, RangeAppend DEF TypeOK, DataOK
  <2>3. batch' = batch
    BY <1>3 DEF WarmPut, Panic, connVars, localVars
  <2>4. QED
    BY <1>1, <2>1, <2>2, <2>3 DEF SetLife, SetReleased, LocatedInv, Located, Open, TypeOK, DataOK
<1>4. CASE HealthCollect /\ idle # <<>>
  <2>1. /\ batch' = Append(batch, Head(idle)) /\ idle' = Tail(idle)
        /\ life' = life /\ released' = released
    BY <1>4 DEF HealthCollect, connVars
  <2>2. Range(batch') = Range(batch) \cup {Head(idle)}
    BY <1>4, <2>1, IdleHead, RangeAppend DEF TypeOK, DataOK
  <2>3. QED
    BY <1>1, <1>4, <2>1, <2>2, IdleHead DEF LocatedInv, Located, Open
<1>5. CASE HealthCheckConn /\ batch' # batch
  <2>1. batch # <<>> /\ batch' = Tail(batch)
    BY <1>5 DEF HealthCheckConn, Panic, localVars
  <2>2. CASE idle' = Append(idle, Head(batch)) /\ UNCHANGED connVars
    <3>1. Range(idle') = Range(idle) \cup {Head(batch)}
      BY <2>1, <2>2, BatchHead, RangeAppend DEF TypeOK, DataOK
    <3>2. QED
      BY <1>1, <2>1, <2>2, <3>1, BatchHead DEF LocatedInv, Located, Open, connVars
  <2>3. CASE CloseConn(Head(batch)) /\ UNCHANGED idle
    BY <1>1, <2>1, <2>3, BatchHead DEF CloseConn, SetLife, LocatedInv, Located, Open, TypeOK, DataOK
  <2>4. QED
    BY <1>5, <2>2, <2>3 DEF HealthCheckConn, Panic, localVars
<1>6. ASSUME NEW k \in Closers, CloseDrain(k), idle # <<>>
      PROVE  LocatedInv'
  <2>1. /\ life' = [life EXCEPT ![Head(idle)] = "drained"] /\ idle' = Tail(idle)
        /\ released' = released /\ batch' = batch
    BY <1>6 DEF CloseDrain, SetLife, localVars
  <2>2. Open' = Open \ {Head(idle)} /\ Range(idle') = Range(idle) \ {Head(idle)}
    BY <1>6, <2>1, IdleHead DEF Open, TypeOK, DataOK
  <2>3. \A c \in Open' : Located(c)'
    BY <1>1, <2>1, <2>2 DEF LocatedInv, Located
  <2>4. QED
    BY <2>3 DEF LocatedInv
<1>7. ASSUME NEW w \in Warmers, Warmer(w)
      PROVE  WarmPut(w) \/ UNCHANGED <<life, released, idle, batch>>
  BY <1>7
     DEF Warmer, WarmStep, WarmUpCall, EnsureMinCall, WarmSlot, WarmReturn, WarmFactoryFails, WarmPut,
         FreeSlot, Panic, connVars, localVars
<1>8. CASE Health
  <2>1. \/ HealthCollect /\ idle # <<>>
        \/ HealthCheckConn /\ batch' # batch
        \/ UNCHANGED <<life, released, idle, batch>>
    BY <1>8
       DEF Health, HealthWork, HealthTick, HealthExit, HealthDone, HealthCollect, HealthCheckConn,
           HealthFree, FreeSlot, Panic, connVars, localVars
  <2>2. QED
    BY <1>2, <1>4, <1>5, <2>1
<1>9. ASSUME NEW k \in Closers, Closer(k)
      PROVE  (CloseDrain(k) /\ idle # <<>>) \/ UNCHANGED <<life, released, idle, batch>>
  BY <1>9 DEF Closer, CloseStep, CloseMark, CloseChannel, CloseDrain, connVars, localVars
<1>10. QED
  BY <1>2, <1>3, <1>6, <1>7, <1>8, <1>9

\* No path of the code drops an open connection: each can still be lent or closed
\* by somebody.
THEOREM NothingLeaks == Spec => []NoLeak
<1>1. Init => LocatedInv
  BY DEF Init, LocatedInv, Open
<1>2. TypeOK /\ OnePlace /\ LocatedInv /\ [Next]_vars => LocatedInv'
  BY LocatedClient, LocatedOthers, LocatedFrame
     DEF Next, Crashed, vars, connVars, localVars, InUse, Returning
<1>3. LocatedInv => NoLeak
  BY DEF LocatedInv, Located, NoLeak
<1>4. QED
  BY TypeCorrect, ReleasedInOnePlace, <1>1, <1>2, <1>3, PTL DEF Spec

-----------------------------------------------------------------------------
(***************************************************************************)
(* Close, the health check and the channel.                                *)
(***************************************************************************)
\* The first Close to run is the only one that waits, and it waits only while
\* the channel is open.
CloseInv ==
    /\ CloseIsOrderly
    /\ \A k \in Closers : pc[k] = "closeWait" => closed /\ ~chClosed
    /\ \A k, l \in Closers : pc[k] = "closeWait" /\ pc[l] = "closeWait" => k = l
    /\ chClosed => closed

\* A step of a goroutine that is neither the health check nor a Close.
LEMMA CloseFrame ==
    ASSUME CloseInv, closed' = closed, chClosed' = chClosed,
           \A q \in Closers \cup {HC} : pc'[q] = pc[q]
    PROVE  CloseInv'
BY DEF CloseInv, CloseIsOrderly

LEMMA CloseClient ==
    ASSUME TypeOK, CloseInv, NEW p \in Clients, Client(p)
    PROVE  CloseInv'
<1>1. closed' = closed /\ chClosed' = chClosed /\ (UNCHANGED pc \/ \E l \in ClientPc : Goto(p, l))
  BY DEF Client, AcquireCall, AcquireStep, ReleaseStep, DuplicateRelease, AcquireCheck, AcquireTryIdle,
         AcquireTrySlot, AcquireCreate, AcquireFactoryFails, AcquireWait, AcquireTimeout, AcquireRetry,
         ReleaseMark, ReleaseCheck, ReleasePut, ReleaseEnd, Receive, Lend, Panic, FreeSlot, flagVars, ClientPc
<1>2. \A q \in Closers \cup {HC} : pc'[q] = pc[q]
  BY <1>1, DisjointAssumption DEF Goto, TypeOK, PcOK, Procs
<1>3. QED
  BY <1>1, <1>2, CloseFrame

LEMMA CloseWarmer ==
    ASSUME TypeOK, CloseInv, NEW w \in Warmers, Warmer(w)
    PROVE  CloseInv'
<1>1. closed' = closed /\ chClosed' = chClosed /\ (UNCHANGED pc \/ \E l \in WarmerPc : Goto(w, l))
  BY DEF Warmer, WarmStep, WarmUpCall, EnsureMinCall, WarmSlot, WarmReturn, WarmFactoryFails, WarmPut,
         Panic, FreeSlot, flagVars, WarmerPc
<1>2. \A q \in Closers \cup {HC} : pc'[q] = pc[q]
  BY <1>1, DisjointAssumption DEF Goto, TypeOK, PcOK, Procs
<1>3. QED
  BY <1>1, <1>2, CloseFrame

\* The health check does nothing once it has exited.
LEMMA CloseHealth ==
    ASSUME TypeOK, CloseInv, Health
    PROVE  CloseInv'
<1>1. pc[HC] # "hcExited" /\ closed' = closed /\ chClosed' = chClosed
  BY DEF Health, HealthWork, HealthTick, HealthExit, HealthDone, HealthCollect, HealthCheckConn, HealthFree,
         Panic, FreeSlot, flagVars
<1>2. \A k \in Closers : pc'[k] = pc[k]
  BY DisjointAssumption
     DEF Health, HealthWork, HealthTick, HealthExit, HealthDone, HealthCollect, HealthCheckConn, HealthFree,
         Panic, FreeSlot, Goto, TypeOK, PcOK, Procs
<1>3. QED
  BY <1>1, <1>2 DEF CloseInv, CloseIsOrderly

LEMMA CloseCloser ==
    ASSUME TypeOK, CloseInv, NEW k \in Closers, Closer(k)
    PROVE  CloseInv'
<1>1. pc'[HC] = pc[HC] /\ \A l \in Closers \ {k} : pc'[l] = pc[l]
  BY DisjointAssumption
     DEF Closer, CloseStep, CloseMark, CloseChannel, CloseDrain, Goto, TypeOK, PcOK, Procs
<1>2. CASE CloseMark(k)
  BY <1>1, <1>2 DEF CloseMark, Goto, CloseInv, CloseIsOrderly, TypeOK, PcOK, Procs
<1>3. CASE CloseChannel(k)
  BY <1>1, <1>3 DEF CloseChannel, WaitGroupDone, Goto, CloseInv, CloseIsOrderly, TypeOK, PcOK, Procs
<1>4. CASE CloseDrain(k)
  BY <1>1, <1>4 DEF CloseDrain, flagVars, Goto, CloseInv, CloseIsOrderly, TypeOK, PcOK, Procs
<1>5. QED
  BY <1>2, <1>3, <1>4 DEF Closer, CloseStep

\* close(p.conns) runs once, after the health check has ended, so that the loop
\* neither sends to nor receives from a closed channel.
THEOREM CloseOrdered == Spec => []CloseIsOrderly
<1>1. Init => CloseInv
  BY DisjointAssumption DEF Init, CloseInv, CloseIsOrderly, Procs
<1>2. TypeOK /\ CloseInv /\ [Next]_vars => CloseInv'
  BY CloseClient, CloseWarmer, CloseHealth, CloseCloser, CloseFrame DEF Next, Crashed, vars, flagVars
<1>3. CloseInv => CloseIsOrderly
  BY DEF CloseInv
<1>4. QED
  BY TypeCorrect, <1>1, <1>2, <1>3, PTL DEF Spec
=============================================================================
