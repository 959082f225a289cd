-------------------------- MODULE SchedulerProofs --------------------------
(***************************************************************************)
(* Theorems of Scheduler, for any tasks, dependencies, numbers of retries  *)
(* and of runs.  The invariant adds to the properties what makes them      *)
(* inductive: one goroutine at a time for a one-time task, and a count of  *)
(* the goroutines between the test of RetryCount and its increment.        *)
(***************************************************************************)
EXTENDS Scheduler, FiniteSetTheorems, TLAPS

\* Before the main goroutine runs a task has neither run nor been retried.
Early == {"none", "checked", "registered"}
NotBegun == \A t \in Tasks : pc[t][Main] \in Early => retries[t] = 0 /\ runs[t] = 0

\* Of a one-time task one goroutine at most waits for its time or executes; each starts
\* the function once, and who is to retry may.
Live == Executing \cup {"wait"}
InTurn(t) ==
    /\ \A r, q \in Runners : pc[t][r] \in Live /\ pc[t][q] \in Live => r = q
    /\ runs[t] <= 1 + retries[t]
    /\ \A r \in Runners : pc[t][r] \in {"wait", "deps", "reading", "start"} => runs[t] <= retries[t]
    /\ retries[t] <= MaxRetries[t]
    /\ \A r \in Runners : pc[t][r] = "retry" => retries[t] < MaxRetries[t]
OnceInTurn == \A t \in Once : InTurn(t)

\* Goroutines that have passed the test of RetryCount and not counted their retry yet.
Retrying(t) == {r \in Runners : pc[t][r] = "retry"}
InReach(t) ==
    \/ retries[t] = 0 /\ Retrying(t) = {}
    \/ retries[t] + Cardinality(Retrying(t)) < 2 * MaxRetries[t]
RetriesInReach == \A t \in Tasks : InReach(t)

\* Only After makes a task completed, a one-time task whose main goroutine is over.
CompletedOver == \A t \in Tasks : state[t] = "completed" => t \in Once /\ pc[t][Main] = "exit"

SchedulerInv ==
    /\ TypeOK /\ NotBegun /\ OnceInTurn /\ RetriesInReach
    /\ CompletedOver /\ DependenciesOver /\ StateTells

-----------------------------------------------------------------------------
\* One goroutine goes to another label and the others stay where they are.
Labels == Executing \cup Early \cup {"wait", "after", "exit"}
Moved(t, r, l) ==
    /\ pc' \in [Tasks -> [Runners -> Labels]]
    /\ pc'[t][r] = l
    /\ \A u \in Tasks, q \in Runners : u # t \/ q # r => pc'[u][q] = pc[u][q]

LEMMA GotoMoves ==
    ASSUME TypeOK, NEW t \in Tasks, NEW r \in Runners, NEW l \in Labels, Goto(t, r, l)
    PROVE  Moved(t, r, l)
BY DEF TypeOK, Goto, Moved, Labels, Early, Executing

\* What the goroutine of a task that has been started can do next.
LEMMA ReturnLabel == \A r \in Runners : Return(r) \in {"after", "exit"}
BY DEF Return

LEMMA MainRunner == Main \in Runners /\ Main = 0 /\ Main \notin Retries
BY SchedulerAssumption DEF Main, Runners

-----------------------------------------------------------------------------
(***************************************************************************)
(* Types.                                                                  *)
(***************************************************************************)
LEMMA InitType == Init => TypeOK
BY SchedulerAssumption, MainRunner DEF Init, TypeOK, Runners

\* A goroutine that exists moves on.
LEMMA MoveType ==
    ASSUME TypeOK, NEW t \in Tasks, NEW r \in Runners, NEW l \in Labels \ {"none"},
           Goto(t, r, l), r = Main \/ pc[t][r] # "none",
           UNCHANGED <<closing, known, cancelled, configured, retries>>,
           state' \in [Tasks -> {"none", "pending", "running", "completed", "cancelled"}],
           runs' \in [Tasks -> Nat], need' \in [Tasks -> SUBSET Tasks],
           left' \in [Tasks -> [Runners -> SUBSET Tasks]]
    PROVE  TypeOK'
<1>1. Moved(t, r, l)
  BY GotoMoves
<1>2. ASSUME NEW u \in Tasks, NEW q \in Retries
      PROVE  pc'[u][q] = "none" <=> q > retries'[u]
  <2>1. q \in Runners /\ q # Main /\ (pc[u][q] = "none" <=> q > retries[u])
    BY MainRunner DEF TypeOK, Runners
  <2>2. CASE u = t /\ q = r
    BY <1>1, <2>1, <2>2 DEF Moved
  <2>3. CASE u # t \/ q # r
    BY <1>1, <2>1, <2>3 DEF Moved
  <2> QED BY <2>2, <2>3
<1> QED BY <1>1, <1>2 DEF TypeOK, Moved, Labels, Early

\* ScheduleRetry starts the goroutine of the next retry.
LEMMA RetryMoves ==
    ASSUME TypeOK, NEW t \in Tasks, NEW r \in Runners, ScheduleRetry(t, r)
    PROVE  /\ pc' \in [Tasks -> [Runners -> Labels]]
           /\ retries' \in [Tasks -> Nat] /\ retries'[t] = retries[t] + 1
           /\ \A u \in Tasks \ {t} : pc'[u] = pc[u] /\ retries'[u] = retries[u]
           /\ \A q \in Runners : pc'[t][q] = IF q = retries[t] + 1 THEN "wait"
                                             ELSE IF q = r THEN Return(r) ELSE pc[t][q]
<1> DEFINE first == [pc EXCEPT ![t][r] = Return(r)]
<1>1. Return(r) \in Labels
  BY ReturnLabel DEF Labels
<1>2. first \in [Tasks -> [Runners -> Labels]]
  BY <1>1 DEF TypeOK, Labels, Early, Executing
<1>3. /\ first[t][r] = Return(r)
      /\ \A q \in Runners \ {r} : first[t][q] = pc[t][q]
      /\ \A u \in Tasks \ {t} : first[u] = pc[u]
  BY DEF TypeOK
<1>4. pc' = [first EXCEPT ![t][retries[t] + 1] = "wait"]
  BY DEF ScheduleRetry
<1> HIDE DEF first
<1>5. pc' \in [Tasks -> [Runners -> Labels]]
  BY <1>2, <1>4 DEF Labels
<1>6. \A u \in Tasks \ {t} : pc'[u] = pc[u]
  BY <1>2, <1>3, <1>4
<1>7. \A q \in Runners : pc'[t][q] = IF q = retries[t] + 1 THEN "wait" ELSE first[t][q]
  BY <1>2, <1>4
<1>8. /\ retries' \in [Tasks -> Nat] /\ retries'[t] = retries[t] + 1
      /\ \A u \in Tasks \ {t} : retries'[u] = retries[u]
  BY DEF ScheduleRetry, CountRetry, TypeOK
<1> QED BY <1>3, <1>5, <1>6, <1>7, <1>8

LEMMA OwnerType ==
    ASSUME TypeOK, NEW t \in Tasks, Schedule(t) \/ Configure(t) \/ Cancel(t) \/ Remove(t)
    PROVE  TypeOK'
<1>1. CASE ScheduleCheck(t) \/ ScheduleStart(t)
  BY <1>1, MoveType, MainRunner DEF ScheduleCheck, ScheduleStart, Labels, Early, TypeOK, data
<1>2. CASE ScheduleRegister(t)
  <2>1. Moved(t, Main, "registered")
    BY <1>2, GotoMoves, MainRunner DEF ScheduleRegister, Labels, Early
  <2>2. ASSUME NEW u \in Tasks, NEW q \in Retries
        PROVE  pc'[u][q] = "none" <=> q > retries'[u]
    <3>1. q \in Runners /\ q # Main /\ (pc[u][q] = "none" <=> q > retries[u])
      BY MainRunner DEF TypeOK, Runners
    <3> QED BY <1>2, <2>1, <3>1 DEF ScheduleRegister, Moved
  <2> QED BY <1>2, <2>1, <2>2 DEF ScheduleRegister, SetState, TypeOK, Moved, Labels, Early
<1>3. CASE Configure(t) \/ Cancel(t) \/ Remove(t)
  BY <1>3 DEF Configure, Cancel, Remove, SetState, TypeOK
<1> QED BY <1>1, <1>2, <1>3 DEF Schedule

LEMMA RunnerType ==
    ASSUME TypeOK, NEW t \in Tasks, NEW r \in Runners, Stop(t, r) \/ Fire(t, r) \/ Execute(t, r)
    PROVE  TypeOK'
<1> USE ReturnLabel DEF Labels, Early, Executing
<1>1. CASE Stop(t, r)
  <2>1. /\ state' \in [Tasks -> {"none", "pending", "running", "completed", "cancelled"}]
        /\ UNCHANGED <<closing, known, cancelled, configured, retries, runs, left, need>>
    BY <1>1 DEF Stop, SetState, TypeOK
  <2>2. pc[t][r] = "wait" /\ Goto(t, r, "exit")
    BY <1>1 DEF Stop
  <2> QED BY <2>1, <2>2, MoveType DEF TypeOK
<1>2. CASE Fire(t, r)
  BY <1>2, MoveType DEF Fire, TypeOK, data
<1>3. CASE AreDependenciesMet(t, r)
  <2>1. need' \in [Tasks -> SUBSET Tasks] /\ left' \in [Tasks -> [Runners -> SUBSET Tasks]]
    <3>1. CASE CheckDeps(t, r)
      <4>1. (IF t \in configured THEN Deps[t] ELSE {}) \in SUBSET Tasks
        BY SchedulerAssumption
      <4> QED BY <3>1, <4>1 DEF CheckDeps, TypeOK
    <3>2. CASE \E d \in Tasks : ReadDep(t, r, d)
      <4>1. PICK d \in Tasks : ReadDep(t, r, d)
        BY <3>2
      <4>2. PICK rest \in SUBSET Tasks : left' = [left EXCEPT ![t][r] = rest]
        <5>1. left[t][r] \subseteq Tasks
          BY DEF TypeOK
        <5>2. (IF DependencyMet(d) THEN left[t][r] \ {d} ELSE {}) \in SUBSET Tasks
          BY <5>1
        <5> QED BY <4>1, <5>2 DEF ReadDep
      <4>3. need' \in [Tasks -> SUBSET Tasks]
        BY <4>1 DEF ReadDep, TypeOK
      <4> QED BY <4>2, <4>3 DEF TypeOK
    <3> QED BY <1>3, <3>1, <3>2 DEF AreDependenciesMet
  <2>2. PICK l \in Labels \ {"none"} : Goto(t, r, l) /\ pc[t][r] # "none"
    BY <1>3 DEF AreDependenciesMet, CheckDeps, ReadDep
  <2>3. UNCHANGED <<closing, known, cancelled, configured, state, retries, runs>>
    BY <1>3 DEF AreDependenciesMet, CheckDeps, ReadDep
  <2> QED BY <2>1, <2>2, <2>3, MoveType DEF TypeOK
<1>4. CASE Start(t, r)
  BY <1>4, MoveType DEF Start, SetState, TypeOK
<1>5. CASE FuncReturns(t, r) \/ CheckRetry(t, r)
  <2>1. PICK l \in Labels \ {"none"} : Goto(t, r, l)
    BY <1>5 DEF FuncReturns, CheckRetry
  <2> QED BY <1>5, <2>1, MoveType DEF FuncReturns, CheckRetry, TypeOK, data
<1>6. CASE ScheduleRetry(t, r)
  <2>1. state' \in [Tasks -> {"none", "pending", "running", "completed", "cancelled"}]
    BY <1>6 DEF ScheduleRetry, TypeOK, SetState
  <2>2. ASSUME NEW u \in Tasks, NEW q \in Retries
        PROVE  pc'[u][q] = "none" <=> q > retries'[u]
    <3>1. q \in Runners /\ q # Main /\ q \in Nat /\ (pc[u][q] = "none" <=> q > retries[u])
      BY SchedulerAssumption, MainRunner DEF TypeOK, Runners
    <3>2. CASE u = t
      <4>1. /\ retries[t] \in Nat /\ retries'[t] = retries[t] + 1
            /\ pc'[t][q] = IF q = retries[t] + 1 THEN "wait"
                           ELSE IF q = r THEN Return(r) ELSE pc[t][q]
        BY <1>6, <3>1, RetryMoves DEF TypeOK
      <4>2. pc[t][r] # "none" /\ Return(r) # "none"
        BY <1>6, ReturnLabel DEF ScheduleRetry
      <4> QED BY <3>1, <3>2, <4>1, <4>2
    <3>3. CASE u # t
      BY <1>6, <3>1, <3>3, RetryMoves
    <3> QED BY <3>2, <3>3
  <2>3. UNCHANGED <<closing, known, cancelled, configured, runs, left, need>>
    BY <1>6 DEF ScheduleRetry
  <2>4. pc' \in [Tasks -> [Runners -> Labels]] /\ retries' \in [Tasks -> Nat]
    BY <1>6, RetryMoves
  <2> QED BY <2>1, <2>2, <2>3, <2>4 DEF TypeOK
<1> QED BY <1>1, <1>2, <1>3, <1>4, <1>5, <1>6 DEF Execute

LEMMA StepType == TypeOK /\ [Next]_vars => TypeOK'
<1> SUFFICES ASSUME TypeOK, [Next]_vars PROVE TypeOK'
  OBVIOUS
<1>1. ASSUME NEW t \in Tasks, After(t) PROVE TypeOK'
  <2>1. CASE t \in Once
    <3>1. /\ state' \in [Tasks -> {"none", "pending", "running", "completed", "cancelled"}]
          /\ need' \in [Tasks -> SUBSET Tasks] /\ Goto(t, Main, "exit")
      BY <1>1, <2>1 DEF After, SetState, TypeOK
    <3> QED BY <1>1, <3>1, MoveType, MainRunner DEF After, TypeOK, Labels
  <2>2. CASE t \notin Once
    BY <1>1, <2>2, MoveType, MainRunner DEF After, TypeOK, Labels
  <2> QED BY <2>1, <2>2
<1>2. CASE CloseMark \/ CloseReturn
  BY <1>2 DEF CloseMark, CloseReturn, TypeOK, data
<1>3. CASE UNCHANGED vars
  BY <1>3 DEF vars, TypeOK
<1> QED BY <1>1, <1>2, <1>3, OwnerType, RunnerType DEF Next

-----------------------------------------------------------------------------
(***************************************************************************)
(* What a step does to the goroutines, and leaves alone.                   *)
(***************************************************************************)
Still == UNCHANGED <<retries, runs, pc>>

LEMMA ScheduleSteps ==
    ASSUME TypeOK, NEW t \in Tasks, Schedule(t)
    PROVE  /\ UNCHANGED <<retries, runs, need>>
           /\ \A u \in Tasks : state'[u] \in {state[u], "pending"}
           /\ \/ pc[t][Main] = "none" /\ Moved(t, Main, "checked") /\ UNCHANGED state
              \/ pc[t][Main] = "checked" /\ Moved(t, Main, "registered") /\ state'[t] = "pending"
              \/ pc[t][Main] = "registered" /\ Moved(t, Main, "wait") /\ UNCHANGED state
<1> USE MainRunner DEF Labels, Early, data, SetState, TypeOK
<1>1. CASE ScheduleCheck(t)
  BY <1>1, GotoMoves DEF ScheduleCheck
<1>2. CASE ScheduleRegister(t)
  BY <1>2, GotoMoves DEF ScheduleRegister
<1>3. CASE ScheduleStart(t)
  BY <1>3, GotoMoves DEF ScheduleStart
<1> QED BY <1>1, <1>2, <1>3 DEF Schedule

LEMMA OwnerSteps ==
    ASSUME TypeOK, NEW t \in Tasks, Configure(t) \/ Cancel(t) \/ Remove(t)
    PROVE  /\ Still /\ UNCHANGED need
           /\ \A u \in Tasks : state'[u] \in {state[u], "cancelled"}
BY DEF Configure, Cancel, Remove, SetState, TypeOK, Still

LEMMA CloseSteps ==
    ASSUME CloseMark \/ CloseReturn \/ UNCHANGED vars
    PROVE  Still /\ UNCHANGED <<state, need>>
BY DEF CloseMark, CloseReturn, vars, data, Still

LEMMA StopStep ==
    ASSUME TypeOK, NEW t \in Tasks, NEW r \in Runners, Stop(t, r)
    PROVE  /\ UNCHANGED <<retries, runs, need>>
           /\ pc[t][r] = "wait" /\ Moved(t, r, "exit")
           /\ \A u \in Tasks : state'[u] \in {state[u], "cancelled"}
           /\ r = Main => state'[t] = "cancelled"
BY GotoMoves DEF Stop, SetState, TypeOK, Labels

LEMMA FireStep ==
    ASSUME TypeOK, NEW t \in Tasks, NEW r \in Runners, Fire(t, r)
    PROVE  /\ UNCHANGED <<retries, runs, need, state>>
           /\ pc[t][r] = "wait" /\ Moved(t, r, "deps")
BY GotoMoves DEF Fire, data, Labels, Executing

LEMMA DependenciesStep ==
    ASSUME TypeOK, NEW t \in Tasks, NEW r \in Runners, AreDependenciesMet(t, r)
    PROVE  /\ UNCHANGED <<retries, runs, state>>
           /\ pc[t][r] \in {"deps", "reading"}
           /\ \E l \in {"reading", "start", Return(r)} : Moved(t, r, l)
           /\ r = Main => \A d \in need'[t] :
                d \in Tasks /\ (state[d] = "completed" \/ (pc[t][r] = "reading" /\ d \in need[t]))
           /\ \A u \in Tasks : u # t \/ r # Main => need'[u] = need[u]
<1> USE ReturnLabel DEF Labels, Executing
<1>1. CASE CheckDeps(t, r)
  <2>1. PICK l \in {"reading", "start"} : Goto(t, r, l)
    BY <1>1 DEF CheckDeps
  <2> QED BY <1>1, <2>1, GotoMoves DEF CheckDeps, TypeOK
<1>2. CASE \E e \in Tasks : ReadDep(t, r, e)
  <2>1. PICK e \in Tasks : ReadDep(t, r, e)
    BY <1>2
  <2>2. PICK l \in {"reading", "start", Return(r)} : Goto(t, r, l)
    BY <2>1 DEF ReadDep
  <2>3. r = Main => \A d \in need'[t] : d \in Tasks /\ (state[d] = "completed" \/ d \in need[t])
    BY <2>1 DEF ReadDep, DependencyMet, TypeOK
  <2>4. Moved(t, r, l)
    BY <2>2, GotoMoves
  <2>5. UNCHANGED <<retries, runs, state>> /\ pc[t][r] = "reading"
    BY <2>1 DEF ReadDep
  <2>6. \A u \in Tasks : u # t \/ r # Main => need'[u] = need[u]
    BY <2>1 DEF ReadDep, TypeOK
  <2>7. \E k \in {"reading", "start", Return(r)} : Moved(t, r, k)
    BY <2>4, Zenon
  <2>8. pc[t][r] \in {"deps", "reading"}
    BY <2>5
  <2>9. r = Main => \A d \in need'[t] :
          d \in Tasks /\ (state[d] = "completed" \/ (pc[t][r] = "reading" /\ d \in need[t]))
    BY <2>3, <2>5
  <2> QED BY <2>5, <2>6, <2>7, <2>8, <2>9
<1> QED BY <1>1, <1>2 DEF AreDependenciesMet

LEMMA StartStep ==
    ASSUME TypeOK, NEW t \in Tasks, NEW r \in Runners, Start(t, r)
    PROVE  /\ UNCHANGED <<retries, need>>
           /\ pc[t][r] = "start" /\ Moved(t, r, "func")
           /\ runs'[t] = runs[t] + 1 /\ state'[t] = "running"
           /\ \A u \in Tasks \ {t} : runs'[u] = runs[u] /\ state'[u] = state[u]
BY GotoMoves DEF Start, SetState, TypeOK, Labels, Executing

LEMMA FuncReturnsStep ==
    ASSUME TypeOK, NEW t \in Tasks, NEW r \in Runners, FuncReturns(t, r)
    PROVE  /\ UNCHANGED <<retries, runs, need, state>>
           /\ pc[t][r] = "func" /\ (Moved(t, r, "failed") \/ Moved(t, r, Return(r)))
BY GotoMoves, ReturnLabel DEF FuncReturns, data, Labels, Executing

LEMMA CheckRetryStep ==
    ASSUME TypeOK, NEW t \in Tasks, NEW r \in Runners, CheckRetry(t, r)
    PROVE  /\ UNCHANGED <<retries, runs, need, state>>
           /\ pc[t][r] = "failed"
           /\ \/ Moved(t, r, "retry") /\ retries[t] < MaxRetries[t]
              \/ Moved(t, r, Return(r))
BY GotoMoves, ReturnLabel DEF CheckRetry, MayRetry, data, Labels, Executing

LEMMA ScheduleRetryStep ==
    ASSUME TypeOK, NEW t \in Tasks, NEW r \in Runners, ScheduleRetry(t, r)
    PROVE  /\ UNCHANGED <<runs, need>>
           /\ pc[t][r] = "retry" /\ state'[t] = "pending"
           /\ \A u \in Tasks \ {t} : state'[u] = state[u]
BY DEF ScheduleRetry, SetState, TypeOK

LEMMA AfterStep ==
    ASSUME TypeOK, NEW t \in Tasks, After(t)
    PROVE  /\ UNCHANGED <<retries, runs>>
           /\ pc[t][Main] = "after"
           /\ \/ t \in Once /\ Moved(t, Main, "exit") /\ state'[t] = "completed"
              \/ t \notin Once /\ Moved(t, Main, "wait") /\ state'[t] = state[t]
           /\ \A u \in Tasks \ {t} : state'[u] = state[u] /\ need'[u] = need[u]
<1>1. CASE t \in Once
  BY <1>1, GotoMoves, MainRunner DEF After, SetState, TypeOK, Labels
<1>2. CASE t \notin Once
  BY <1>2, GotoMoves, MainRunner DEF After, TypeOK, Labels
<1> QED BY <1>1, <1>2

-----------------------------------------------------------------------------
\* Until the main goroutine runs there is no other.
LEMMA EarlyAlone ==
    ASSUME TypeOK, NotBegun, NEW t \in Tasks, pc[t][Main] \in Early
    PROVE  \A r \in Retries : pc[t][r] = "none"
BY SchedulerAssumption DEF TypeOK, NotBegun

\* A goroutine that executes or waits leaves no trace in the labels before.
LEMMA RunnerMoves ==
    ASSUME TypeOK, NEW t \in Tasks, NEW r \in Runners,
           Stop(t, r) \/ Fire(t, r) \/ AreDependenciesMet(t, r) \/ FuncReturns(t, r) \/ CheckRetry(t, r)
    PROVE  /\ UNCHANGED <<retries, runs>>
           /\ pc[t][r] \in Live
           /\ \E l \in Labels \ Early : Moved(t, r, l)
<1> USE ReturnLabel DEF Labels, Early, Executing, Live
<1>1. CASE Stop(t, r)
  BY <1>1, StopStep
<1>2. CASE Fire(t, r)
  BY <1>2, FireStep
<1>3. CASE AreDependenciesMet(t, r)
  BY <1>3, DependenciesStep
<1>4. CASE FuncReturns(t, r)
  BY <1>4, FuncReturnsStep
<1>5. CASE CheckRetry(t, r)
  BY <1>5, CheckRetryStep
<1> QED BY <1>1, <1>2, <1>3, <1>4, <1>5

LEMMA NotBegunStep ==
    ASSUME TypeOK, NotBegun, [Next]_vars
    PROVE  NotBegun'
<1> USE MainRunner DEF NotBegun
<1>1. ASSUME NEW t \in Tasks, Schedule(t) PROVE NotBegun'
  BY <1>1, ScheduleSteps DEF Moved, Early
<1>2. ASSUME NEW t \in Tasks, Configure(t) \/ Cancel(t) \/ Remove(t) PROVE NotBegun'
  BY <1>2, OwnerSteps DEF Still
<1>3. ASSUME NEW t \in Tasks, NEW r \in Runners,
             Stop(t, r) \/ Fire(t, r) \/ AreDependenciesMet(t, r) \/ FuncReturns(t, r) \/ CheckRetry(t, r)
      PROVE  NotBegun'
  BY <1>3, RunnerMoves DEF Moved
<1>4. ASSUME NEW t \in Tasks, NEW r \in Runners, Start(t, r) PROVE NotBegun'
  <2>1. pc[t][Main] \notin Early
    BY <1>4, StartStep, EarlyAlone DEF Early, Runners
  <2> QED BY <1>4, <2>1, StartStep DEF Moved, Early
<1>5. ASSUME NEW t \in Tasks, NEW r \in Runners, ScheduleRetry(t, r) PROVE NotBegun'
  <2>1. pc[t][Main] \notin Early
    BY <1>5, ScheduleRetryStep, EarlyAlone DEF Early, Runners
  <2>2. pc'[t][Main] \notin Early
    BY <1>5, <2>1, RetryMoves, ReturnLabel DEF Early
  <2> QED BY <1>5, <2>2, ScheduleRetryStep, RetryMoves
<1>6. ASSUME NEW t \in Tasks, After(t) PROVE NotBegun'
  BY <1>6, AfterStep DEF Moved, Early
<1>7. CASE CloseMark \/ CloseReturn \/ UNCHANGED vars
  BY <1>7, CloseSteps DEF Still
<1> QED BY <1>1, <1>2, <1>3, <1>4, <1>5, <1>6, <1>7 DEF Next, Execute

LEMMA OnceInTurnStep ==
    ASSUME TypeOK, NotBegun, OnceInTurn, [Next]_vars
    PROVE  OnceInTurn'
<1> USE MainRunner
<1>0. SUFFICES ASSUME NEW o \in Once PROVE InTurn(o)'
  BY DEF OnceInTurn
<1>a. o \in Tasks /\ InTurn(o) /\ MaxRetries[o] \in Nat /\ retries[o] \in Nat /\ runs[o] \in Nat
  BY SchedulerAssumption DEF OnceInTurn, TypeOK
<1>b. ASSUME \A q \in Runners : pc'[o][q] = pc[o][q], retries'[o] = retries[o], runs'[o] = runs[o] PROVE InTurn(o)'
  BY <1>a, <1>b DEF InTurn
<1>1. ASSUME NEW t \in Tasks, Schedule(t) PROVE InTurn(o)'
  BY <1>1, <1>a, EarlyAlone, ScheduleSteps DEF Moved, Early, InTurn, Live, Executing, NotBegun, Runners
<1>2. ASSUME NEW t \in Tasks, Configure(t) \/ Cancel(t) \/ Remove(t) PROVE InTurn(o)'
  BY <1>2, <1>b, OwnerSteps DEF Still
<1>3. ASSUME NEW t \in Tasks, NEW r \in Runners, Stop(t, r) \/ Fire(t, r) PROVE InTurn(o)'
  BY <1>3, <1>a, StopStep, FireStep DEF Moved, InTurn, Live, Executing
<1>4. ASSUME NEW t \in Tasks, NEW r \in Runners, AreDependenciesMet(t, r) PROVE InTurn(o)'
  <2>0. \E l \in {"reading", "start", Return(r)} : Moved(t, r, l)
    BY <1>4, DependenciesStep
  <2>1. PICK l \in {"reading", "start", "after", "exit"} : Moved(t, r, l)
    BY <2>0, ReturnLabel
  <2>2. retries' = retries /\ runs' = runs /\ pc[t][r] \in {"deps", "reading"}
    BY <1>4, DependenciesStep
  <2>3. CASE t # o
    <3>1. \A q \in Runners : pc'[o][q] = pc[o][q]
      BY <1>a, <2>1, <2>3 DEF Moved
    <3> QED BY <1>b, <2>2, <3>1
  <2>4. CASE t = o
    <3>1. \A q \in Runners : pc'[o][q] \in Live => pc[o][q] \in Live
      BY <2>1, <2>2, <2>4 DEF Moved, Live, Executing
    <3>2. runs[o] <= retries[o]
      BY <1>a, <2>2, <2>4 DEF InTurn
    <3>3. \A q \in Runners : pc'[o][q] = "retry" => pc[o][q] = "retry"
      BY <2>1, <2>4 DEF Moved
    <3> QED BY <1>a, <2>2, <3>1, <3>2, <3>3 DEF InTurn
  <2> QED BY <2>3, <2>4
<1>5. ASSUME NEW t \in Tasks, NEW r \in Runners, Start(t, r) PROVE InTurn(o)'
  <2>1. CASE t # o
    BY <1>5, <1>a, <1>b, <2>1, StartStep DEF Moved
  <2>2. CASE t = o
    <3>1. /\ retries'[o] = retries[o] /\ runs'[o] = runs[o] + 1 /\ pc[o][r] = "start"
          /\ pc'[o][r] = "func" /\ \A q \in Runners : q # r => pc'[o][q] = pc[o][q]
      BY <1>5, <1>a, <2>2, StartStep DEF Moved
    <3>2. \A q \in Runners : q # r => pc[o][q] \notin Live
      BY <1>a, <3>1 DEF InTurn, Live, Executing
    <3>3. runs[o] <= retries[o] /\ retries[o] <= MaxRetries[o]
      BY <1>a, <3>1 DEF InTurn
    <3>4. \A q \in Runners : pc'[o][q] \in Live => q = r
      BY <3>1, <3>2
    <3>5. \A q \in Runners : pc'[o][q] \notin {"wait", "deps", "reading", "start", "retry"}
      BY <3>1, <3>4 DEF Live, Executing
    <3> QED BY <1>a, <3>1, <3>3, <3>4, <3>5 DEF InTurn
  <2> QED BY <2>1, <2>2
<1>6. ASSUME NEW t \in Tasks, NEW r \in Runners, FuncReturns(t, r) PROVE InTurn(o)'
  <2>1. CASE t # o
    BY <1>6, <1>a, <1>b, <2>1, FuncReturnsStep DEF Moved
  <2>2. CASE t = o
    BY <1>6, <1>a, <2>2, FuncReturnsStep, ReturnLabel DEF Moved, InTurn, Live, Executing
  <2> QED BY <2>1, <2>2
<1>7. ASSUME NEW t \in Tasks, NEW r \in Runners, CheckRetry(t, r) PROVE InTurn(o)'
  BY <1>7, <1>a, CheckRetryStep, ReturnLabel DEF Moved, InTurn, Live, Executing
<1>8. ASSUME NEW t \in Tasks, NEW r \in Runners, ScheduleRetry(t, r) PROVE InTurn(o)'
  <2>1. CASE t # o
    BY <1>8, <1>a, <1>b, <2>1, ScheduleRetryStep, RetryMoves
  <2>2. CASE t = o
    <3>1. /\ retries'[o] = retries[o] + 1 /\ runs'[o] = runs[o] /\ pc[o][r] = "retry"
          /\ \A q \in Runners : pc'[o][q] = IF q = retries[o] + 1 THEN "wait"
                                            ELSE IF q = r THEN Return(r) ELSE pc[o][q]
      <4>1. runs'[o] = runs[o] /\ pc[o][r] = "retry"
        BY <1>8, <2>2, ScheduleRetryStep
      <4> QED BY <1>8, <2>2, <4>1, RetryMoves
    <3>2. \A q \in Runners : q # r => pc[o][q] \notin Live
      BY <1>a, <3>1 DEF InTurn, Live, Executing
    <3>3. \A q \in Runners : pc'[o][q] \in Live => q = retries[o] + 1
      BY <3>1, <3>2, ReturnLabel DEF Live, Executing
    <3>4. retries[o] < MaxRetries[o]
      BY <1>a, <3>1 DEF InTurn
    <3>5. \A q \in Runners : pc'[o][q] # "retry"
      BY <3>1, <3>2, ReturnLabel DEF Live, Executing
    <3> QED BY <1>a, <3>1, <3>3, <3>4, <3>5 DEF InTurn
  <2> QED BY <2>1, <2>2
<1>9. ASSUME NEW t \in Tasks, After(t) PROVE InTurn(o)'
  BY <1>9, <1>a, AfterStep DEF Moved, InTurn, Live, Executing
<1>10. CASE CloseMark \/ CloseReturn \/ UNCHANGED vars
  BY <1>10, <1>b, CloseSteps DEF Still
<1> QED BY <1>1, <1>2, <1>3, <1>4, <1>5, <1>6, <1>7, <1>8, <1>9, <1>10 DEF Next, Execute

-----------------------------------------------------------------------------
(***************************************************************************)
(* Retries.  Whoever passes the test of RetryCount finds no more           *)
(* goroutines about to retry than the task has goroutines.                 *)
(***************************************************************************)
LEMMA RetryingBounded ==
    ASSUME TypeOK, NEW t \in Tasks
    PROVE  IsFiniteSet(Retrying(t)) /\ Cardinality(Retrying(t)) \in 0..(retries[t] + 1)
<1>1. \A r \in Retrying(t) : r \in Nat /\ r <= retries[t]
  BY SchedulerAssumption, MainRunner DEF Retrying, TypeOK, Runners
<1>2. retries[t] \in Nat
  BY DEF TypeOK
<1>3. IsFiniteSet(Retrying(t)) /\ Cardinality(Retrying(t)) <= retries[t] + 1
  BY <1>1, <1>2, FS_BoundedSetOfNaturals
<1> QED BY <1>2, <1>3, FS_CardinalityType

LEMMA RetriesInReachStep ==
    ASSUME TypeOK, TypeOK', RetriesInReach, [Next]_vars
    PROVE  RetriesInReach'
<1> USE MainRunner
<1>0. SUFFICES ASSUME NEW o \in Tasks PROVE InReach(o)'
  BY DEF RetriesInReach
<1>a. /\ MaxRetries[o] \in Nat /\ retries[o] \in Nat /\ InReach(o)
      /\ IsFiniteSet(Retrying(o)) /\ Cardinality(Retrying(o)) \in 0..(retries[o] + 1)
  BY RetryingBounded, SchedulerAssumption DEF TypeOK, RetriesInReach
<1>b. ASSUME retries'[o] = retries[o], \A q \in Runners : pc'[o][q] = "retry" <=> pc[o][q] = "retry"
      PROVE  InReach(o)'
  <2>1. Retrying(o)' = Retrying(o)
    BY <1>b DEF Retrying
  <2> QED BY <1>a, <1>b, <2>1 DEF InReach
<1>1. ASSUME NEW t \in Tasks, Schedule(t) PROVE InReach(o)'
  BY <1>1, <1>b, ScheduleSteps DEF Moved
<1>2. ASSUME NEW t \in Tasks, Configure(t) \/ Cancel(t) \/ Remove(t) PROVE InReach(o)'
  BY <1>2, <1>b, OwnerSteps DEF Still
<1>3. ASSUME NEW t \in Tasks, NEW r \in Runners,
             Stop(t, r) \/ Fire(t, r) \/ AreDependenciesMet(t, r) \/ Start(t, r) \/ FuncReturns(t, r)
      PROVE  InReach(o)'
  <2>1. PICK l \in Labels \ {"retry"} : Moved(t, r, l) /\ pc[t][r] # "retry"
    BY <1>3, StopStep, FireStep, DependenciesStep, StartStep, FuncReturnsStep, ReturnLabel
       DEF Labels, Executing
  <2>2. retries' = retries
    BY <1>3, RunnerMoves, StartStep
  <2> QED BY <1>b, <2>1, <2>2 DEF Moved
<1>4. ASSUME NEW t \in Tasks, NEW r \in Runners, CheckRetry(t, r) PROVE InReach(o)'
  <2>1. CASE t = o /\ Moved(t, r, "retry") /\ retries[t] < MaxRetries[t]
    \* The last test that is passed: everybody who is to retry counts at most once more.
    <3>1. retries'[o] = retries[o]
      BY <1>4, CheckRetryStep
    <3>2. \A q \in Retrying(o)' : q \in Nat /\ q <= retries[o]
      BY <3>1, SchedulerAssumption DEF Retrying, TypeOK, Runners
    <3>3. Cardinality(Retrying(o)') <= retries[o] + 1 /\ Cardinality(Retrying(o)') \in Nat
      BY <1>a, <3>2, FS_BoundedSetOfNaturals, FS_CardinalityType
    <3> QED BY <1>a, <2>1, <3>1, <3>3 DEF InReach
  <2>2. CASE Moved(t, r, Return(r)) \/ t # o
    BY <1>4, <1>b, <2>2, CheckRetryStep, ReturnLabel DEF Moved
  <2> QED BY <1>4, <2>1, <2>2, CheckRetryStep
<1>5. ASSUME NEW t \in Tasks, NEW r \in Runners, ScheduleRetry(t, r) PROVE InReach(o)'
  <2>1. CASE t # o
    BY <1>5, <1>b, <2>1, RetryMoves
  <2>2. CASE t = o
    <3>1. retries'[o] = retries[o] + 1 /\ pc[o][r] = "retry" /\ r \in Retrying(o)
      BY <1>5, <2>2, RetryMoves, ScheduleRetryStep DEF Retrying
    <3>2. Retrying(o)' \subseteq Retrying(o) \ {r}
      <4>1. \A q \in Runners : pc'[o][q] = IF q = retries[o] + 1 THEN "wait"
                                           ELSE IF q = r THEN Return(r) ELSE pc[o][q]
        BY <1>5, <2>2, RetryMoves
      <4> QED BY <4>1, ReturnLabel DEF Retrying
    <3>3. IsFiniteSet(Retrying(o) \ {r}) /\ Cardinality(Retrying(o) \ {r}) = Cardinality(Retrying(o)) - 1
      BY <1>a, <3>1, FS_RemoveElement
    <3>4. Cardinality(Retrying(o)') <= Cardinality(Retrying(o)) - 1 /\ Cardinality(Retrying(o)') \in Nat
      BY <3>2, <3>3, FS_Subset, FS_CardinalityType
    <3> QED BY <1>a, <3>1, <3>4 DEF InReach
  <2> QED BY <2>1, <2>2
<1>6. ASSUME NEW t \in Tasks, After(t) PROVE InReach(o)'
  BY <1>6, <1>b, AfterStep DEF Moved
<1>7. CASE CloseMark \/ CloseReturn \/ UNCHANGED vars
  BY <1>7, <1>b, CloseSteps DEF Still
<1> QED BY <1>1, <1>2, <1>3, <1>4, <1>5, <1>6, <1>7 DEF Next, Execute

-----------------------------------------------------------------------------
(***************************************************************************)
(* States and dependencies.                                                *)
(***************************************************************************)
\* A main goroutine that is over stays over.
LEMMA ExitStays ==
    ASSUME TypeOK, [Next]_vars, NEW o \in Tasks, pc[o][Main] = "exit"
    PROVE  pc'[o][Main] = "exit"
<1> USE MainRunner
<1>1. ASSUME NEW t \in Tasks, Schedule(t) PROVE pc'[o][Main] = "exit"
  BY <1>1, ScheduleSteps DEF Moved
<1>2. ASSUME NEW t \in Tasks, Configure(t) \/ Cancel(t) \/ Remove(t) PROVE pc'[o][Main] = "exit"
  BY <1>2, OwnerSteps DEF Still
<1>3. ASSUME NEW t \in Tasks, NEW r \in Runners,
             Stop(t, r) \/ Fire(t, r) \/ AreDependenciesMet(t, r) \/ FuncReturns(t, r) \/ CheckRetry(t, r)
      PROVE  pc'[o][Main] = "exit"
  BY <1>3, RunnerMoves DEF Moved, Live, Executing
<1>4. ASSUME NEW t \in Tasks, NEW r \in Runners, Start(t, r) PROVE pc'[o][Main] = "exit"
  BY <1>4, StartStep DEF Moved
<1>5. ASSUME NEW t \in Tasks, NEW r \in Runners, ScheduleRetry(t, r) PROVE pc'[o][Main] = "exit"
  <2>1. retries[t] + 1 # Main /\ ~(t = o /\ r = Main)
    BY <1>5, ScheduleRetryStep DEF TypeOK
  <2> QED BY <1>5, <2>1, RetryMoves
<1>6. ASSUME NEW t \in Tasks, After(t) PROVE pc'[o][Main] = "exit"
  BY <1>6, AfterStep DEF Moved
<1>7. CASE CloseMark \/ CloseReturn \/ UNCHANGED vars
  BY <1>7, CloseSteps DEF Still
<1> QED BY <1>1, <1>2, <1>3, <1>4, <1>5, <1>6, <1>7 DEF Next, Execute

LEMMA CompletedOverStep ==
    ASSUME TypeOK, CompletedOver, [Next]_vars
    PROVE  CompletedOver'
<1>0. SUFFICES ASSUME NEW o \in Tasks, state'[o] = "completed" PROVE o \in Once /\ pc'[o][Main] = "exit"
  BY DEF CompletedOver
<1>a. ASSUME state[o] = "completed" PROVE o \in Once /\ pc'[o][Main] = "exit"
  BY <1>a, ExitStays DEF CompletedOver
<1> USE <1>0
<1>1. ASSUME NEW t \in Tasks, Schedule(t) PROVE state[o] = "completed"
  BY <1>1, ScheduleSteps
<1>2. ASSUME NEW t \in Tasks, Configure(t) \/ Cancel(t) \/ Remove(t) PROVE state[o] = "completed"
  BY <1>2, OwnerSteps
<1>3. ASSUME NEW t \in Tasks, NEW r \in Runners, Stop(t, r) \/ Fire(t, r) \/ Execute(t, r)
      PROVE  state[o] = "completed"
  BY <1>3, StopStep, FireStep, DependenciesStep, StartStep, FuncReturnsStep, CheckRetryStep,
     ScheduleRetryStep DEF Execute
<1>4. ASSUME NEW t \in Tasks, After(t) PROVE state[o] = "completed" \/ (o \in Once /\ pc'[o][Main] = "exit")
  BY <1>4, AfterStep DEF Moved
<1>5. CASE CloseMark \/ CloseReturn \/ UNCHANGED vars
  BY <1>5, <1>a, CloseSteps
<1> QED BY <1>a, <1>1, <1>2, <1>3, <1>4, <1>5 DEF Next

LEMMA DependenciesOverStep ==
    ASSUME TypeOK, CompletedOver, DependenciesOver, [Next]_vars
    PROVE  DependenciesOver'
<1> USE MainRunner
<1> DEFINE Begun(t) == pc[t][Main] \in Executing \ {"deps"}
           Over(d) == d \in Once /\ pc[d][Main] = "exit"
<1>0. SUFFICES ASSUME NEW o \in Tasks, Begun(o)', NEW d \in need'[o] PROVE Over(d)'
  BY DEF DependenciesOver
<1>a. ASSUME d \in Tasks, Over(d) PROVE Over(d)'
  BY <1>a, ExitStays
<1>b. ASSUME Begun(o), need'[o] = need[o] PROVE Over(d)'
  BY <1>a, <1>b, <1>0 DEF DependenciesOver, TypeOK
<1>1. ASSUME NEW t \in Tasks, Schedule(t) PROVE Over(d)'
  BY <1>0, <1>1, <1>b, ScheduleSteps DEF Moved, Executing
<1>2. ASSUME NEW t \in Tasks, Configure(t) \/ Cancel(t) \/ Remove(t) PROVE Over(d)'
  BY <1>0, <1>2, <1>b, OwnerSteps DEF Still
<1>3. ASSUME NEW t \in Tasks, NEW r \in Runners, Stop(t, r) \/ Fire(t, r) PROVE Over(d)'
  BY <1>0, <1>3, <1>b, StopStep, FireStep DEF Moved, Executing
<1>4. ASSUME NEW t \in Tasks, NEW r \in Runners, AreDependenciesMet(t, r) PROVE Over(d)'
  <2>1. CASE t = o /\ r = Main
    <3>1. d \in Tasks /\ (state[d] = "completed" \/ (Begun(o) /\ d \in need[o]))
      BY <1>0, <1>4, <2>1, DependenciesStep DEF Executing
    <3> QED BY <1>a, <3>1 DEF CompletedOver, DependenciesOver
  <2>2. CASE t # o \/ r # Main
    BY <1>0, <1>4, <1>b, <2>2, DependenciesStep DEF Moved
  <2> QED BY <2>1, <2>2
<1>5. ASSUME NEW t \in Tasks, NEW r \in Runners,
             Start(t, r) \/ FuncReturns(t, r) \/ CheckRetry(t, r)
      PROVE  Over(d)'
  BY <1>0, <1>5, <1>b, StartStep, FuncReturnsStep, CheckRetryStep DEF Moved, Executing
<1>6. ASSUME NEW t \in Tasks, NEW r \in Runners, ScheduleRetry(t, r) PROVE Over(d)'
  <2>1. retries[t] + 1 # Main /\ pc[t][r] = "retry" /\ need' = need
    BY <1>6, ScheduleRetryStep DEF TypeOK
  <2>2. Begun(o)
    BY <1>0, <1>6, <2>1, RetryMoves, ReturnLabel DEF Executing
  <2> QED BY <1>b, <2>1, <2>2
<1>7. ASSUME NEW t \in Tasks, After(t) PROVE Over(d)'
  BY <1>0, <1>7, <1>b, AfterStep DEF Moved, Executing
<1>8. CASE CloseMark \/ CloseReturn \/ UNCHANGED vars
  BY <1>0, <1>8, <1>b, CloseSteps DEF Still
<1> QED BY <1>1, <1>2, <1>3, <1>4, <1>5, <1>6, <1>7, <1>8 DEF Next, Execute

\* What StateTells says of one task.
Tells(t) == retries[t] = 0 =>
    /\ state[t] = "running" => pc[t][Main] \in {"func", "failed", "retry", "after"}
    /\ state[t] = "completed" => pc[t][Main] = "exit"

LEMMA StateTellsStep ==
    ASSUME TypeOK, CompletedOver', StateTells, [Next]_vars
    PROVE  StateTells'
<1> USE MainRunner DEF Runners
<1>0. SUFFICES ASSUME NEW o \in Once, retries'[o] = 0, state'[o] = "running"
               PROVE  pc'[o][Main] \in {"func", "failed", "retry", "after"}
  BY SchedulerAssumption DEF StateTells, CompletedOver
<1>a. /\ o \in Tasks /\ retries[o] \in Nat
      /\ retries[o] = 0 => \A r \in Retries : pc[o][r] = "none"
  BY SchedulerAssumption DEF TypeOK
<1> DEFINE P == pc'[o][Main] \in {"func", "failed", "retry", "after"}
<1>b. ASSUME retries[o] = 0, state[o] = "running"
      PROVE  pc[o][Main] \in {"func", "failed", "retry", "after"}
  BY <1>b DEF StateTells
<1> USE <1>0
<1>1. ASSUME NEW t \in Tasks, Schedule(t) PROVE P
  BY <1>1, <1>a, <1>b, ScheduleSteps DEF Moved
<1>2. ASSUME NEW t \in Tasks, Configure(t) \/ Cancel(t) \/ Remove(t) PROVE P
  BY <1>2, <1>a, <1>b, OwnerSteps DEF Still
<1>3. ASSUME NEW t \in Tasks, NEW r \in Runners, Stop(t, r) \/ Fire(t, r) PROVE P
  <2>1. CASE Stop(t, r)
    BY <1>a, <1>b, <2>1, StopStep DEF Moved
  <2>2. CASE Fire(t, r)
    BY <1>a, <1>b, <2>2, FireStep DEF Moved
  <2> QED BY <1>3, <2>1, <2>2
<1>4. ASSUME NEW t \in Tasks, NEW r \in Runners, AreDependenciesMet(t, r) PROVE P
  BY <1>4, <1>a, <1>b, DependenciesStep DEF Moved
<1>5. ASSUME NEW t \in Tasks, NEW r \in Runners, Start(t, r) PROVE P
  BY <1>5, <1>a, <1>b, StartStep DEF Moved
<1>6. ASSUME NEW t \in Tasks, NEW r \in Runners, FuncReturns(t, r) \/ CheckRetry(t, r) PROVE P
  <2>1. CASE FuncReturns(t, r)
    BY <1>a, <1>b, <2>1, FuncReturnsStep DEF Moved, Return
  <2>2. CASE CheckRetry(t, r)
    BY <1>a, <1>b, <2>2, CheckRetryStep DEF Moved, Return
  <2> QED BY <1>6, <2>1, <2>2
<1>7. ASSUME NEW t \in Tasks, NEW r \in Runners, ScheduleRetry(t, r) PROVE P
  <2>1. t # o
    BY <1>7, <1>a, RetryMoves
  <2>2. pc'[o] = pc[o] /\ retries'[o] = retries[o]
    <3>1. \A u \in Tasks \ {t} : pc'[u] = pc[u] /\ retries'[u] = retries[u]
      BY <1>7, RetryMoves
    <3> QED BY <1>a, <2>1, <3>1
  <2>3. state'[o] = state[o]
    <3>1. \A u \in Tasks \ {t} : state'[u] = state[u]
      BY <1>7, ScheduleRetryStep
    <3> QED BY <1>a, <2>1, <3>1
  <2> QED BY <1>b, <2>2, <2>3
<1>8. ASSUME NEW t \in Tasks, After(t) PROVE P
  BY <1>8, <1>a, <1>b, AfterStep DEF Moved
<1>9. CASE CloseMark \/ CloseReturn \/ UNCHANGED vars
  BY <1>9, <1>b, CloseSteps DEF Still
<1> QED BY <1>1, <1>2, <1>3, <1>4, <1>5, <1>6, <1>7, <1>8, <1>9 DEF Next, Execute

-----------------------------------------------------------------------------
(***************************************************************************)
(* The invariant and what follows from it.                                 *)
(***************************************************************************)
LEMMA InitInv == Init => SchedulerInv
<1> SUFFICES ASSUME Init PROVE SchedulerInv
  OBVIOUS
<1> USE MainRunner DEF Init
<1>1. TypeOK
  BY InitType
<1>2. \A t \in Tasks, r \in Runners : pc[t][r] = "none" /\ retries[t] = 0 /\ runs[t] = 0 /\ state[t] = "none"
  OBVIOUS
<1>3. NotBegun /\ CompletedOver /\ DependenciesOver
  BY <1>2 DEF NotBegun, CompletedOver, DependenciesOver, Executing
<1>4. OnceInTurn /\ StateTells
  BY <1>2, SchedulerAssumption DEF OnceInTurn, InTurn, StateTells, Live, Executing
<1>5. RetriesInReach
  BY <1>2 DEF RetriesInReach, InReach, Retrying
<1> QED BY <1>1, <1>3, <1>4, <1>5 DEF SchedulerInv

LEMMA StepInv == SchedulerInv /\ [Next]_vars => SchedulerInv'
<1> SUFFICES ASSUME SchedulerInv, [Next]_vars PROVE SchedulerInv'
  OBVIOUS
<1> USE DEF SchedulerInv
<1>1. TypeOK'
  BY StepType
<1>2. NotBegun' /\ OnceInTurn' /\ RetriesInReach'
  BY <1>1, NotBegunStep, OnceInTurnStep, RetriesInReachStep
<1>3. CompletedOver' /\ DependenciesOver'
  BY CompletedOverStep, DependenciesOverStep
<1>4. StateTells'
  BY <1>3, StateTellsStep
<1> QED BY <1>1, <1>2, <1>3, <1>4

LEMMA Invariance == Spec => []SchedulerInv
BY InitInv, StepInv, PTL DEF Spec

\* Types; and there are as many retry goroutines as RetryCount says (scheduler.go:317, 334-344).
THEOREM SchedulerTypes == Spec => []TypeOK
<1>1. SchedulerInv => TypeOK
  BY DEF SchedulerInv
<1> QED BY <1>1, Invariance, PTL

\* RetryCount never passes MaxRetries for a one-time task, and stays below twice that
\* for a repeating one, whatever its goroutines have read (scheduler.go:281, 317).
THEOREM RetriesAreBounded == Spec => []RetriesBounded
<1>1. SchedulerInv => RetriesBounded
  <2> SUFFICES ASSUME SchedulerInv, NEW t \in Tasks
               PROVE  \/ retries[t] <= MaxRetries[t]
                      \/ t \notin Once /\ retries[t] < 2 * MaxRetries[t]
    BY DEF RetriesBounded
  <2>1. /\ MaxRetries[t] \in Nat /\ retries[t] \in Nat /\ InReach(t)
        /\ Cardinality(Retrying(t)) \in Nat
    BY RetryingBounded, SchedulerAssumption DEF SchedulerInv, TypeOK, RetriesInReach
  <2>2. t \in Once => retries[t] <= MaxRetries[t]
    BY DEF SchedulerInv, OnceInTurn, InTurn
  <2> QED BY <2>1, <2>2 DEF InReach
<1> QED BY <1>1, Invariance, PTL

\* The function of a one-time task runs for one goroutine at a time, once for the timer
\* and once for every retry (scheduler.go:134-150, 313-345).
THEOREM OnceNeverOverlaps == Spec => []NoOverlap
<1>1. SchedulerInv => NoOverlap
  BY DEF SchedulerInv, OnceInTurn, InTurn, NoOverlap, Live
<1> QED BY <1>1, Invariance, PTL

\* Whoever runs after its dependencies were found met runs after their main goroutines
\* (scheduler.go:256-260, 288-310).
THEOREM DependenciesComeFirst == Spec => []DependenciesOver
<1>1. SchedulerInv => DependenciesOver
  BY DEF SchedulerInv
<1> QED BY <1>1, Invariance, PTL

\* The state of a one-time task that was not retried tells where its goroutine is
\* (scheduler.go:134-150, 262).
THEOREM StateIsTrue == Spec => []StateTells
<1>1. SchedulerInv => StateTells
  BY DEF SchedulerInv
<1> QED BY <1>1, Invariance, PTL
=============================================================================
