---------------------------- MODULE QueueProofs ----------------------------
(***************************************************************************)
(* The heap implements the order of priority, for any tasks, priorities    *)
(* and times.  Its two loops are recursive functions: a lemma says that    *)
(* the definition of such a loop has a solution and that what its steps    *)
(* keep is true where it stops; what rising and sinking keep is that only  *)
(* the place they have come to may be out of order.                        *)
(***************************************************************************)
EXTENDS PriorityQueue, FiniteSetTheorems, WellFoundedInduction, TLAPS

\* A nonempty set of naturals has a least element: the intervals 1..n are well-founded.
LEMMA LeastNatural ==
    ASSUME NEW B, B \subseteq Nat, B # {}
    PROVE  \E m \in B : \A k \in B : m <= k
<1> DEFINE T == {1..n : n \in B}
           R == StrictSubsetOrdering(Nat)
<1>1. T \subseteq FiniteSubsetsOf(Nat)
  <2>1. ASSUME NEW n \in B
        PROVE  1..n \subseteq Nat /\ IsFiniteSet(1..n)
    BY <2>1, FS_Interval
  <2> QED  BY <2>1 DEF FiniteSubsetsOf
<1>2. PICK t \in T : \A u \in T : <<u, t>> \notin R
  <2>1. IsWellFoundedOn(R, FiniteSubsetsOf(Nat))
    BY FS_StrictSubsetOrderingWellFounded
  <2>2. T # {}
    OBVIOUS
  <2> HIDE DEF T, R
  <2> QED  BY <1>1, <2>1, <2>2, WFMin
<1>3. PICK m \in B : t = 1..m
  BY <1>2
<1>4. ASSUME NEW k \in B, k < m
      PROVE  FALSE
  <2>1. m \notin 1..k /\ m \in 1..m /\ 1..k \subseteq 1..m /\ 1..m \subseteq Nat
    BY <1>4
  <2>2. <<1..k, t>> \in R
    BY <1>3, <2>1, Zenon DEF StrictSubsetOrdering
  <2> QED  BY <1>2, <2>2
<1> QED  BY <1>4

-----------------------------------------------------------------------------
(* A loop goes on from the states of Go to what next says, and   *)
(* returns out of the state it stops in; its recursive definition has a solution, and *)
(* what the steps keep is true of the state in which it stops.                        *)
Loops(D, Go, next, out, f) == f = [d \in D |-> IF d \in Go THEN f[next[d]] ELSE out[d]]

LEMMA LoopDefined ==
    ASSUME NEW D, NEW Go, NEW next, NEW out, \A d \in D : d \in Go => next[d] \in D
    PROVE  \E f : Loops(D, Go, next, out, f)
<1> DEFINE Closed(C) == \A c \in C : c \in Go => next[c] \in C
           From(d) == {e \in D : \A C \in SUBSET D : d \in C /\ Closed(C) => e \in C}
           Ends(d) == {e \in From(d) : e \notin Go}
           f == [d \in D |-> out[CHOOSE e : e \in Ends(d)]]
<1>1. ASSUME NEW d \in D, d \notin Go
      PROVE  (CHOOSE e : e \in Ends(d)) = d
  <2>1. {d} \in SUBSET D /\ Closed({d})
    BY <1>1
  <2>2. Ends(d) = {d}
    BY <1>1, <2>1
  <2> HIDE DEF Ends
  <2> QED  BY <2>2
<1>2. ASSUME NEW d \in D, d \in Go
      PROVE  Ends(d) = Ends(next[d])
  <2>1. ASSUME NEW e \in Ends(d)
        PROVE  e \in Ends(next[d])
    <3>1. ASSUME NEW C \in SUBSET D, next[d] \in C, Closed(C)
          PROVE  e \in C
      <4>1. C \cup {d} \in SUBSET D /\ Closed(C \cup {d}) /\ d \in C \cup {d}
        BY <3>1
      <4>2. e \in C \cup {d}
        BY <4>1
      <4> QED  BY <1>2, <2>1, <4>2
    <3> QED  BY <3>1
  <2>2. ASSUME NEW e \in Ends(next[d])
        PROVE  e \in Ends(d)
    <3>1. ASSUME NEW C \in SUBSET D, d \in C, Closed(C)
          PROVE  e \in C
      <4>1. next[d] \in C
        BY <1>2, <3>1
      <4> QED  BY <3>1, <4>1
    <3> QED  BY <3>1
  <2> QED  BY <2>1, <2>2
<1> HIDE DEF Ends
<1>3. \A d \in D : f[d] = IF d \in Go THEN f[next[d]] ELSE out[d]
  <2>1. ASSUME NEW d \in D, d \in Go
        PROVE  f[d] = f[next[d]]
    BY <1>2, <2>1
  <2>2. ASSUME NEW d \in D, d \notin Go
        PROVE  f[d] = out[d]
    BY <1>1, <2>2
  <2> QED  BY <2>1, <2>2
<1>4. f = [d \in D |-> f[d]]
  OBVIOUS
<1> HIDE DEF f
<1>5. f = [d \in D |-> IF d \in Go THEN f[next[d]] ELSE out[d]]
  BY <1>3, <1>4
<1> QED  BY <1>5 DEF Loops

\* What is in I goes on in I, and closer by m to the end; and it ends in I.
Descends(I, Go, next, m) == \A d \in I : d \in Go => next[d] \in I /\ m[next[d]] < m[d]
EndsIn(I, Go, out, f) == \A d \in I : \E e \in I : e \notin Go /\ f[d] = out[e]

LEMMA LoopKeeps ==
    ASSUME NEW D, NEW Go, NEW next, NEW out, NEW f, Loops(D, Go, next, out, f),
           NEW m \in [D -> Nat], NEW I \in SUBSET D,
           Descends(I, Go, next, m)
    PROVE  EndsIn(I, Go, out, f)
<1> DEFINE Stops(d) == \E e \in I : e \notin Go /\ f[d] = out[e]
           Bad == {d \in I : ~Stops(d)}
           V == {m[d] : d \in Bad}
<1> SUFFICES ASSUME Bad # {}  PROVE FALSE
  BY DEF EndsIn
<1>1. V \subseteq Nat /\ V # {}
  OBVIOUS
<1>2. PICK v \in V : \A w \in V : v <= w
  BY <1>1, LeastNatural
<1>3. PICK d \in Bad : v = m[d]
  OBVIOUS
<1>4. d \in Go
  BY Loops(D, Go, next, out, f) DEF Loops
<1>5. next[d] \in I /\ m[next[d]] < m[d] /\ f[d] = f[next[d]]
  BY <1>4 DEF Loops, Descends
<1>6. ~Stops(next[d])
  BY <1>5
<1>7. next[d] \in Bad
  BY <1>5, <1>6
<1>8. m[next[d]] \in V
  BY <1>7
<1>9. m[next[d]] \in Nat /\ m[d] \in Nat
  BY <1>5
<1> HIDE DEF V
<1> QED  BY <1>2, <1>3, <1>5, <1>8, <1>9

-----------------------------------------------------------------------------
(* The heap.  Less is a strict order in which what is not less is transitive. *)
LEMMA LessOrders ==
    ASSUME NEW ranks \in [QueueTasks -> Ranks], NEW t \in QueueTasks, NEW u \in QueueTasks, NEW v \in QueueTasks
    PROVE  /\ Less(ranks, t, u) => ~Less(ranks, u, t)
           /\ ~Less(ranks, t, u) /\ ~Less(ranks, u, v) => ~Less(ranks, t, v)
<1>1. \A w \in QueueTasks : ranks[w].priority \in Int /\ ranks[w].at \in Int
  BY QueueAssumption DEF Ranks
<1> QED  BY <1>1 DEF Less

LEMMA Halves == \A k \in Nat : k \div 2 \in Nat /\ 2 * (k \div 2) <= k /\ k <= 2 * (k \div 2) + 1
OBVIOUS

LEMMA SwapKeeps ==
    ASSUME NEW N \in Nat, NEW h \in [1..N -> QueueTasks], NEW i \in 1..N, NEW j \in 1..N
    PROVE  /\ Swapped(h, i, j) \in [1..N -> QueueTasks]
           /\ \A x \in 1..N : Swapped(h, i, j)[x] = IF x = j THEN h[i] ELSE IF x = i THEN h[j] ELSE h[x]
           /\ Range(Swapped(h, i, j)) = Range(h)
           /\ IsInjective(h) => IsInjective(Swapped(h, i, j))
<1> DEFINE g == Swapped(h, i, j)
<1>1. g \in [1..N -> QueueTasks] /\ DOMAIN h = 1..N
  BY DEF Swapped
<1>2. \A x \in 1..N : g[x] = IF x = j THEN h[i] ELSE IF x = i THEN h[j] ELSE h[x]
  BY DEF Swapped
<1> HIDE DEF g
<1>3. Range(g) = Range(h)
  <2>1. ASSUME NEW x \in 1..N  PROVE \E y \in 1..N : g[x] = h[y]
    BY <1>2
  <2>2. ASSUME NEW x \in 1..N  PROVE \E y \in 1..N : g[y] = h[x]
    <3>1. CASE x = i
      BY <1>2, <3>1
    <3>2. CASE x = j
      BY <1>2, <3>2
    <3>3. CASE x # i /\ x # j
      BY <1>2, <3>3
    <3> QED  BY <3>1, <3>2, <3>3
  <2> QED  BY <1>1, <2>1, <2>2 DEF Range
<1>4. IsInjective(h) => IsInjective(g)
  BY <1>1, <1>2 DEF IsInjective
<1> QED  BY <1>1, <1>2, <1>3, <1>4 DEF g

\* Nothing among the first n is less than its parent.
Heaped(ranks, h, n) == \A k \in 2..n : ~Less(ranks, h[k], h[k \div 2])

\* The same but at j, which is to rise: what is below j is not less than j's parent.
RiseReady(ranks, h, n, j) ==
    /\ \A k \in 2..n : k # j => ~Less(ranks, h[k], h[k \div 2])
    /\ j > 1 => \A k \in 2..n : k \div 2 = j => ~Less(ranks, h[k], h[j \div 2])

\* The same but around i, which is to sink or to rise.
Around(ranks, h, n, i) ==
    /\ \A k \in 2..n : k # i /\ k \div 2 # i => ~Less(ranks, h[k], h[k \div 2])
    /\ i > 1 => \A k \in 2..n : k \div 2 = i => ~Less(ranks, h[k], h[i \div 2])

\* g holds the elements of h, those beyond the first n in their places.
Shuffled(g, h, n) ==
    /\ g \in [DOMAIN h -> QueueTasks] /\ Range(g) = Range(h) /\ IsInjective(g)
    /\ \A x \in DOMAIN h : x > n => g[x] = h[x]

LEMMA FirstIsLeast ==
    ASSUME NEW ranks \in [QueueTasks -> Ranks], NEW N \in Nat, NEW h \in [1..N -> QueueTasks],
           NEW n \in 0..N, Heaped(ranks, h, n), NEW i \in 1..n
    PROVE  ~Less(ranks, h[i], h[1])
<1> DEFINE Bad == {k \in 1..n : Less(ranks, h[k], h[1])}
<1> SUFFICES ASSUME Bad # {}  PROVE FALSE
  OBVIOUS
<1>0. Bad \subseteq Nat
  OBVIOUS
<1>1. PICK k \in Bad : \A m \in Bad : k <= m
  <2> HIDE DEF Bad
  <2> QED  BY <1>0, LeastNatural
<1>2. k \in 1..n /\ h[k] \in QueueTasks /\ h[1] \in QueueTasks /\ Less(ranks, h[k], h[1])
  OBVIOUS
<1>3. k # 1
  BY <1>2, LessOrders
<1>4. k \div 2 \in 1..n /\ k \div 2 < k /\ k \in 2..n
  BY <1>2, <1>3, Halves
<1>5. ~Less(ranks, h[k \div 2], h[1]) /\ h[k \div 2] \in QueueTasks
  BY <1>1, <1>4
<1>6. ~Less(ranks, h[k], h[k \div 2])
  BY <1>4 DEF Heaped
<1> QED  BY <1>2, <1>5, <1>6, LessOrders

LEMMA ShuffledStays ==
    ASSUME NEW N \in Nat, NEW h \in [1..N -> QueueTasks], NEW n \in 0..N, NEW g, Shuffled(g, h, n),
           NEW i \in 1..n, NEW j \in 1..n
    PROVE  Shuffled(Swapped(g, i, j), h, n)
<1>1. i \in 1..N /\ j \in 1..N /\ DOMAIN h = 1..N /\ g \in [1..N -> QueueTasks]
  BY DEF Shuffled
<1>2. /\ Swapped(g, i, j) \in [1..N -> QueueTasks]
      /\ \A x \in 1..N : Swapped(g, i, j)[x] = IF x = j THEN g[i] ELSE IF x = i THEN g[j] ELSE g[x]
      /\ Range(Swapped(g, i, j)) = Range(g)
      /\ IsInjective(g) => IsInjective(Swapped(g, i, j))
  BY <1>1, SwapKeeps
<1> QED  BY <1>1, <1>2 DEF Shuffled

LEMMA RiseMoves ==
    ASSUME NEW ranks \in [QueueTasks -> Ranks], NEW N \in Nat, NEW h \in [1..N -> QueueTasks],
           NEW n \in 0..N, NEW j \in 2..n, RiseReady(ranks, h, n, j), Less(ranks, h[j], h[j \div 2])
    PROVE  RiseReady(ranks, Swapped(h, j, j \div 2), n, j \div 2)
<1> DEFINE p == j \div 2
           g == Swapped(h, j, p)
<1>1. p \in 1..n /\ p < j /\ p \in Nat /\ j \in 1..n /\ j \in 1..N /\ p \in 1..N
  BY Halves
<1>2. \A x \in 1..N : g[x] = IF x = p THEN h[j] ELSE IF x = j THEN h[p] ELSE h[x]
  BY <1>1, SwapKeeps
<1>3. \A x \in 1..N : h[x] \in QueueTasks
  OBVIOUS
<1>4. /\ \A k \in 2..n : k # j => ~Less(ranks, h[k], h[k \div 2])
      /\ \A k \in 2..n : k \div 2 = j => ~Less(ranks, h[k], h[p])
      /\ Less(ranks, h[j], h[p])
  BY DEF RiseReady
<1>5. \A k \in 2..n : k \div 2 \in 1..N /\ k \in 1..N /\ k \div 2 < k
  BY Halves
<1> HIDE DEF p, g
<1>6. ASSUME NEW k \in 2..n, k # p
      PROVE  ~Less(ranks, g[k], g[k \div 2])
  <2>1. CASE k = j
    <3>1. g[k] = h[p] /\ g[k \div 2] = h[j]
      BY <1>1, <1>2, <1>5, <2>1 DEF p
    <3> QED  BY <1>1, <1>3, <1>4, <3>1, LessOrders
  <2>2. CASE k # j /\ k \div 2 = j
    <3>1. g[k] = h[k] /\ g[k \div 2] = h[p]
      BY <1>1, <1>2, <1>5, <1>6, <2>2
    <3> QED  BY <1>4, <2>2, <3>1
  <2>3. CASE k # j /\ k \div 2 = p
    <3>1. g[k] = h[k] /\ g[k \div 2] = h[j]
      BY <1>1, <1>2, <1>5, <1>6, <2>3
    <3>2. ~Less(ranks, h[k], h[p]) /\ ~Less(ranks, h[p], h[j])
      BY <1>1, <1>3, <1>4, <2>3, LessOrders
    <3> QED  BY <1>1, <1>3, <1>5, <3>1, <3>2, LessOrders
  <2>4. CASE k # j /\ k \div 2 # j /\ k \div 2 # p
    <3>1. g[k] = h[k] /\ g[k \div 2] = h[k \div 2]
      BY <1>1, <1>2, <1>5, <1>6, <2>4
    <3> QED  BY <1>4, <2>4, <3>1
  <2> QED  BY <2>1, <2>2, <2>3, <2>4
<1>7. ASSUME p > 1, NEW k \in 2..n, k \div 2 = p
      PROVE  ~Less(ranks, g[k], g[p \div 2])
  <2>1. p \in 2..n /\ p # j /\ p \div 2 \in 1..N /\ p \div 2 < p
    BY <1>1, <1>7, Halves
  <2>2. g[p \div 2] = h[p \div 2] /\ ~Less(ranks, h[p], h[p \div 2])
    BY <1>1, <1>2, <1>4, <2>1
  <2>3. CASE k = j
    <3>1. g[k] = h[p]
      BY <1>1, <1>2, <1>5, <2>3
    <3> QED  BY <2>2, <3>1
  <2>4. CASE k # j
    <3>1. k # p /\ k \in 1..N
      BY <1>1, <1>5, <1>7
    <3>2. g[k] = h[k]
      BY <1>2, <2>4, <3>1
    <3>3. ~Less(ranks, h[k], h[p])
      BY <1>4, <1>7, <2>4, <3>1
    <3> QED  BY <1>1, <1>3, <2>1, <2>2, <3>1, <3>2, <3>3, LessOrders
  <2> QED  BY <2>3, <2>4
<1> QED  BY <1>6, <1>7 DEF RiseReady, p, g

\* heap.up makes a heap of what is ready for it.
LEMMA RiseHeaps ==
    ASSUME NEW ranks \in [QueueTasks -> Ranks], NEW N \in Nat, NEW h \in [1..N -> QueueTasks],
           IsInjective(h), NEW n \in 0..N, NEW j \in 1..n, RiseReady(ranks, h, n, j)
    PROVE  Shuffled(Rise(ranks, h, j), h, n) /\ Heaped(ranks, Rise(ranks, h, j), n)
<1> DEFINE D == Places(h)
           Go == {s \in D : Rises(ranks, s)}
           next == [s \in D |-> MovedTo(s, s.at \div 2)]
           out == [s \in D |-> s.heap]
           Eq(f) == f = [s \in D |-> IF Rises(ranks, s) THEN f[MovedTo(s, s.at \div 2)] ELSE s.heap]
           up == CHOOSE f : Eq(f)
           start == [heap |-> h, at |-> j]
           I == {s \in D : s.at <= n /\ Shuffled(s.heap, h, n) /\ RiseReady(ranks, s.heap, n, s.at)}
           m == [s \in D |-> s.at]
<1>0. DOMAIN h = 1..N /\ D = [heap : [1..N -> QueueTasks], at : 1..N]
  BY DEF Places
<1>1. Rise(ranks, h, j) = up[start]
  BY DEF Rise
<1>2. ASSUME NEW s \in D, s \in Go
      PROVE  next[s] \in D /\ m[next[s]] < m[s] /\ s.at > 1 /\ next[s].at = s.at \div 2
             /\ next[s].heap = Swapped(s.heap, s.at, s.at \div 2) /\ s.at \div 2 \in 1..N
  <2>1. s.heap \in [1..N -> QueueTasks] /\ s.at \in 1..N /\ s.at > 1
    BY <1>0, <1>2 DEF Rises
  <2>2. s.at \div 2 \in 1..N /\ s.at \div 2 < s.at
    BY <2>1, Halves
  <2>3. next[s] = [heap |-> Swapped(s.heap, s.at, s.at \div 2), at |-> s.at \div 2]
    BY DEF MovedTo
  <2>4. Swapped(s.heap, s.at, s.at \div 2) \in [1..N -> QueueTasks]
    <3> DEFINE g == s.heap  a == s.at  b == s.at \div 2
    <3>1. g \in [1..N -> QueueTasks] /\ a \in 1..N /\ b \in 1..N
      BY <2>1, <2>2
    <3> HIDE DEF g, a, b
    <3>2. Swapped(g, a, b) \in [1..N -> QueueTasks]
      BY <3>1, SwapKeeps
    <3> QED  BY <3>2 DEF g, a, b
  <2>5. next[s] \in D
    BY <1>0, <2>2, <2>3, <2>4
  <2> HIDE DEF next, D
  <2> QED  BY <2>1, <2>2, <2>3, <2>5
<1>3. Eq(up)
  <2>1. PICK f : Loops(D, Go, next, out, f)
    <3> HIDE DEF D, Go, next, out, m
    <3> QED  BY <1>2, LoopDefined
  <2>2. f = [s \in D |-> IF s \in Go THEN f[next[s]] ELSE out[s]]
    BY <2>1 DEF Loops
  <2>3. \A s \in D : (s \in Go <=> Rises(ranks, s)) /\ next[s] = MovedTo(s, s.at \div 2) /\ out[s] = s.heap
    OBVIOUS
  <2> HIDE DEF D, Go, next, out
  <2>4. Eq(f)
    BY <2>2, <2>3
  <2> HIDE DEF Eq
  <2> QED  BY <2>4
<1>4. Loops(D, Go, next, out, up)
  <2>1. \A s \in D : (s \in Go <=> Rises(ranks, s)) /\ next[s] = MovedTo(s, s.at \div 2) /\ out[s] = s.heap
    OBVIOUS
  <2> HIDE DEF D, Go, next, out, up
  <2> QED  BY <1>3, <2>1 DEF Loops
<1>5. start \in I
  <2>1. Shuffled(h, h, n)
    BY DEF Shuffled
  <2>2. start \in D /\ start.at <= n
    BY <1>0
  <2> QED  BY <2>1, <2>2
<1>6. ASSUME NEW s \in I, s \in Go
      PROVE  next[s] \in I /\ m[next[s]] < m[s]
  <2>0. s \in D /\ s.at <= n
    BY <1>6
  <2>a. s.at > 1
    BY <1>2, <1>6, <2>0
  <2>1. s \in D /\ s.heap \in [1..N -> QueueTasks] /\ s.at \in 2..n /\ s.at \in 1..n
    BY <1>0, <2>0, <2>a
  <2>2. s.at \div 2 \in 1..n
    BY <2>1, Halves
  <2>3. Less(ranks, s.heap[s.at], s.heap[s.at \div 2]) /\ RiseReady(ranks, s.heap, n, s.at)
        /\ Shuffled(s.heap, h, n)
    BY <1>6 DEF Rises
  <2>4. RiseReady(ranks, Swapped(s.heap, s.at, s.at \div 2), n, s.at \div 2)
    BY <2>1, <2>3, RiseMoves
  <2>5. Shuffled(Swapped(s.heap, s.at, s.at \div 2), h, n)
    BY <2>1, <2>2, <2>3, ShuffledStays
  <2>6. /\ next[s] \in D /\ m[next[s]] < m[s] /\ next[s].at = s.at \div 2
        /\ next[s].heap = Swapped(s.heap, s.at, s.at \div 2)
    BY <1>2, <1>6
  <2>7. next[s].at <= n
    BY <2>2, <2>6
  <2> HIDE DEF next, D, m
  <2> QED  BY <2>4, <2>5, <2>6, <2>7
<1>7. m \in [D -> Nat] /\ I \in SUBSET D
  BY <1>0
<1>8. PICK e \in I : e \notin Go /\ up[start] = out[e]
  <2> HIDE DEF D, Go, next, out, m, up, I, start
  <2>1. Descends(I, Go, next, m)
    BY <1>6 DEF Descends
  <2>2. EndsIn(I, Go, out, up)
    BY <1>4, <1>7, <2>1, LoopKeeps
  <2> QED  BY <1>5, <2>2 DEF EndsIn
<1>9. /\ e \in D /\ up[start] = e.heap /\ ~Rises(ranks, e) /\ e.at \in 1..n
      /\ Shuffled(e.heap, h, n) /\ RiseReady(ranks, e.heap, n, e.at)
  <2>1. e \in D /\ up[start] = e.heap /\ ~Rises(ranks, e)
    <3> HIDE DEF up, start
    <3> QED  BY <1>8
  <2>2. e.at \in 1..n
    BY <1>0, <2>1
  <2> HIDE DEF up
  <2> QED  BY <2>1, <2>2
<1> HIDE DEF up, start, D, I
<1>10. Heaped(ranks, e.heap, n)
  BY <1>9 DEF Heaped, RiseReady, Rises
<1> QED  BY <1>1, <1>9, <1>10

\* The same but below i, which is to sink.
SinkReady(ranks, h, n, i) ==
    /\ \A k \in 2..n : k \div 2 # i => ~Less(ranks, h[k], h[k \div 2])
    /\ i > 1 => \A k \in 2..n : k \div 2 = i => ~Less(ranks, h[k], h[i \div 2])

LEMMA ChildIsLeast ==
    ASSUME NEW ranks \in [QueueTasks -> Ranks], NEW N \in Nat, NEW n \in 0..N,
           NEW s, s.heap \in [1..N -> QueueTasks], s.at \in 1..n
    PROVE  LET c == Child(ranks, s, n) IN
           /\ c \in Nat /\ c > s.at
           /\ c <= n => c \in 2..n /\ c \div 2 = s.at
           /\ \A k \in 2..n : k \div 2 = s.at => c <= n /\ ~Less(ranks, s.heap[k], s.heap[c])
<1> DEFINE c == Child(ranks, s, n)  i == s.at  h == s.heap
<1>0. i \in 1..n /\ (\A x \in 1..N : h[x] \in QueueTasks)
  OBVIOUS
<1>1. c = IF 2 * i < n /\ Less(ranks, h[2 * i + 1], h[2 * i]) THEN 2 * i + 1 ELSE 2 * i
  BY DEF Child
<1> HIDE DEF c, i, h
<1>2. c \in Nat /\ c > i /\ (c = 2 * i \/ c = 2 * i + 1)
  BY <1>0, <1>1
<1>3. c <= n => c \in 2..n /\ c \div 2 = i
  BY <1>0, <1>2, Halves
<1>4. ASSUME NEW k \in 2..n, k \div 2 = i
      PROVE  c <= n /\ ~Less(ranks, h[k], h[c])
  <2>1. k = 2 * i \/ k = 2 * i + 1
    BY <1>0, <1>4, Halves
  <2>2. c <= n /\ c \in 1..N /\ k \in 1..N
    BY <1>0, <1>1, <2>1
  <2>3. CASE k = c
    BY <1>0, <2>2, <2>3, LessOrders
  <2>4. CASE k # c
    <3>1. CASE 2 * i < n /\ Less(ranks, h[2 * i + 1], h[2 * i])
      <4>1. c = 2 * i + 1 /\ k = 2 * i
        BY <1>1, <2>1, <2>4, <3>1
      <4> QED  BY <1>0, <2>2, <3>1, <4>1, LessOrders
    <3>2. CASE ~(2 * i < n /\ Less(ranks, h[2 * i + 1], h[2 * i]))
      <4>1. c = 2 * i /\ k = 2 * i + 1
        BY <1>1, <2>1, <2>4, <3>2
      <4>2. 2 * i < n
        BY <1>0, <4>1
      <4> QED  BY <3>2, <4>1, <4>2
    <3> QED  BY <3>1, <3>2
  <2> QED  BY <2>2, <2>3, <2>4
<1> QED  BY <1>2, <1>3, <1>4 DEF c, i, h

LEMMA SinkMoves ==
    ASSUME NEW ranks \in [QueueTasks -> Ranks], NEW N \in Nat, NEW h \in [1..N -> QueueTasks],
           NEW n \in 0..N, NEW i \in 1..n, Around(ranks, h, n, i),
           NEW c \in 2..n, c \div 2 = i, Less(ranks, h[c], h[i]),
           \A k \in 2..n : k \div 2 = i => ~Less(ranks, h[k], h[c])
    PROVE  SinkReady(ranks, Swapped(h, i, c), n, c)
<1> DEFINE g == Swapped(h, i, c)
<1>1. i \in 1..N /\ c \in 1..N /\ i < c
  BY Halves
<1>2. \A x \in 1..N : g[x] = IF x = c THEN h[i] ELSE IF x = i THEN h[c] ELSE h[x]
  BY <1>1, SwapKeeps
<1>3. \A x \in 1..N : h[x] \in QueueTasks
  OBVIOUS
<1>4. \A k \in 2..n : k \div 2 \in 1..N /\ k \in 1..N /\ k \div 2 < k
  BY Halves
<1>5. /\ \A k \in 2..n : k # i /\ k \div 2 # i => ~Less(ranks, h[k], h[k \div 2])
      /\ i > 1 => \A k \in 2..n : k \div 2 = i => ~Less(ranks, h[k], h[i \div 2])
  BY DEF Around
<1> HIDE DEF g
<1>6. ASSUME NEW k \in 2..n, k \div 2 # c
      PROVE  ~Less(ranks, g[k], g[k \div 2])
  <2>1. CASE k = c
    <3>1. g[k] = h[i] /\ g[k \div 2] = h[c]
      BY <1>1, <1>2, <2>1
    <3> QED  BY <1>1, <1>3, <3>1, LessOrders
  <2>2. CASE k # c /\ k \div 2 = i
    <3>1. k # i /\ k \in 1..N
      BY <1>4, <2>2
    <3>2. g[k] = h[k] /\ g[k \div 2] = h[c]
      BY <1>1, <1>2, <2>2, <3>1
    <3> QED  BY <2>2, <3>2
  <2>3. CASE k = i
    <3>1. i > 1 /\ i \div 2 \in 1..N /\ i \div 2 < i
      BY <1>4, <2>3
    <3>2. g[k] = h[c] /\ g[k \div 2] = h[i \div 2]
      BY <1>1, <1>2, <2>3, <3>1
    <3> QED  BY <1>5, <3>1, <3>2
  <2>4. CASE k # c /\ k # i /\ k \div 2 # i
    <3>1. g[k] = h[k] /\ g[k \div 2] = h[k \div 2]
      BY <1>2, <1>4, <1>6, <2>4
    <3> QED  BY <1>5, <2>4, <3>1
  <2> QED  BY <2>1, <2>2, <2>3, <2>4
<1>7. ASSUME NEW k \in 2..n, k \div 2 = c
      PROVE  ~Less(ranks, g[k], g[c \div 2])
  <2>1. k # c /\ k # i /\ k \in 1..N /\ k \div 2 # i
    BY <1>1, <1>4, <1>7
  <2>2. g[k] = h[k] /\ g[c \div 2] = h[c]
    BY <1>1, <1>2, <2>1
  <2> QED  BY <1>5, <1>7, <2>1, <2>2
<1> QED  BY <1>6, <1>7 DEF SinkReady, g

\* heap.down returns the same heap, in which what is around the element is right except that
\* it may have to rise, or makes a heap that is another.
LEMMA SinkHeaps ==
    ASSUME NEW ranks \in [QueueTasks -> Ranks], NEW N \in Nat, NEW h \in [1..N -> QueueTasks],
           IsInjective(h), NEW n \in 0..N, NEW i \in 1..n, Around(ranks, h, n, i)
    PROVE  LET g == Sink(ranks, h, i, n) IN
           \/ g = h /\ RiseReady(ranks, h, n, i)
           \/ g # h /\ Shuffled(g, h, n) /\ Heaped(ranks, g, n)
<1> DEFINE D == Places(h)
           Go == {s \in D : Sinks(ranks, s, n)}
           next == [s \in D |-> MovedTo(s, Child(ranks, s, n))]
           out == [s \in D |-> s.heap]
           Eq(f) == f = [s \in D |-> IF Sinks(ranks, s, n) THEN f[MovedTo(s, Child(ranks, s, n))] ELSE s.heap]
           down == CHOOSE f : Eq(f)
           start == [heap |-> h, at |-> i]
           c == Child(ranks, start, n)
           I == {s \in D : /\ s.at <= n /\ s.at > i /\ s.heap[i] = h[c]
                           /\ Shuffled(s.heap, h, n) /\ SinkReady(ranks, s.heap, n, s.at)}
           m == [s \in D |-> N - s.at]
<1>0. DOMAIN h = 1..N /\ D = [heap : [1..N -> QueueTasks], at : 1..N]
  BY DEF Places
<1>1. Sink(ranks, h, i, n) = down[start]
  BY DEF Sink
<1>2. \A s \in D : /\ s \in Go <=> Sinks(ranks, s, n)
                   /\ next[s] = MovedTo(s, Child(ranks, s, n)) /\ out[s] = s.heap /\ m[s] = N - s.at
  OBVIOUS
<1>a. \A s \in D : s.heap \in [1..N -> QueueTasks] /\ s.at \in 1..N
  BY <1>0
<1>b. \A g \in [1..N -> QueueTasks], x \in 1..N : [heap |-> g, at |-> x] \in D
  BY <1>0
<1>c. \A s \in D : s \in I <=> /\ s.at <= n /\ s.at > i /\ s.heap[i] = h[c]
                              /\ Shuffled(s.heap, h, n) /\ SinkReady(ranks, s.heap, n, s.at)
  OBVIOUS
<1>d. I \in SUBSET D /\ start.heap = h /\ start.at = i /\ start \in D
  BY <1>b
<1>e. c = Child(ranks, start, n)
  OBVIOUS
<1>f. m \in [D -> Nat]
  BY <1>a
<1> HIDE DEF D, Go, next, out, I, m, start, c
<1>3. ASSUME NEW s \in D, s \in Go
      PROVE  LET k == Child(ranks, s, n) IN
             /\ k \in s.at + 1..n /\ k \in 1..n /\ s.at \in 1..n
             /\ next[s] = [heap |-> Swapped(s.heap, s.at, k), at |-> k]
             /\ next[s] \in D /\ m[next[s]] < m[s] /\ next[s].at = k
             /\ next[s].heap = Swapped(s.heap, s.at, k)
             /\ Less(ranks, s.heap[k], s.heap[s.at])
             /\ Around(ranks, s.heap, n, s.at) => SinkReady(ranks, Swapped(s.heap, s.at, k), n, k)
  <2> DEFINE k == Child(ranks, s, n)
  <2>1. s.heap \in [1..N -> QueueTasks] /\ s.at \in 1..N /\ k <= n /\ Less(ranks, s.heap[k], s.heap[s.at])
    BY <1>2, <1>3, <1>a DEF Sinks
  <2>2. s.at \in 1..n
    <3>1. k = 2 * s.at \/ k = 2 * s.at + 1
      BY DEF Child
    <3> HIDE DEF k
    <3> QED  BY <2>1, <3>1
  <2>3. /\ k \in Nat /\ k > s.at /\ k \in 2..n /\ k \div 2 = s.at
        /\ \A x \in 2..n : x \div 2 = s.at => ~Less(ranks, s.heap[x], s.heap[k])
    BY <2>1, <2>2, ChildIsLeast
  <2> HIDE DEF k
  <2>4. k \in s.at + 1..n /\ k \in 1..n /\ k \in 1..N
    BY <2>1, <2>2, <2>3
  <2>5. next[s] = [heap |-> Swapped(s.heap, s.at, k), at |-> k]
    BY <1>2 DEF MovedTo, k
  <2>6. Swapped(s.heap, s.at, k) \in [1..N -> QueueTasks]
    BY <2>1, <2>4, SwapKeeps
  <2>7. next[s] \in D /\ next[s].at = k /\ next[s].heap = Swapped(s.heap, s.at, k)
    BY <1>b, <2>4, <2>5, <2>6
  <2>8. m[next[s]] < m[s]
    <3>1. m[next[s]] = N - k /\ m[s] = N - s.at
      BY <1>2, <2>7
    <3> QED  BY <2>1, <2>4, <3>1
  <2>9. Around(ranks, s.heap, n, s.at) => SinkReady(ranks, Swapped(s.heap, s.at, k), n, k)
    BY <2>1, <2>2, <2>3, SinkMoves
  <2> QED  BY <2>1, <2>2, <2>4, <2>5, <2>7, <2>8, <2>9 DEF k
<1>4. Eq(down)
  <2>1. PICK f : Loops(D, Go, next, out, f)
    <3>1. \A s \in D : s \in Go => next[s] \in D
      BY <1>3
    <3> QED  BY <3>1, LoopDefined
  <2>2. f = [s \in D |-> IF s \in Go THEN f[next[s]] ELSE out[s]]
    BY <2>1 DEF Loops
  <2>3. Eq(f)
    BY <1>2, <2>2
  <2> HIDE DEF Eq
  <2> QED  BY <2>3
<1> HIDE DEF down
<1>5. Loops(D, Go, next, out, down)
  BY <1>2, <1>4 DEF Loops
<1>6. down[start] = IF start \in Go THEN down[next[start]] ELSE h
  BY <1>2, <1>5, <1>d DEF Loops
<1>7. CASE start \notin Go
  <2>1. Sink(ranks, h, i, n) = h
    BY <1>1, <1>6, <1>7
  <2>2. ~(c <= n /\ Less(ranks, h[c], h[i]))
    BY <1>2, <1>7, <1>d DEF Sinks, c
  <2>3. c \in Nat /\ \A k \in 2..n : k \div 2 = i => c <= n /\ ~Less(ranks, h[k], h[c])
    BY <1>d, ChildIsLeast DEF c
  <2>4. ASSUME NEW k \in 2..n, k \div 2 = i
        PROVE  ~Less(ranks, h[k], h[i])
    <3>1. c <= n /\ ~Less(ranks, h[k], h[c]) /\ ~Less(ranks, h[c], h[i])
      BY <2>2, <2>3, <2>4
    <3>2. c > i
      BY <1>d, ChildIsLeast DEF c
    <3>3. h[c] \in QueueTasks /\ h[k] \in QueueTasks /\ h[i] \in QueueTasks
      BY <2>3, <3>1, <3>2
    <3> QED  BY <3>1, <3>3, LessOrders
  <2>5. RiseReady(ranks, h, n, i)
    BY <2>4 DEF RiseReady, Around
  <2> QED  BY <2>1, <2>5
<1>8. CASE start \in Go
  <2>1. /\ c \in i + 1..n /\ c \in 1..n /\ next[start] \in D /\ next[start].at = c
        /\ next[start].heap = Swapped(h, i, c) /\ Less(ranks, h[c], h[i])
        /\ SinkReady(ranks, Swapped(h, i, c), n, c)
    BY <1>3, <1>8, <1>d, <1>e
  <2>2. next[start] \in I
    <3>1. Shuffled(h, h, n)
      BY DEF Shuffled
    <3>2. Shuffled(Swapped(h, i, c), h, n)
      BY <2>1, <3>1, ShuffledStays
    <3>3. Swapped(h, i, c)[i] = h[c]
      <4>1. c \in 1..N /\ i \in 1..N /\ c # i
        BY <2>1
      <4> QED  BY <4>1, SwapKeeps
    <3> QED  BY <1>c, <2>1, <3>2, <3>3
  <2>3. ASSUME NEW s \in I, s \in Go
        PROVE  next[s] \in I /\ m[next[s]] < m[s]
    <3> DEFINE k == Child(ranks, s, n)
    <3>1. s \in D /\ s.at \in 1..n /\ s.at > i /\ s.heap[i] = h[c] /\ Shuffled(s.heap, h, n)
          /\ SinkReady(ranks, s.heap, n, s.at)
      BY <1>3, <1>c, <1>d, <2>3
    <3>2. Around(ranks, s.heap, n, s.at)
      BY <3>1 DEF SinkReady, Around
    <3>3. /\ k \in s.at + 1..n /\ k \in 1..n /\ next[s] \in D /\ m[next[s]] < m[s] /\ next[s].at = k
          /\ next[s].heap = Swapped(s.heap, s.at, k)
          /\ SinkReady(ranks, Swapped(s.heap, s.at, k), n, k)
      BY <1>3, <2>3, <3>1, <3>2
    <3> HIDE DEF k
    <3>4. Shuffled(Swapped(s.heap, s.at, k), h, n)
      BY <3>1, <3>3, ShuffledStays
    <3>5. Swapped(s.heap, s.at, k)[i] = h[c]
      <4>1. s.heap \in [1..N -> QueueTasks] /\ i \in 1..N /\ k \in 1..N /\ s.at \in 1..N /\ k # i /\ s.at # i
        BY <1>a, <3>1, <3>3
      <4>2. Swapped(s.heap, s.at, k)[i] = s.heap[i]
        BY <4>1 DEF Swapped
      <4> QED  BY <3>1, <4>2
    <3>6. k <= n /\ k > i
      BY <3>1, <3>3
    <3> QED  BY <1>c, <3>3, <3>4, <3>5, <3>6
  <2>4. EndsIn(I, Go, out, down)
    <3>1. Descends(I, Go, next, m)
      BY <2>3 DEF Descends
    <3> QED  BY <1>5, <1>d, <1>f, <3>1, LoopKeeps
  <2>5. PICK e \in I : e \notin Go /\ down[next[start]] = out[e]
    BY <2>2, <2>4 DEF EndsIn
  <2>6. /\ e \in D /\ Sink(ranks, h, i, n) = e.heap /\ ~Sinks(ranks, e, n) /\ e.at \in 1..n
        /\ e.heap[i] = h[c] /\ Shuffled(e.heap, h, n) /\ SinkReady(ranks, e.heap, n, e.at)
        /\ e.heap \in [1..N -> QueueTasks]
    <3>1. e \in D
      BY <1>d, <2>5
    <3>2. Sink(ranks, h, i, n) = e.heap
      BY <1>1, <1>2, <1>6, <1>8, <2>5, <3>1
    <3>3. e.at \in 1..n /\ e.heap \in [1..N -> QueueTasks]
      BY <1>a, <1>c, <2>5, <3>1
    <3> QED  BY <1>2, <1>c, <2>5, <3>1, <3>2, <3>3
  <2>7. e.heap # h
    BY <2>1, <2>6, LessOrders
  <2>8. ASSUME NEW k \in 2..n
        PROVE  ~Less(ranks, e.heap[k], e.heap[k \div 2])
    <3>1. CASE k \div 2 # e.at
      BY <2>6, <3>1 DEF SinkReady
    <3>2. CASE k \div 2 = e.at
      <4> DEFINE x == Child(ranks, e, n)
      <4>1. x \in Nat /\ x > e.at /\ x <= n /\ ~Less(ranks, e.heap[k], e.heap[x])
        BY <2>6, <3>2, ChildIsLeast
      <4>2. ~Less(ranks, e.heap[x], e.heap[e.at])
        BY <2>6, <4>1 DEF Sinks
      <4> HIDE DEF x
      <4>3. e.heap[x] \in QueueTasks /\ e.heap[k] \in QueueTasks /\ e.heap[e.at] \in QueueTasks
        BY <2>6, <4>1
      <4> QED  BY <3>2, <4>1, <4>2, <4>3, LessOrders
    <3> QED  BY <3>1, <3>2
  <2> QED  BY <2>6, <2>7, <2>8 DEF Heaped
<1> QED  BY <1>7, <1>8

LEMMA FixedHeaps ==
    ASSUME NEW ranks \in [QueueTasks -> Ranks], NEW N \in Nat, NEW h \in [1..N -> QueueTasks],
           IsInjective(h), NEW n \in 0..N, NEW i \in 1..n, Around(ranks, h, n, i)
    PROVE  Shuffled(Fixed(ranks, h, i, n), h, n) /\ Heaped(ranks, Fixed(ranks, h, i, n), n)
<1> DEFINE g == Sink(ranks, h, i, n)
<1>1. \/ g = h /\ RiseReady(ranks, h, n, i)
      \/ g # h /\ Shuffled(g, h, n) /\ Heaped(ranks, g, n)
  BY SinkHeaps
<1>2. Fixed(ranks, h, i, n) = IF g = h THEN Rise(ranks, h, i) ELSE g
  BY DEF Fixed
<1> HIDE DEF g
<1>3. CASE g = h
  <2>1. RiseReady(ranks, h, n, i)
    BY <1>1, <1>3
  <2>2. Shuffled(Rise(ranks, h, i), h, n) /\ Heaped(ranks, Rise(ranks, h, i), n)
    BY <2>1, RiseHeaps
  <2> QED  BY <1>2, <1>3, <2>2
<1>4. CASE g # h
  BY <1>1, <1>2, <1>4
<1> QED  BY <1>3, <1>4


LEMMA SeqOf ==
    ASSUME NEW S, NEW N \in Nat, NEW h \in [1..N -> S]
    PROVE  h \in Seq(S) /\ Len(h) = N
OBVIOUS

LEMMA WithoutHeaps ==
    ASSUME NEW ranks \in [QueueTasks -> Ranks], NEW N \in Nat \ {0}, NEW h \in [1..N -> QueueTasks],
           IsInjective(h), NEW i \in 1..N, Heaped(ranks, h, N)
    PROVE  /\ Without(ranks, h, i) \in [1..(N - 1) -> QueueTasks]
           /\ IsInjective(Without(ranks, h, i)) /\ Heaped(ranks, Without(ranks, h, i), N - 1)
           /\ Range(Without(ranks, h, i)) = Range(h) \ {h[i]}
<1> DEFINE n == N - 1
           moved == Swapped(h, i, N)
           g == IF i > n THEN moved ELSE Fixed(ranks, moved, i, n)
           w == Without(ranks, h, i)
<1>0. n \in Nat /\ n \in 0..N /\ N \in 1..N /\ N = n + 1 /\ Len(h) = N /\ DOMAIN h = 1..N
  BY SeqOf
<1>1. w = SubSeq(g, 1, n)
  BY <1>0 DEF Without
<1>2. /\ moved \in [1..N -> QueueTasks] /\ Range(moved) = Range(h) /\ IsInjective(moved)
      /\ \A x \in 1..N : moved[x] = IF x = N THEN h[i] ELSE IF x = i THEN h[N] ELSE h[x]
  BY <1>0, SwapKeeps
<1>3. \A k \in 2..N : ~Less(ranks, h[k], h[k \div 2]) /\ k \div 2 \in 1..N /\ k \div 2 < k
  BY Halves DEF Heaped
<1>4. \A x \in 1..N : h[x] \in QueueTasks
  OBVIOUS
<1> HIDE DEF moved, n, g
<1>5. ASSUME i > n  PROVE Shuffled(g, moved, n) /\ Heaped(ranks, g, n)
  <2>1. g = moved /\ i = N
    BY <1>0, <1>5 DEF g
  <2>2. \A x \in 1..N : moved[x] = h[x]
    BY <1>2, <2>1
  <2>3. Shuffled(g, moved, n)
    BY <1>2, <2>1 DEF Shuffled
  <2>4. Heaped(ranks, g, n)
    BY <1>0, <1>3, <2>1, <2>2 DEF Heaped
  <2> QED  BY <2>3, <2>4
<1>6. ASSUME ~(i > n)  PROVE Shuffled(g, moved, n) /\ Heaped(ranks, g, n)
  <2>1. g = Fixed(ranks, moved, i, n) /\ i \in 1..n
    BY <1>0, <1>6 DEF g
  <2>2. \A k \in 2..n : k # i /\ k \div 2 # i => ~Less(ranks, moved[k], moved[k \div 2])
    BY <1>0, <1>2, <1>3
  <2>3. ASSUME i > 1, NEW k \in 2..n, k \div 2 = i
        PROVE  ~Less(ranks, moved[k], moved[i \div 2])
    <3>1. i \in 2..N /\ i \div 2 \in 1..N /\ i \div 2 < i /\ k \in 2..N /\ i < k /\ k # N /\ i # N
      BY <1>0, <1>3, <2>1, <2>3
    <3>2. moved[k] = h[k] /\ moved[i \div 2] = h[i \div 2]
      BY <1>0, <1>2, <3>1
    <3>3. ~Less(ranks, h[k], h[i]) /\ ~Less(ranks, h[i], h[i \div 2])
      BY <1>3, <2>3, <3>1
    <3> QED  BY <1>0, <1>4, <3>1, <3>2, <3>3, LessOrders
  <2>4. Around(ranks, moved, n, i)
    BY <2>2, <2>3 DEF Around
  <2>5. Shuffled(Fixed(ranks, moved, i, n), moved, n) /\ Heaped(ranks, Fixed(ranks, moved, i, n), n)
    BY <1>0, <1>2, <2>1, <2>4, FixedHeaps
  <2> QED  BY <2>1, <2>5
<1>7. Shuffled(g, moved, n) /\ Heaped(ranks, g, n)
  BY <1>5, <1>6
<1> HIDE DEF w
<1>8. g \in [1..N -> QueueTasks] /\ Range(g) = Range(h) /\ IsInjective(g) /\ g[N] = h[i]
  BY <1>0, <1>2, <1>7 DEF Shuffled
<1>9. w = [x \in 1..n |-> g[x]]
  BY <1>0, <1>1, <1>8, SeqOf
<1>10. w \in [1..n -> QueueTasks] /\ (\A x \in 1..n : w[x] = g[x])
  BY <1>0, <1>8, <1>9
<1>11. IsInjective(w)
  BY <1>0, <1>8, <1>10 DEF IsInjective
<1>12. Heaped(ranks, w, n)
  <2>1. \A k \in 2..n : k \in 1..n /\ k \div 2 \in 1..n
    BY <1>0, Halves
  <2> QED  BY <1>7, <1>10, <2>1 DEF Heaped
<1>13. Range(w) = Range(h) \ {h[i]}
  <2>1. Range(w) = {g[x] : x \in 1..n}
    BY <1>10 DEF Range
  <2>2. Range(h) = {g[x] : x \in 1..N}
    BY <1>8 DEF Range
  <2>3. \A x \in 1..n : x \in 1..N /\ g[x] # g[N]
    BY <1>0, <1>8 DEF IsInjective
  <2>4. \A x \in 1..N : x \in 1..n \/ x = N
    BY <1>0
  <2> QED  BY <1>8, <2>1, <2>2, <2>3, <2>4
<1> QED  BY <1>10, <1>11, <1>12, <1>13 DEF n, w

-----------------------------------------------------------------------------
QueueInv == QueueTypeOK /\ Heaped(rank, items, Len(items))

LEMMA QueueParts ==
    ASSUME QueueInv
    PROVE  /\ Len(items) \in Nat /\ items \in [1..Len(items) -> QueueTasks] /\ IsInjective(items)
           /\ rank \in [QueueTasks -> Ranks] /\ Heaped(rank, items, Len(items))
           /\ items = <<>> <=> Len(items) = 0
BY DEF QueueInv, QueueTypeOK

\* What the queue is after a step.
LEMMA QueueMade ==
    ASSUME NEW N \in Nat, items' \in [1..N -> QueueTasks], IsInjective(items'),
           rank' \in [QueueTasks -> Ranks], given' \in QueueTasks \cup {NoTask}, Heaped(rank', items', N)
    PROVE  QueueInv'
<1>1. items' \in Seq(QueueTasks) /\ Len(items') = N
  BY SeqOf
<1> QED  BY <1>1 DEF QueueInv, QueueTypeOK

LEMMA TopIsFirst ==
    ASSUME QueueInv, items # <<>>
    PROVE  Order!IsFirst(items[1]) /\ items[1] \in QueueTasks
<1>1. Len(items) \in Nat \ {0}
  BY QueueParts
<1>2. \A i \in 1..Len(items) : ~Less(rank, items[i], items[1])
  BY <1>1, QueueParts, FirstIsLeast
<1>3. items[1] \in Range(items) /\ items[1] \in QueueTasks
  BY <1>1, QueueParts DEF Range
<1>4. \A u \in Range(items) : \E i \in 1..Len(items) : u = items[i]
  BY QueueParts DEF Range
<1> QED  BY <1>2, <1>3, <1>4 DEF Order!IsFirst, Order!Precedes, Less

LEMMA PushStep ==
    ASSUME QueueInv, NEW t \in QueueTasks, PushTask(t)
    PROVE  QueueInv' /\ Order!Add(t)
<1> DEFINE n == Len(items)  h == Append(items, t)  r == Rise(rank, h, n + 1)
<1>1. /\ n \in Nat /\ items \in [1..n -> QueueTasks] /\ IsInjective(items)
      /\ rank \in [QueueTasks -> Ranks] /\ Heaped(rank, items, n) /\ items \in Seq(QueueTasks)
  BY QueueParts DEF QueueInv, QueueTypeOK
<1>2. /\ h \in [1..(n + 1) -> QueueTasks] /\ h[n + 1] = t /\ \A x \in 1..n : h[x] = items[x]
  <2>1. h \in Seq(QueueTasks) /\ Len(h) = n + 1
    BY <1>1
  <2>2. h[n + 1] = t /\ \A x \in 1..n : h[x] = items[x]
    BY <1>1
  <2> HIDE DEF h
  <2> QED  BY <1>1, <2>1, <2>2
<1>3. t \notin Range(items) /\ items' = r /\ given' = NoTask /\ rank' = rank
  BY DEF PushTask
<1> HIDE DEF n, h, r
<1>4. n + 1 \in Nat /\ n + 1 \in 0..(n + 1) /\ n + 1 \in 1..(n + 1) /\ (\A x \in 1..(n + 1) : x \in 1..n \/ x = n + 1)
      /\ n + 1 \notin 1..n
  BY <1>1
<1>5. IsInjective(h) /\ Range(h) = Range(items) \cup {t}
  <2>1. \A x \in 1..n : items[x] # t
    BY <1>1, <1>3 DEF Range
  <2>2. IsInjective(h)
    BY <1>1, <1>2, <1>4, <2>1 DEF IsInjective
  <2>3. Range(h) = {h[x] : x \in 1..(n + 1)} /\ Range(items) = {items[x] : x \in 1..n} /\ 1..n \subseteq 1..(n + 1)
    BY <1>1, <1>2 DEF Range
  <2>4. Range(h) = Range(items) \cup {t}
    BY <1>2, <1>4, <2>3
  <2> QED  BY <2>2, <2>4
<1>6. RiseReady(rank, h, n + 1, n + 1)
  <2>1. ASSUME NEW k \in 2..(n + 1), k # n + 1
        PROVE  ~Less(rank, h[k], h[k \div 2])
    <3>1. k \in 2..n /\ k \in 1..n /\ k \div 2 \in 1..n
      BY <1>1, <2>1, Halves
    <3> QED  BY <1>1, <1>2, <3>1 DEF Heaped
  <2>2. \A k \in 2..(n + 1) : k \div 2 # n + 1
    BY <1>1, Halves
  <2> QED  BY <2>1, <2>2 DEF RiseReady
<1>7. Shuffled(r, h, n + 1) /\ Heaped(rank, r, n + 1)
  BY <1>1, <1>2, <1>4, <1>5, <1>6, RiseHeaps DEF r
<1>8. r \in [1..(n + 1) -> QueueTasks] /\ Range(r) = Range(items) \cup {t} /\ IsInjective(r)
  BY <1>2, <1>5, <1>7 DEF Shuffled
<1>9. QueueInv'
  BY <1>1, <1>3, <1>4, <1>7, <1>8, QueueMade
<1>10. Order!Add(t)
  BY <1>3, <1>8 DEF Order!Add
<1> QED  BY <1>9, <1>10

LEMMA LeaveStep ==
    ASSUME QueueInv, NEW i \in DOMAIN items, items' = Without(rank, items, i), rank' = rank,
           given' \in QueueTasks \cup {NoTask}
    PROVE  QueueInv' /\ Range(items') = Range(items) \ {items[i]} /\ items[i] \in Range(items)
<1> DEFINE N == Len(items)
<1>1. /\ N \in Nat \ {0} /\ items \in [1..N -> QueueTasks] /\ IsInjective(items) /\ i \in 1..N
      /\ rank \in [QueueTasks -> Ranks] /\ Heaped(rank, items, N)
  BY QueueParts
<1> HIDE DEF N
<1>2. /\ items' \in [1..(N - 1) -> QueueTasks] /\ IsInjective(items') /\ Heaped(rank, items', N - 1)
      /\ Range(items') = Range(items) \ {items[i]}
  BY <1>1, WithoutHeaps
<1>3. N - 1 \in Nat
  BY <1>1
<1>4. QueueInv'
  BY <1>1, <1>2, <1>3, QueueMade
<1> QED  BY <1>2, <1>4 DEF Range

LEMMA UpdateStep ==
    ASSUME QueueInv, NEW t \in QueueTasks, NEW p \in Priorities, UpdatePriority(t, p)
    PROVE  QueueInv' /\ Order!Change(t, p)
<1> DEFINE N == Len(items)
<1>1. /\ N \in Nat /\ items \in [1..N -> QueueTasks] /\ IsInjective(items)
      /\ rank \in [QueueTasks -> Ranks] /\ Heaped(rank, items, N)
  BY QueueParts
<1>2. PICK i \in 1..N : /\ items[i] = t /\ rank' = [rank EXCEPT ![t].priority = p]
                        /\ items' = Fixed(rank', items, i, N) /\ given' = NoTask
  BY <1>1 DEF UpdatePriority
<1> HIDE DEF N
<1>3. rank' \in [QueueTasks -> Ranks] /\ \A u \in QueueTasks : u # t => rank'[u] = rank[u]
  BY <1>1, <1>2 DEF Ranks
<1>4. \A u, v \in QueueTasks : u # t /\ v # t => (Less(rank', u, v) <=> Less(rank, u, v))
  BY <1>3 DEF Less
<1>5. \A x \in 1..N : items[x] \in QueueTasks /\ (items[x] = t => x = i)
  BY <1>1, <1>2 DEF IsInjective
<1>6. \A k \in 2..N : k \in 1..N /\ k \div 2 \in 1..N /\ k \div 2 < k /\ ~Less(rank, items[k], items[k \div 2])
  BY <1>1, Halves DEF Heaped
<1>7. Around(rank', items, N, i)
  <2>1. ASSUME NEW k \in 2..N, k # i, k \div 2 # i
        PROVE  ~Less(rank', items[k], items[k \div 2])
    BY <1>4, <1>5, <1>6, <2>1
  <2>2. ASSUME i > 1, NEW k \in 2..N, k \div 2 = i
        PROVE  ~Less(rank', items[k], items[i \div 2])
    <3>1. i \in 2..N /\ i \div 2 \in 1..N /\ i \div 2 # i /\ k # i /\ k \in 1..N /\ i \in 1..N
      BY <1>1, <1>6, <2>2
    <3>2. ~Less(rank, items[k], items[i]) /\ ~Less(rank, items[i], items[i \div 2])
      BY <1>6, <2>2, <3>1
    <3>3. ~Less(rank, items[k], items[i \div 2])
      BY <1>1, <1>5, <3>1, <3>2, LessOrders
    <3> QED  BY <1>4, <1>5, <3>1, <3>3
  <2> QED  BY <2>1, <2>2 DEF Around
<1>8. Shuffled(items', items, N) /\ Heaped(rank', items', N)
  <2>1. N \in 0..N
    BY <1>1
  <2> QED  BY <1>1, <1>2, <1>3, <1>7, <2>1, FixedHeaps
<1>9. items' \in [1..N -> QueueTasks] /\ Range(items') = Range(items) /\ IsInjective(items')
  BY <1>1, <1>8 DEF Shuffled
<1>10. QueueInv'
  BY <1>1, <1>2, <1>3, <1>8, <1>9, QueueMade
<1>11. t \in Range(items)
  BY <1>1, <1>2 DEF Range
<1> QED  BY <1>2, <1>9, <1>10, <1>11 DEF Order!Change

LEMMA QueueStep ==
    ASSUME QueueInv, [QueueNext]_queueVars
    PROVE  QueueInv' /\ [Order!TaskNext]_(Order!taskVars)
<1>1. CASE \E t \in QueueTasks : PushTask(t)
  BY <1>1, PushStep DEF Order!TaskNext
<1>2. CASE PopTask
  <2>1. items # <<>> /\ items' = Without(rank, items, 1) /\ given' = items[1] /\ rank' = rank
    BY <1>2 DEF PopTask
  <2>2. 1 \in DOMAIN items
    BY <2>1, QueueParts
  <2>3. Order!IsFirst(items[1]) /\ items[1] \in QueueTasks
    BY <2>1, TopIsFirst
  <2>4. QueueInv' /\ Range(items') = Range(items) \ {items[1]}
    BY <2>1, <2>2, <2>3, LeaveStep
  <2>5. Order!Take(items[1])
    BY <2>1, <2>3, <2>4 DEF Order!Take
  <2> QED  BY <2>3, <2>4, <2>5 DEF Order!TaskNext
<1>3. CASE PeekTask
  <2>1. items # <<>> /\ given' = items[1] /\ items' = items /\ rank' = rank
    BY <1>3 DEF PeekTask
  <2>2. Order!IsFirst(items[1]) /\ items[1] \in QueueTasks
    BY <2>1, TopIsFirst
  <2>3. QueueInv'
    BY <2>1, <2>2 DEF QueueInv, QueueTypeOK
  <2>4. Order!Show(items[1])
    BY <2>1, <2>2 DEF Order!Show
  <2> QED  BY <2>2, <2>3, <2>4 DEF Order!TaskNext
<1>4. CASE \E t \in QueueTasks : RemoveTask(t)
  <2>1. PICK t \in QueueTasks : RemoveTask(t)
    BY <1>4
  <2>2. PICK i \in DOMAIN items : items[i] = t /\ items' = Without(rank, items, i) /\ given' = NoTask /\ rank' = rank
    BY <2>1 DEF RemoveTask
  <2>3. QueueInv' /\ Range(items') = Range(items) \ {t} /\ t \in Range(items)
    BY <2>2, LeaveStep
  <2>4. Order!Discard(t)
    BY <2>2, <2>3 DEF Order!Discard
  <2> QED  BY <2>3, <2>4 DEF Order!TaskNext
<1>5. CASE \E t \in QueueTasks, p \in Priorities : UpdatePriority(t, p)
  BY <1>5, UpdateStep DEF Order!TaskNext
<1>6. CASE UNCHANGED queueVars
  <2>1. items' = items /\ rank' = rank /\ given' = given
    BY <1>6 DEF queueVars
  <2> QED  BY <2>1 DEF QueueInv, QueueTypeOK, Order!taskVars
<1> QED  BY <1>1, <1>2, <1>3, <1>4, <1>5, <1>6 DEF QueueNext

LEMMA QueueInvInit == QueueInit => QueueInv /\ Order!TaskInit
<1> SUFFICES ASSUME QueueInit  PROVE QueueInv /\ Order!TaskInit
  OBVIOUS
<1>1. items = <<>> /\ items \in Seq(QueueTasks) /\ Len(items) = 0 /\ DOMAIN items = {}
      /\ given = NoTask /\ rank \in [QueueTasks -> Ranks]
  BY DEF QueueInit
<1>2. Range(items) = {} /\ IsInjective(items)
  BY <1>1 DEF Range, IsInjective
<1>3. Heaped(rank, items, Len(items))
  BY <1>1 DEF Heaped
<1> QED  BY <1>1, <1>2, <1>3 DEF QueueInv, QueueTypeOK, Order!TaskInit

\* The queue holds tasks, each once (priority_queue.go:77-151).
THEOREM QueueTypes == QueueSpec => []QueueTypeOK
<1>1. QueueInv => QueueTypeOK
  BY DEF QueueInv
<1>2. QueueInv /\ [QueueNext]_queueVars => QueueInv'
  BY QueueStep
<1> QED  BY <1>1, <1>2, QueueInvInit, PTL DEF QueueSpec

\* The heap implements the order of priority: whatever is pushed, popped, removed from the
\* middle or changed in priority, PopTask and PeekTask return a task that none comes before
\* (priority_queue.go:77-151).
THEOREM HeapImplementsOrder == QueueSpec => ImplementsTaskOrder
<1>1. QueueInv /\ [QueueNext]_queueVars => QueueInv' /\ [Order!TaskNext]_(Order!taskVars)
  BY QueueStep
<1> QED  BY <1>1, QueueInvInit, PTL DEF QueueSpec, ImplementsTaskOrder, Order!TaskSpec
=============================================================================
