------------------------------ MODULE LRUCache ------------------------------
(***************************************************************************)
(* stage2/05-cache/cache/lru.go: a map of nodes that form a doubly-linked  *)
(* list.  A node is identified with its key: the code drops its only       *)
(* references to a node when it takes the key out of the map.  Every       *)
(* method is one critical section of c.mu.  Values and statistics are left *)
(* out.                                                                    *)
(***************************************************************************)
EXTENDS Integers, FiniteSets

CONSTANTS
    Keys,
    Capacity,   \* c.capacity
    Nil         \* the nil pointer

ASSUME LRUCacheAssumption == Capacity \in Nat \ {0} /\ Nil \notin Keys

VARIABLES
    nodes,              \* the keys of c.data
    list,               \* the pointers: head, tail, and prev and next of the nodes
    mortal, expired     \* the keys with an expiration, and those past it

lruVars == <<nodes, list, mortal, expired>>

NoList == [head |-> Nil, tail |-> Nil, prev |-> [k \in Keys |-> Nil], next |-> [k \in Keys |-> Nil]]

LRUInit == nodes = {} /\ list = NoList /\ mortal = {} /\ expired = {}

-----------------------------------------------------------------------------
\* The pointer of node n becomes m, if there is a node n.
Point(f, n, m) == IF n = Nil THEN f ELSE [f EXCEPT ![n] = m]

AddToFront(l, n) ==
    [head |-> n,
     tail |-> IF l.tail = Nil THEN n ELSE l.tail,
     prev |-> Point(Point(l.prev, n, Nil), l.head, n),
     next |-> Point(l.next, n, l.head)]

\* Faulty variant: the tail is forgotten.
RemoveNodeNoTail(l, n) ==
    [head |-> IF l.prev[n] = Nil THEN l.next[n] ELSE l.head,
     tail |-> l.tail,
     prev |-> Point(l.prev, l.next[n], l.prev[n]),
     next |-> Point(l.next, l.prev[n], l.next[n])]
\* The pointers of n itself are left as they are.
RemoveNode(l, n) ==
    [head |-> IF l.prev[n] = Nil THEN l.next[n] ELSE l.head,
     tail |-> IF l.next[n] = Nil THEN l.prev[n] ELSE l.tail,
     prev |-> Point(l.prev, l.next[n], l.prev[n]),
     next |-> Point(l.next, l.prev[n], l.next[n])]

\* Faulty variant: a node that is at the front is added again.
MoveToFrontAlways(l, n) == AddToFront(l, n)
MoveToFront(l, n) == IF n = l.head THEN l ELSE AddToFront(RemoveNode(l, n), n)

-----------------------------------------------------------------------------
LRUGet(k) ==
    /\ k \in nodes
    /\ IF k \in expired
       THEN /\ nodes' = nodes \ {k} /\ list' = RemoveNode(list, k)
            /\ mortal' = mortal \ {k} /\ expired' = expired \ {k}
       ELSE list' = MoveToFront(list, k) /\ UNCHANGED <<nodes, mortal, expired>>

\* SetWithTTL of a key that is there.
LRUUpdate(k, ttl) ==
    /\ k \in nodes
    /\ list' = MoveToFront(list, k)
    /\ mortal' = IF ttl THEN mortal \cup {k} ELSE mortal \ {k}
    /\ expired' = expired \ {k}
    /\ UNCHANGED nodes

\* Faulty variant: eviction begins one entry too late.
NoRoomLate == Cardinality(nodes) > Capacity
NoRoom == Cardinality(nodes) >= Capacity

\* SetWithTTL of a new key, after evictLRU when there is no room.
LRUInsert(k, ttl) ==
    /\ k \notin nodes
    /\ LET out == IF NoRoom /\ list.tail # Nil THEN {list.tail} ELSE {}
           rest == IF out = {} THEN list ELSE RemoveNode(list, list.tail)
       IN /\ nodes' = (nodes \ out) \cup {k}
          /\ list' = AddToFront(rest, k)
          /\ mortal' = (mortal \ out) \cup (IF ttl THEN {k} ELSE {})
          /\ expired' = expired \ out

LRUDelete(k) ==
    /\ k \in nodes
    /\ nodes' = nodes \ {k} /\ list' = RemoveNode(list, k)
    /\ mortal' = mortal \ {k} /\ expired' = expired \ {k}

\* Clear drops the map and the two ends.
LRUClear ==
    /\ nodes' = {} /\ mortal' = {} /\ expired' = {}
    /\ list' = [list EXCEPT !.head = Nil, !.tail = Nil]

\* Time passes.
LRUExpire(k) == k \in mortal \ expired /\ expired' = expired \cup {k} /\ UNCHANGED <<nodes, list, mortal>>

LRUNext ==
    \/ \E k \in Keys : LRUGet(k)
    \/ \E k \in Keys, ttl \in BOOLEAN : LRUUpdate(k, ttl)
    \/ \E k \in Keys, ttl \in BOOLEAN : LRUInsert(k, ttl)
    \/ \E k \in Keys : LRUDelete(k)
    \/ LRUClear
    \/ \E k \in Keys : LRUExpire(k)

LRUSpec == LRUInit /\ [][LRUNext]_lruVars

-----------------------------------------------------------------------------
\* The nodes one meets on the way from the head, as Keys() does, or back from the
\* tail; the walk is cut off after as many nodes as the map has.
Walk(start, step) ==
    LET at[i \in Nat] == IF i = 0 THEN start
                         ELSE IF at[i - 1] = Nil THEN Nil ELSE step[at[i - 1]]
    IN [i \in 1..Cardinality(nodes) |-> at[i - 1]]
Forward == Walk(list.head, list.next)
Backward == Walk(list.tail, list.prev)

LRUTypeOK ==
    /\ nodes \subseteq Keys /\ Cardinality(nodes) <= Capacity
    /\ list \in [head : Keys \cup {Nil}, tail : Keys \cup {Nil},
                 prev : [Keys -> Keys \cup {Nil}], next : [Keys -> Keys \cup {Nil}]]
    /\ expired \subseteq mortal /\ mortal \subseteq nodes

\* The map and the list hold the same keys: walking forward meets each once and ends
\* in nil, and walking backward meets them in the opposite order.
ListMatchesMap ==
    LET n == Cardinality(nodes) IN
    /\ {Forward[i] : i \in 1..n} = nodes
    /\ \A i \in 1..n : Backward[i] = Forward[n + 1 - i]
    /\ IF n = 0 THEN list.head = Nil /\ list.tail = Nil
       ELSE list.next[Forward[n]] = Nil /\ list.prev[Forward[1]] = Nil

LRUAbstract == INSTANCE LRUOrder WITH order <- Forward

\* The list implements the order of recency.
ImplementsOrder == LRUAbstract!OrderSpec
=============================================================================
