----------------------------- MODULE ShardedMap -----------------------------
(***************************************************************************)
(* stage2/08-concurrent-map/cmap/sharded_map.go: a map per shard, each     *)
(* behind a sync.RWMutex.  A call that changes a shard waits in Lock, and  *)
(* from then on keeps new readers out, until those inside have left.       *)
(* Range holds a shard's read lock while it calls fn, and fn may call the  *)
(* map again.  Values are left out, and with them the difference between   *)
(* Set and GetOrSet.                                                       *)
(***************************************************************************)
EXTENDS Integers, FiniteSets

CONSTANTS
    MapKeys,
    AskedShards,    \* the count NewShardedMapWithCount is given
    Hashers,        \* hash functions
    MapCallers,     \* goroutines that call Set, GetOrSet, Delete and Get
    Rangers,        \* goroutines that call Range or Len, once
    FnCalls         \* what fn may call: a subset of {"set", "delete", "get"}

ASSUME ShardAssumption ==
    /\ AskedShards \in Int
    /\ Hashers \subseteq [MapKeys -> Nat]
    /\ FnCalls \subseteq {"set", "delete", "get"}
    /\ MapCallers \cap Rangers = {}

\* The least power of 2 that is no less than n.
PowersOf2(n) == {2^i : i \in 0..(IF n < 0 THEN 0 ELSE n)}
NextPowerOf2(n) == CHOOSE p \in PowersOf2(n) : n <= p /\ \A q \in PowersOf2(n) : n <= q => p <= q
ShardCount == NextPowerOf2(AskedShards)
Shards == 1..ShardCount
MapProcs == MapCallers \cup Rangers
Idle == [op |-> "none"]
Calls(ops) == [op : ops, key : MapKeys]

VARIABLES
    shards,    \* the keys in each shard
    hasher,    \* sm.hasher
    doing,     \* the call a goroutine, or its fn, is in
    walk,      \* where a Range or Len is, and what it has seen
    stray      \* SetWithHasher met a map that was not empty (history)

mapVars == <<shards, hasher, doing, walk, stray>>

NoWalk == [at |-> 0, phase |-> "idle", todo |-> {}, seen |-> {}, again |-> FALSE,
           kept |-> {}, ever |-> {}]

MapInit ==
    /\ shards = [s \in Shards |-> {}] /\ hasher \in Hashers /\ stray = FALSE
    /\ doing = [p \in MapProcs |-> Idle]
    /\ walk = [r \in Rangers |-> NoWalk]

Present == UNION {shards[s] : s \in Shards}

\* getShard: the mask takes the hash modulo ShardCount, a power of 2.
GetShard(k) == 1 + (hasher[k] % ShardCount)

\* Who holds the read lock of a shard, and whether somebody waits in its Lock.
ReadLocked(s) == \E r \in Rangers : walk[r].at = s /\ walk[r].phase \in {"visit", "fn"}
LockWanted(s) == \E p \in MapProcs : doing[p].op \in {"set", "delete"} /\ GetShard(doing[p].key) = s

-----------------------------------------------------------------------------
\* A goroutine calls Set, GetOrSet, Delete or Get, and gets as far as the lock.
MapCall(p, c) ==
    /\ doing[p] = Idle
    /\ doing' = [doing EXCEPT ![p] = c]
    /\ UNCHANGED <<shards, hasher, walk, stray>>

\* What was there, and what was there all the time, for those who walk meanwhile.
\* The call of p ends; an fn that made it goes on.
Witness(p, k, there) == walk' = [r \in Rangers |->
    [walk[r] EXCEPT !.ever = IF there THEN @ \cup {k} ELSE @,
                    !.kept = IF there THEN @ ELSE @ \ {k},
                    !.phase = IF r = p THEN "visit" ELSE @]]

\* Set and GetOrSet under the lock.
MapSet(p) ==
    /\ doing[p].op = "set"
    /\ LET k == doing[p].key IN
         /\ ~ReadLocked(GetShard(k))
         /\ shards' = [shards EXCEPT ![GetShard(k)] = @ \cup {k}]
         /\ doing' = [doing EXCEPT ![p] = Idle]
         /\ Witness(p, k, TRUE)
    /\ UNCHANGED <<hasher, stray>>

MapDelete(p) ==
    /\ doing[p].op = "delete"
    /\ LET k == doing[p].key IN
         /\ ~ReadLocked(GetShard(k))
         /\ shards' = [shards EXCEPT ![GetShard(k)] = @ \ {k}]
         /\ doing' = [doing EXCEPT ![p] = Idle]
         /\ Witness(p, k, FALSE)
    /\ UNCHANGED <<hasher, stray>>

\* Get under the read lock.
MapGet(p) ==
    /\ doing[p].op = "get"
    /\ ~LockWanted(GetShard(doing[p].key))
    /\ doing' = [doing EXCEPT ![p] = Idle]
    /\ walk' = [r \in Rangers |-> IF r = p THEN [walk[r] EXCEPT !.phase = "visit"] ELSE walk[r]]
    /\ UNCHANGED <<shards, hasher, stray>>

-----------------------------------------------------------------------------
Walking(r, w) == walk' = [walk EXCEPT ![r] = w]

RangeBegin(r) ==
    /\ walk[r].phase = "idle"
    /\ \E phase \in {"rlock", "count"} :
         Walking(r, [NoWalk EXCEPT !.at = 1, !.phase = phase, !.kept = Present, !.ever = Present])
    /\ UNCHANGED <<shards, hasher, doing, stray>>

\* Len: the length of one shard under its read lock.
LenShard(r) ==
    LET w == walk[r] IN
    /\ w.phase = "count" /\ ~LockWanted(w.at)
    /\ Walking(r, [w EXCEPT !.seen = @ \cup shards[w.at],
                            !.again = @ \/ w.seen \cap shards[w.at] # {},
                            !.at = @ + 1,
                            !.phase = IF w.at = ShardCount THEN "done" ELSE @])
    /\ UNCHANGED <<shards, hasher, doing, stray>>

RangeRLock(r) ==
    LET w == walk[r] IN
    /\ w.phase = "rlock" /\ ~LockWanted(w.at)
    /\ Walking(r, [w EXCEPT !.todo = shards[w.at], !.phase = "visit"])
    /\ UNCHANGED <<shards, hasher, doing, stray>>

\* Faulty variant: the return on false leaves the shard locked.
RangeVisitLocked(r, k) ==
    LET w == walk[r]
        visited == [w EXCEPT !.todo = @ \ {k}, !.seen = @ \cup {k}, !.again = @ \/ k \in w.seen]
    IN
    /\ w.phase = "visit" /\ k \in w.todo
    /\ \/ Walking(r, visited) /\ UNCHANGED doing
       \/ Walking(r, [visited EXCEPT !.phase = "fn"]) /\ UNCHANGED doing
       \/ \E c \in Calls(FnCalls) :
            /\ Walking(r, [visited EXCEPT !.phase = "fn"])
            /\ doing' = [doing EXCEPT ![r] = c]
    /\ UNCHANGED <<shards, hasher, stray>>
\* fn returns true or false, or calls the map first.
RangeVisit(r, k) ==
    LET w == walk[r]
        visited == [w EXCEPT !.todo = @ \ {k}, !.seen = @ \cup {k}, !.again = @ \/ k \in w.seen]
    IN
    /\ w.phase = "visit" /\ k \in w.todo
    /\ \/ Walking(r, visited) /\ UNCHANGED doing
       \/ Walking(r, [visited EXCEPT !.phase = "stopped"]) /\ UNCHANGED doing
       \/ \E c \in Calls(FnCalls) :
            /\ Walking(r, [visited EXCEPT !.phase = "fn"])
            /\ doing' = [doing EXCEPT ![r] = c]
    /\ UNCHANGED <<shards, hasher, stray>>

\* Faulty variant: the last shard is left out.
RangeRUnlockEarly(r) ==
    LET w == walk[r] IN
    /\ w.phase = "visit" /\ w.todo = {}
    /\ Walking(r, IF w.at >= ShardCount - 1 THEN [w EXCEPT !.at = 0, !.phase = "done"]
                  ELSE [w EXCEPT !.at = @ + 1, !.phase = "rlock"])
    /\ UNCHANGED <<shards, hasher, doing, stray>>
RangeRUnlock(r) ==
    LET w == walk[r] IN
    /\ w.phase = "visit" /\ w.todo = {}
    /\ Walking(r, IF w.at = ShardCount THEN [w EXCEPT !.at = 0, !.phase = "done"]
                  ELSE [w EXCEPT !.at = @ + 1, !.phase = "rlock"])
    /\ UNCHANGED <<shards, hasher, doing, stray>>

\* Not synchronised: while nobody else uses the map.
SetWithHasher(h) ==
    /\ \A p \in MapProcs : doing[p] = Idle
    /\ \A r \in Rangers : walk[r].phase \in {"idle", "stopped", "done"}
    /\ hasher' = h /\ h # hasher
    /\ stray' = (stray \/ Present # {})
    /\ UNCHANGED <<shards, doing, walk>>

-----------------------------------------------------------------------------
MapStep(p) == MapSet(p) \/ MapDelete(p) \/ MapGet(p)
RangeStep(r) == LenShard(r) \/ RangeRLock(r) \/ RangeRUnlock(r) \/ \E k \in MapKeys : RangeVisit(r, k)

MapNext ==
    \/ \E p \in MapCallers, c \in Calls({"set", "delete", "get"}) : MapCall(p, c)
    \/ \E p \in MapProcs : MapStep(p)
    \/ \E r \in Rangers : RangeBegin(r)
    \/ \E r \in Rangers : RangeStep(r)
    \/ \E h \in Hashers : SetWithHasher(h)

\* A goroutine goes on when it can, and one that waits for a lock which is free again and
\* again gets it.
MapFairness ==
    /\ \A p \in MapCallers : SF_mapVars(MapStep(p))
    /\ \A r \in Rangers : SF_mapVars(RangeStep(r) \/ MapStep(r))

MapSpec == MapInit /\ [][MapNext]_mapVars

-----------------------------------------------------------------------------
\* A key is in one shard, the one of its hash, unless the hash was changed.
MapTypeOK ==
    /\ shards \in [Shards -> SUBSET MapKeys] /\ hasher \in Hashers /\ stray \in BOOLEAN
    /\ doing \in [MapProcs -> Calls({"set", "delete", "get"}) \cup {Idle}]
    /\ \A r \in Rangers :
         /\ walk[r].phase \in {"idle", "rlock", "count", "visit", "fn", "stopped", "done"}
         /\ walk[r].at \in 0..(ShardCount + 1)
         /\ walk[r].todo \cup walk[r].seen \cup walk[r].kept \cup walk[r].ever \subseteq MapKeys
    /\ stray \/ \A s \in Shards, k \in MapKeys : k \in shards[s] => s = GetShard(k)

\* Range and Len lock the shards one after the other (sharded_map.go:150-173): still,
\* a key that is there all the time is visited, or counted, exactly once, one that
\* never was there is not, unless fn stopped the walk or the hash was changed under
\* stored keys.
RangeSees == \A r \in Rangers : stray \/
    /\ ~walk[r].again /\ walk[r].seen \subseteq walk[r].ever
    /\ walk[r].phase = "done" => walk[r].kept \subseteq walk[r].seen

\* For ever: the fn of a Range calls the map for the very shard whose read lock the Range
\* holds, and it wants to write, or waits behind one who does and who waits for the Range.
BlockedFor(s) == LockWanted(s) /\ \E r \in Rangers :
    doing[r] # Idle /\ walk[r].at = s /\ GetShard(doing[r].key) = s

\* Every call ends, and so does every Range and Len, with the calls of its fn, although
\* others lock the same shards again and again; unless the shard is blocked by an fn that
\* calls the map (sharded_map.go:113-173).
MapCallsEnd ==
    /\ \A p \in MapCallers : doing[p] # Idle ~> doing[p] = Idle \/ BlockedFor(GetShard(doing[p].key))
    /\ \A r \in Rangers :
         walk[r].phase # "idle" ~> walk[r].phase \in {"stopped", "done"} \/ BlockedFor(walk[r].at)
=============================================================================
