------------------------------- MODULE TTLMap -------------------------------
(***************************************************************************)
(* stage2/08-concurrent-map/cmap/ttl_map.go.  A call that changes a shard  *)
(* is one critical section; Get reads the entry under the read lock,       *)
(* unlocks, and calls Delete when what it read had expired.  The cleanup   *)
(* loop takes the time once and then goes from shard to shard; here every  *)
(* key is in a shard of its own.  Walks (Len, Range) are ShardedMap's.     *)
(***************************************************************************)
EXTENDS Integers, FiniteSets

CONSTANTS
    TTLKeys,
    Users,      \* goroutines that call Get and Delete
    Forever,    \* the time to live that SetNoExpire gives
    TTLTimes,   \* the times to live that others give
    LastTick,   \* bound on the clock
    Missing     \* no entry

ASSUME TTLAssumption ==
    /\ LastTick \in Nat /\ TTLTimes \subseteq 0..Forever
    /\ Forever \in Nat /\ Forever > LastTick
    /\ Missing \notin [until : Nat, during : SUBSET Users]

Lifetimes == TTLTimes \cup {Forever}

VARIABLES
    tick,      \* time.Now()
    entries,   \* s.data: until when an entry is valid, and which calls of Get were under way
               \* for the key when it was stored or touched (the latter is history)
    use,       \* the call a user is in: "delete", "get" with the expiration it has read,
               \* or "purge", a Get that is to delete the key
    sweep,     \* the time the cleanup took, and the keys it has still to look at
    loop       \* the cleanup loop: "on", "stopping" when Close was called, "off"

ttlVars == <<tick, entries, use, sweep, loop>>

NoUse == [op |-> "none"]
Call(op, k, until) == [op |-> op, key |-> k, until |-> until]
NoSweep == [at |-> 0, keys |-> {}]

TTLInit ==
    /\ tick = 0 /\ loop = "on" /\ sweep = NoSweep
    /\ entries = [k \in TTLKeys |-> Missing]
    /\ use = [u \in Users |-> NoUse]

\* IsExpired: strictly after ExpiresAt.
Expired(until, now) == now > until
Live(k) == entries[k] # Missing /\ ~Expired(entries[k].until, tick)

Getting(k) == {u \in Users : use[u].op \in {"get", "purge"} /\ use[u].key = k}
Entry(k, ttl) == [until |-> tick + ttl, during |-> Getting(k)]
Put(k, entry) == entries' = [entries EXCEPT ![k] = entry]

-----------------------------------------------------------------------------
TTLTick == tick < LastTick /\ tick' = tick + 1 /\ UNCHANGED <<entries, use, sweep, loop>>

\* Set and SetNoExpire
TTLSet(k, ttl) == Put(k, Entry(k, ttl)) /\ UNCHANGED <<tick, use, sweep, loop>>

Touch(k, ttl) == Live(k) /\ Put(k, Entry(k, ttl)) /\ UNCHANGED <<tick, use, sweep, loop>>

\* GetOrSet of a key that is missing or has expired.
GetOrSet(k, ttl) == ~Live(k) /\ Put(k, Entry(k, ttl)) /\ UNCHANGED <<tick, use, sweep, loop>>

Uses(u, call) == use' = [use EXCEPT ![u] = call] /\ UNCHANGED <<tick, entries, sweep, loop>>

\* A user calls Delete; or Get, which reads an entry and unlocks.
DeleteCall(u, k) == use[u] = NoUse /\ Uses(u, Call("delete", k, 0))
GetRead(u, k) == use[u] = NoUse /\ entries[k] # Missing /\ Uses(u, Call("get", k, entries[k].until))

\* entry.IsExpired(), of what was read.
GetChecks(u) ==
    /\ use[u].op = "get"
    /\ Uses(u, IF Expired(use[u].until, tick) THEN Call("purge", use[u].key, 0) ELSE NoUse)

\* Delete, whatever is there now.
TTLDelete(u) ==
    /\ use[u].op \in {"delete", "purge"}
    /\ Put(use[u].key, Missing)
    /\ use' = [use EXCEPT ![u] = NoUse]
    /\ UNCHANGED <<tick, sweep, loop>>

-----------------------------------------------------------------------------
\* case <-ticker.C, while Close may have been called already.
SweepBegin ==
    /\ loop # "off" /\ sweep = NoSweep
    /\ sweep' = [at |-> tick, keys |-> TTLKeys]
    /\ UNCHANGED <<tick, entries, use, loop>>

\* Faulty variant: what expires within the tick is taken for expired.
SweepsSoon(k) == sweep.at >= entries[k].until
Sweeps(k) == Expired(entries[k].until, sweep.at)

SweepShard(k) ==
    /\ k \in sweep.keys
    /\ entries' = IF entries[k] # Missing /\ Sweeps(k)
                  THEN [entries EXCEPT ![k] = Missing] ELSE entries
    /\ sweep' = IF sweep.keys = {k} THEN NoSweep ELSE [sweep EXCEPT !.keys = @ \ {k}]
    /\ UNCHANGED <<tick, use, loop>>

\* Close: close(m.stopCleanup), and m.wg.Wait() until the loop has noticed; it is to be
\* called once.
TTLClose == loop = "on" /\ loop' = "stopping" /\ UNCHANGED <<tick, entries, use, sweep>>
LoopEnds == loop = "stopping" /\ sweep = NoSweep /\ loop' = "off" /\ UNCHANGED <<tick, entries, use, sweep>>

-----------------------------------------------------------------------------
TTLNext ==
    \/ TTLTick
    \/ \E k \in TTLKeys, ttl \in Lifetimes : TTLSet(k, ttl)
    \/ \E k \in TTLKeys, ttl \in Lifetimes : Touch(k, ttl)
    \/ \E k \in TTLKeys, ttl \in Lifetimes : GetOrSet(k, ttl)
    \/ \E u \in Users, k \in TTLKeys : DeleteCall(u, k)
    \/ \E u \in Users, k \in TTLKeys : GetRead(u, k)
    \/ \E u \in Users : GetChecks(u)
    \/ \E u \in Users : TTLDelete(u)
    \/ SweepBegin
    \/ \E k \in TTLKeys : SweepShard(k)
    \/ TTLClose
    \/ LoopEnds

TTLSpec == TTLInit /\ [][TTLNext]_ttlVars

-----------------------------------------------------------------------------
TTLEntries == [until : 0..(LastTick + Forever), during : SUBSET Users]

TTLTypeOK ==
    /\ tick \in 0..LastTick /\ loop \in {"on", "stopping", "off"}
    /\ entries \in [TTLKeys -> TTLEntries \cup {Missing}]
    /\ use \in [Users -> {NoUse} \cup
         [op : {"delete", "get", "purge"}, key : TTLKeys, until : 0..(LastTick + Forever)]]
    /\ sweep \in [at : 0..tick, keys : SUBSET TTLKeys]

\* An entry that has not expired leaves the map by a Delete, or by a Get that was under
\* way already when the entry was stored or touched, and in no other way: the lazy
\* deletion takes what it finds, even the entry of a SetNoExpire, but no entry is
\* exposed to later calls, and the cleanup, which goes by an old time, takes nothing
\* that is alive (ttl_map.go:84-99, 116, 224-235).
EntryLasts == \A k \in TTLKeys : Live(k) /\ entries'[k] = Missing =>
    \E u \in Users : /\ use[u].op = "delete" \/ (use[u].op = "purge" /\ u \in entries[k].during)
                     /\ use[u].key = k /\ use'[u] = NoUse
EntriesLast == [][EntryLasts]_ttlVars
=============================================================================
