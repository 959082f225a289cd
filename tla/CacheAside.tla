----------------------------- MODULE CacheAside -----------------------------
(***************************************************************************)
(* stage2/05-cache/cache: cache.go (Cache, with the cleanup of ttl.go) and *)
(* singleflight.go (Singleflight, CacheAside).  A caller of CacheAside.Get *)
(* looks the key up; on a miss it joins the call in flight for the key or  *)
(* leads a new one, which looks again, fetches and stores.  Cache.Get      *)
(* reads the entry, unlocks, and deletes the key when what it read had     *)
(* expired.                                                                *)
(***************************************************************************)
EXTENDS Integers, FiniteSets

CONSTANTS
    CacheKeys,    \* the keys of the cache
    Callers,      \* goroutines; each calls CacheAside.Get once
    MaxSize,      \* c.maxSize; 0 means unlimited
    MaxChanges,   \* bound: how often the source changes and entries are lost
    None          \* no entry, no call

Entries == {"immortal", "mortal", "dead"}
ASSUME CacheAssumption ==
    MaxSize \in Nat /\ MaxChanges \in Nat /\ None \notin Callers \cup Entries

VARIABLES
    data,       \* c.data: "live" or "dead" entries; immortal when stored without a TTL
    inflight,   \* s.inflight: who leads the call in flight for a key
    finished,   \* the leaders whose call's wg is done
    caller,     \* where a caller is
    wants,      \* the key it asked for
    joined,     \* the leader whose call it waits for
    fetched,    \* successful and failed fetches of a key (history)
    failed,     \* those that failed (history)
    lost        \* how often an entry died or a live one was removed (history)

cacheVars == <<data, inflight, finished, caller, wants, joined, fetched, failed, lost>>

Usable(k) == data[k] \in {"immortal", "mortal"}

CacheInit ==
    /\ data = [k \in CacheKeys |-> None]
    /\ inflight = [k \in CacheKeys |-> None]
    /\ finished = {}
    /\ caller = [p \in Callers |-> "idle"]
    /\ wants \in [Callers -> CacheKeys]
    /\ joined = [p \in Callers |-> None]
    /\ fetched = [k \in CacheKeys |-> 0] /\ failed = [k \in CacheKeys |-> 0] /\ lost = [k \in CacheKeys |-> 0]

CallerAt(p, label) == caller' = [caller EXCEPT ![p] = label]

\* The keys of ks leave the map; of those that were usable it is noted.
Drop(ks) ==
    /\ data' = [k \in CacheKeys |-> IF k \in ks THEN None ELSE data[k]]
    /\ lost' = [k \in CacheKeys |-> IF k \in ks /\ Usable(k) THEN lost[k] + 1 ELSE lost[k]]

\* SetWithTTL: when the map is too large any one entry is deleted, the new one included.
Store(k, entry) ==
    LET after == [data EXCEPT ![k] = entry]
        present == {j \in CacheKeys : after[j] # None}
    IN \E out \in IF MaxSize > 0 /\ Cardinality(present) > MaxSize THEN present ELSE {None} :
         /\ data' = [j \in CacheKeys |-> IF j = out THEN None ELSE after[j]]
         /\ lost' = [j \in CacheKeys |-> IF j = out /\ after[j] # "dead" THEN lost[j] + 1 ELSE lost[j]]

-----------------------------------------------------------------------------
(***************************************************************************)
(* Owners of the cache and of the source, time, and the cleanup loop.      *)
(***************************************************************************)
others == <<inflight, finished, caller, wants, joined, fetched, failed>>

\* Cache.Set or SetWithTTL, CacheAside.Set.
OwnerSets(k, entry) ==
    /\ lost[k] < MaxChanges
    /\ Store(k, entry)
    /\ UNCHANGED others

\* Cache.Delete, CacheAside.Invalidate.
Invalidate(k) == lost[k] < MaxChanges /\ data[k] # None /\ Drop({k}) /\ UNCHANGED others

\* The entry's time to live is over.
Dies(k) ==
    /\ data[k] = "mortal" /\ lost[k] < MaxChanges
    /\ data' = [data EXCEPT ![k] = "dead"]
    /\ lost' = [lost EXCEPT ![k] = @ + 1]
    /\ UNCHANGED others

\* removeExpired, under c.mu.
RemoveExpired == (\E k \in CacheKeys : data[k] = "dead") /\ Drop({k \in CacheKeys : data[k] = "dead"}) /\ UNCHANGED others

-----------------------------------------------------------------------------
\* CacheAside.Get, and Cache.Get up to c.mu.RUnlock().
Lookup(p) ==
    /\ caller[p] = "idle"
    /\ CallerAt(p, CASE Usable(wants[p]) -> "returned"
                     [] data[wants[p]] = "dead" -> "purge"
                     [] OTHER -> "do")
    /\ UNCHANGED <<data, inflight, finished, wants, joined, fetched, failed, lost>>

\* c.Delete(key), whatever is there now.
Purge(p) ==
    /\ caller[p] \in {"purge", "purgeAgain"}
    /\ Drop({wants[p]})
    /\ CallerAt(p, IF caller[p] = "purge" THEN "do" ELSE "fetch")
    /\ UNCHANGED <<inflight, finished, wants, joined, fetched, failed>>

\* Do: join the call in flight for the key, or lead a new one.
Do(p) ==
    /\ caller[p] = "do"
    /\ LET c == inflight[wants[p]] IN
         IF c # None
         THEN CallerAt(p, "join") /\ joined' = [joined EXCEPT ![p] = c] /\ UNCHANGED inflight
         ELSE CallerAt(p, "lookAgain") /\ inflight' = [inflight EXCEPT ![wants[p]] = p] /\ UNCHANGED joined
    /\ UNCHANGED <<data, finished, wants, fetched, failed, lost>>

\* c.wg.Wait()
Join(p) ==
    /\ caller[p] = "join"
    /\ joined[p] \in finished
    /\ CallerAt(p, "returned")
    /\ UNCHANGED <<data, inflight, finished, wants, joined, fetched, failed, lost>>

\* Faulty variant: the leader does not look into the cache again.
LookAgainNever(p) ==
    /\ caller[p] = "lookAgain" /\ CallerAt(p, "fetch")
    /\ UNCHANGED <<data, inflight, finished, wants, joined, fetched, failed, lost>>
\* The double check.
LookAgain(p) ==
    /\ caller[p] = "lookAgain"
    /\ CallerAt(p, CASE Usable(wants[p]) -> "finish"
                     [] data[wants[p]] = "dead" -> "purgeAgain"
                     [] OTHER -> "fetch")
    /\ UNCHANGED <<data, inflight, finished, wants, joined, fetched, failed, lost>>

\* c.fetch returns a value or an error, or panics out of Do.
Fetch(p) ==
    /\ caller[p] = "fetch"
    /\ fetched' = [fetched EXCEPT ![wants[p]] = @ + 1]
    /\ \/ CallerAt(p, "store") /\ UNCHANGED failed
       \/ /\ CallerAt(p, "finish") \/ CallerAt(p, "panicked")
          /\ failed' = [failed EXCEPT ![wants[p]] = @ + 1]
    /\ UNCHANGED <<data, inflight, finished, wants, joined, lost>>

StoreFetched(p) ==
    /\ caller[p] = "store"
    /\ Store(wants[p], "immortal")
    /\ CallerAt(p, "finish")
    /\ UNCHANGED <<inflight, finished, wants, joined, fetched, failed>>

\* Faulty variant: the waiters are not released.
FinishForgets(p) ==
    /\ caller[p] = "finish" /\ CallerAt(p, "remove")
    /\ UNCHANGED <<data, inflight, finished, wants, joined, fetched, failed, lost>>
\* c.wg.Done()
Finish(p) ==
    /\ caller[p] = "finish"
    /\ finished' = finished \cup {p}
    /\ CallerAt(p, "remove")
    /\ UNCHANGED <<data, inflight, wants, joined, fetched, failed, lost>>

\* delete(s.inflight, key)
RemoveCall(p) ==
    /\ caller[p] = "remove"
    /\ inflight' = [inflight EXCEPT ![wants[p]] = None]
    /\ CallerAt(p, "returned")
    /\ UNCHANGED <<data, finished, wants, joined, fetched, failed, lost>>

-----------------------------------------------------------------------------
CallerStep(p) ==
    \/ Purge(p) \/ Do(p) \/ Join(p) \/ LookAgain(p) \/ Fetch(p) \/ StoreFetched(p)
    \/ Finish(p) \/ RemoveCall(p)

CacheNext ==
    \/ \E k \in CacheKeys, entry \in {"immortal", "mortal"} : OwnerSets(k, entry)
    \/ \E k \in CacheKeys : Invalidate(k)
    \/ \E k \in CacheKeys : Dies(k)
    \/ RemoveExpired
    \/ \E p \in Callers : Lookup(p)
    \/ \E p \in Callers : CallerStep(p)

\* A Get that has begun goes on when it can; fetches return.
CacheFairness == \A p \in Callers : WF_cacheVars(CallerStep(p))

CacheSpec == CacheInit /\ [][CacheNext]_cacheVars

-----------------------------------------------------------------------------
Leading == {"lookAgain", "purgeAgain", "fetch", "store", "finish", "remove", "panicked"}

\* The type invariant; who leads a call is the one the map has for the key.
CacheTypeOK ==
    /\ data \in [CacheKeys -> Entries \cup {None}] /\ inflight \in [CacheKeys -> Callers \cup {None}]
    /\ MaxSize > 0 => Cardinality({k \in CacheKeys : data[k] # None}) <= MaxSize
    /\ finished \subseteq Callers /\ joined \in [Callers -> Callers \cup {None}]
    /\ caller \in [Callers -> Leading \cup {"idle", "purge", "do", "join", "returned"}]
    /\ wants \in [Callers -> CacheKeys]
    /\ fetched \in [CacheKeys -> Nat] /\ failed \in [CacheKeys -> Nat] /\ lost \in [CacheKeys -> Nat]
    /\ \A p \in Callers : caller[p] \in Leading => inflight[wants[p]] = p

\* No stampede: however many callers want a key, the source is asked once, and once
\* more for every time a fetch failed or the entry expired or was removed
\* (singleflight.go:12-14, 93-119).
NoStampede == \A k \in CacheKeys : fetched[k] <= 1 + failed[k] + lost[k]

\* Every Get returns, unless a fetch of its key panicked: then the callers that
\* joined, and all later ones that miss, wait for ever (singleflight.go:60-66).
CallersServed == \A p \in Callers : caller[p] # "idle" ~>
    \/ caller[p] \in {"returned", "panicked"}
    \/ \E q \in Callers : caller[q] = "panicked" /\ wants[q] = wants[p]
=============================================================================
