-------------------------- MODULE StructuresProofs --------------------------
(***************************************************************************)
(* Theorems of the retry loop, of CacheAside, of the basic connection      *)
(* pool, of the rate limiters, of the cron schedule, of LRUCache and of    *)
(* the two maps, for any callers, clients, keys, hashes, sizes, rates,     *)
(* windows and calendars.  Each has an inductive invariant of its own, and *)
(* so has the priority queue (QueueProofs); a behaviour of MCStructures is *)
(* a behaviour of each.                                                    *)
(***************************************************************************)
EXTENDS MCStructures, QueueProofs

-----------------------------------------------------------------------------
(* Retry.  How many calls there have been at each place, and what the end of the *)
(* context leaves room for.                                                      *)
RetryCounted ==
    /\ stage = "loop" => calls = attempt /\ (attempt = 0 \/ attempt <= allowed)
    /\ stage = "call" => calls = attempt /\ attempt <= allowed
    /\ stage = "fn" => calls = attempt + 1 /\ attempt <= allowed
    /\ stage = "backoff" => calls = attempt + 1 /\ attempt < allowed
    /\ stage \in {"succeeded", "refused", "cancelled"} => calls <= allowed + 1 /\ 0 <= allowed

RetryLate ==
    /\ late # 0 => ctxOver
    /\ stage = "call" => late = 0

RetryInv == RetryTypeOK /\ RetryCounted /\ RetryLate /\ RetryBounded

LEMMA RetryInvariant == RetryInit /\ [][RetryNext]_retryVars => []RetryInv
<1> USE RetryAssumption DEF RetryInv, RetryTypeOK, RetryCounted, RetryLate, RetryBounded
<1>1. RetryInit => RetryInv
  <2> SUFFICES ASSUME RetryInit
               PROVE  RetryInv
    OBVIOUS
  <2>1. allowed \in RetryCounts /\ allowed \in Int /\ ctxOver \in BOOLEAN
    BY DEF RetryInit
  <2> QED  BY <2>1 DEF RetryInit
<1>2. RetryInv /\ [RetryNext]_retryVars => RetryInv'
  <2> SUFFICES ASSUME RetryInv, [RetryNext]_retryVars
               PROVE  RetryInv'
    OBVIOUS
  <2>0. allowed \in Int /\ attempt \in Nat /\ calls \in Nat /\ late \in Nat
    OBVIOUS
  <2>1. CASE RetryCtxDone
    BY <2>0, <2>1 DEF RetryCtxDone
  <2>2. CASE RetryLoop
    BY <2>0, <2>2 DEF RetryLoop
  <2>3. CASE RetryCall
    BY <2>0, <2>3 DEF RetryCall
  <2>4. CASE RetryFnReturns
    BY <2>0, <2>4 DEF RetryFnReturns
  <2>5. CASE RetryBackoff
    BY <2>0, <2>5 DEF RetryBackoff
  <2>6. CASE UNCHANGED retryVars
    BY <2>6 DEF retryVars
  <2> QED  BY <2>1, <2>2, <2>3, <2>4, <2>5, <2>6 DEF RetryNext
<1> QED  BY <1>1, <1>2, PTL

\* However a retry's backoffs, its context and its function go, it makes no more calls
\* than MaxRetries allows, and none but the last after its context is done
\* (retry.go:76-110).
THEOREM RetriesEnd == RetrySpec => []RetryBounded
<1>1. RetryInv => RetryBounded
  BY DEF RetryInv
<1> QED  BY <1>1, RetryInvariant, PTL DEF RetrySpec

-----------------------------------------------------------------------------
(* CacheAside.  How far the fetches of a key may be ahead of its failures and losses: *)
(* not at all while its leader is to fetch, by one when it is to store, and otherwise *)
(* by one if there is a usable entry.                                                 *)
Leads(k, label) == \E p \in Callers : caller[p] = label /\ wants[p] = k

Ahead(k) ==
    IF Leads(k, "fetch") THEN 0
    ELSE IF Leads(k, "store") \/ Usable(k) THEN 1 ELSE 0

FetchesExplained == \A k \in CacheKeys : fetched[k] <= failed[k] + lost[k] + Ahead(k)

EntriesFinite == IsFiniteSet({k \in CacheKeys : data[k] # None})

CacheInv == CacheTypeOK /\ EntriesFinite /\ FetchesExplained

\* A caller that leads is the only one that leads for its key.
LEMMA OneLeader ==
    ASSUME CacheTypeOK, NEW p \in Callers, NEW q \in Callers, caller[p] \in Leading, caller[q] \in Leading,
           wants[p] = wants[q]
    PROVE  p = q
BY DEF CacheTypeOK

\* What Store makes of the entries.
LEMMA StoreKeeps ==
    ASSUME CacheInv, NEW k \in CacheKeys, NEW entry \in {"immortal", "mortal"}, Store(k, entry)
    PROVE  /\ data' \in [CacheKeys -> Entries \cup {None}] /\ lost' \in [CacheKeys -> Nat]
           /\ EntriesFinite'
           /\ MaxSize > 0 => Cardinality({j \in CacheKeys : data'[j] # None}) <= MaxSize
           /\ \A j \in CacheKeys : \/ lost'[j] = lost[j] /\ (Usable(j)' \/ (j # k /\ ~Usable(j)))
                                   \/ lost'[j] = lost[j] + 1
<1> DEFINE after == [data EXCEPT ![k] = entry]
           present == {j \in CacheKeys : after[j] # None}
           stored == {j \in CacheKeys : data[j] # None}
<1>1. PICK out \in IF MaxSize > 0 /\ Cardinality(present) > MaxSize THEN present ELSE {None} :
         /\ data' = [j \in CacheKeys |-> IF j = out THEN None ELSE after[j]]
         /\ lost' = [j \in CacheKeys |-> IF j = out /\ after[j] # "dead" THEN lost[j] + 1 ELSE lost[j]]
  BY DEF Store
<1>2. data \in [CacheKeys -> Entries \cup {None}] /\ lost \in [CacheKeys -> Nat] /\ IsFiniteSet(stored)
      /\ (MaxSize > 0 => Cardinality(stored) <= MaxSize)
  BY DEF CacheInv, CacheTypeOK, EntriesFinite
<1>3. present = stored \cup {k}
  BY <1>2, CacheAssumption DEF Entries
<1>4. IsFiniteSet(present) /\ Cardinality(present) <= Cardinality(stored) + 1
      /\ Cardinality(present) \in Nat /\ Cardinality(stored) \in Nat
  <2> HIDE DEF present, stored
  <2>1. IsFiniteSet(present) /\ Cardinality(present) \in Nat /\ Cardinality(stored) \in Nat
    BY <1>2, <1>3, FS_AddElement, FS_CardinalityType
  <2>2. Cardinality(present) = Cardinality(stored) \/ Cardinality(present) = Cardinality(stored) + 1
    BY <1>2, <1>3, FS_AddElement
  <2> QED  BY <2>1, <2>2
<1>5. {j \in CacheKeys : data'[j] # None} = present \ {out}
  BY <1>1
<1>6. IsFiniteSet(present \ {out}) /\ Cardinality(present \ {out}) \in Nat
      /\ Cardinality(present \ {out}) = IF out \in present THEN Cardinality(present) - 1 ELSE Cardinality(present)
  BY <1>4, FS_RemoveElement, FS_CardinalityType
<1>7. MaxSize > 0 => Cardinality(present \ {out}) <= MaxSize
  <2>1. CASE MaxSize > 0 /\ Cardinality(present) > MaxSize
    BY <1>1, <1>2, <1>4, <1>6, <2>1, CacheAssumption
  <2>2. CASE MaxSize > 0 /\ ~ (Cardinality(present) > MaxSize)
    BY <1>4, <1>6, <2>2, CacheAssumption
  <2> QED  BY <2>1, <2>2
<1>8. data' \in [CacheKeys -> Entries \cup {None}] /\ lost' \in [CacheKeys -> Nat]
  BY <1>1, <1>2 DEF Entries
<1>9. \A j \in CacheKeys : \/ lost'[j] = lost[j] /\ (Usable(j)' \/ (j # k /\ ~Usable(j)))
                           \/ lost'[j] = lost[j] + 1
  BY <1>1, <1>2, CacheAssumption DEF Usable, Entries
<1> QED  BY <1>5, <1>6, <1>7, <1>8, <1>9 DEF EntriesFinite

LEMMA DropKeeps ==
    ASSUME CacheInv, NEW ks, Drop(ks)
    PROVE  /\ data' \in [CacheKeys -> Entries \cup {None}] /\ lost' \in [CacheKeys -> Nat]
           /\ EntriesFinite'
           /\ MaxSize > 0 => Cardinality({j \in CacheKeys : data'[j] # None}) <= MaxSize
           /\ \A j \in CacheKeys : \/ lost'[j] = lost[j] /\ (Usable(j) => Usable(j)')
                                   \/ lost'[j] = lost[j] + 1
           /\ \A j \in CacheKeys \cap ks : ~Usable(j)' /\ (Usable(j) => lost'[j] = lost[j] + 1)
<1> DEFINE stored == {j \in CacheKeys : data[j] # None}
           after == {j \in CacheKeys : data'[j] # None}
<1>1. data \in [CacheKeys -> Entries \cup {None}] /\ lost \in [CacheKeys -> Nat] /\ IsFiniteSet(stored)
      /\ (MaxSize > 0 => Cardinality(stored) <= MaxSize)
  BY DEF CacheInv, CacheTypeOK, EntriesFinite
<1>2. after \subseteq stored
  BY <1>1 DEF Drop
<1>3. IsFiniteSet(after) /\ Cardinality(after) <= Cardinality(stored)
      /\ Cardinality(after) \in Nat /\ Cardinality(stored) \in Nat
  <2> HIDE DEF stored, after
  <2> QED  BY <1>1, <1>2, FS_Subset, FS_CardinalityType
<1>4. MaxSize > 0 => Cardinality(after) <= MaxSize
  BY <1>1, <1>3, CacheAssumption
<1>5. data' \in [CacheKeys -> Entries \cup {None}] /\ lost' \in [CacheKeys -> Nat]
  BY <1>1 DEF Drop
<1>6. /\ \A j \in CacheKeys : \/ lost'[j] = lost[j] /\ (Usable(j) => Usable(j)')
                              \/ lost'[j] = lost[j] + 1
      /\ \A j \in CacheKeys \cap ks : ~Usable(j)' /\ (Usable(j) => lost'[j] = lost[j] + 1)
  BY <1>1, CacheAssumption DEF Drop, Usable, Entries
<1> QED  BY <1>3, <1>4, <1>5, <1>6 DEF EntriesFinite

\* A change of entries alone, while callers move at places other than "fetch" and "store".
LEMMA ExplainedKept ==
    ASSUME CacheInv, UNCHANGED <<fetched, failed>>, lost' \in [CacheKeys -> Nat],
           \A j \in CacheKeys : \/ lost'[j] = lost[j] /\ (Usable(j) => Usable(j)')
                                \/ lost'[j] = lost[j] + 1,
           \A j \in CacheKeys : Leads(j, "fetch")' = Leads(j, "fetch") /\ Leads(j, "store")' = Leads(j, "store")
    PROVE  FetchesExplained'
<1> SUFFICES ASSUME NEW j \in CacheKeys
             PROVE  fetched'[j] <= failed'[j] + lost'[j] + Ahead(j)'
  BY DEF FetchesExplained
<1>1. fetched[j] <= failed[j] + lost[j] + Ahead(j)
  BY DEF CacheInv, FetchesExplained
<1>2. lost[j] \in Nat /\ failed[j] \in Nat /\ fetched[j] \in Nat /\ lost'[j] \in Nat
      /\ Ahead(j) \in {0, 1} /\ Ahead(j)' \in {0, 1}
  BY DEF CacheInv, CacheTypeOK, Ahead
<1>3. lost'[j] = lost[j] + 1 \/ (lost'[j] = lost[j] /\ Ahead(j) <= Ahead(j)')
  BY DEF Ahead
<1> QED  BY <1>1, <1>2, <1>3

\* Where one caller moves, the others lead as before.
LEMMA LeadsMoves ==
    ASSUME CacheInv, NEW p \in Callers, NEW label, CallerAt(p, label), wants' = wants,
           label \in {"fetch", "store", "finish", "panicked", "remove", "returned", "purge", "purgeAgain",
                      "do", "join", "lookAgain"}
    PROVE  /\ \A j \in CacheKeys, l \in {"fetch", "store"} :
                j # wants[p] => Leads(j, l)' = Leads(j, l)
           /\ caller[p] \in Leading => \A l \in {"fetch", "store"} :
                (Leads(wants[p], l) <=> caller[p] = l) /\ (Leads(wants[p], l)' <=> label = l)
           /\ caller[p] \notin {"fetch", "store"} /\ label \notin {"fetch", "store"} =>
                \A j \in CacheKeys, l \in {"fetch", "store"} : Leads(j, l)' = Leads(j, l)
<1>1. caller' = [caller EXCEPT ![p] = label] /\ caller'[p] = label /\ \A q \in Callers : q # p => caller'[q] = caller[q]
  BY DEF CallerAt, CacheInv, CacheTypeOK
<1>2. \A j \in CacheKeys, l \in {"fetch", "store"} : j # wants[p] => (Leads(j, l)' <=> Leads(j, l))
  BY <1>1 DEF Leads
<1>3. ASSUME caller[p] \in Leading, NEW l \in {"fetch", "store"}
      PROVE  (Leads(wants[p], l) <=> caller[p] = l) /\ (Leads(wants[p], l)' <=> label = l)
  <2>1. l \in Leading /\ CacheTypeOK
    BY DEF Leading, CacheInv
  <2>2. \A q \in Callers : caller[q] = l /\ wants[q] = wants[p] => q = p
    BY <1>3, <2>1, OneLeader
  <2> QED  BY <1>1, <2>2 DEF Leads
<1>4. ASSUME caller[p] \notin {"fetch", "store"}, label \notin {"fetch", "store"},
             NEW j \in CacheKeys, NEW l \in {"fetch", "store"}
      PROVE  Leads(j, l)' <=> Leads(j, l)
  BY <1>1, <1>4 DEF Leads
<1> QED  BY <1>2, <1>3, <1>4 DEF Leads

LEMMA CacheInvInit ==
    ASSUME CacheInit
    PROVE  CacheInv
<1> USE DEF CacheInit
<1>1. {k \in CacheKeys : data[k] # None} = {}
  OBVIOUS
<1>2. IsFiniteSet({}) /\ Cardinality({}) = 0
  BY FS_EmptySet
<1>3. CacheTypeOK
  BY <1>1, <1>2, CacheAssumption DEF CacheTypeOK, Leading
<1>4. \A k \in CacheKeys : Ahead(k) = 0
  BY CacheAssumption DEF Ahead, Leads, Usable, Entries
<1> QED  BY <1>1, <1>2, <1>3, <1>4 DEF CacheInv, EntriesFinite, FetchesExplained

LEMMA CacheTypeNext ==
    ASSUME CacheInv, CacheNext
    PROVE  CacheTypeOK' /\ EntriesFinite'
<1> DEFINE Goal == CacheTypeOK' /\ EntriesFinite'
<1>0. CacheTypeOK /\ EntriesFinite
  BY DEF CacheInv
<1>1. ASSUME NEW k \in CacheKeys, NEW entry \in {"immortal", "mortal"}, OwnerSets(k, entry)
      PROVE  Goal
  BY <1>0, <1>1, StoreKeeps DEF OwnerSets, others, CacheTypeOK
<1>2. ASSUME NEW ks, Drop(ks), UNCHANGED others
      PROVE  Goal
  BY <1>0, <1>2, DropKeeps DEF others, CacheTypeOK
<1>3. ASSUME NEW k \in CacheKeys, Dies(k)
      PROVE  Goal
  <2>1. data' \in [CacheKeys -> Entries \cup {None}] /\ lost' \in [CacheKeys -> Nat]
    BY <1>0, <1>3 DEF Dies, CacheTypeOK, Entries
  <2>2. {j \in CacheKeys : data'[j] # None} = {j \in CacheKeys : data[j] # None}
    BY <1>0, <1>3, CacheAssumption DEF Dies, CacheTypeOK, Entries
  <2>3. UNCHANGED others
    BY <1>3 DEF Dies
  <2> QED  BY <1>0, <2>1, <2>2, <2>3 DEF others, CacheTypeOK, EntriesFinite
<1>4. ASSUME NEW p \in Callers, Lookup(p)
      PROVE  Goal
  <2>1. UNCHANGED <<data, inflight, finished, wants, joined, fetched, failed, lost>>
    BY <1>4 DEF Lookup
  <2>2. caller' \in [Callers -> Leading \cup {"idle", "purge", "do", "join", "returned"}]
        /\ \A q \in Callers : caller'[q] \in Leading => caller[q] \in Leading
    BY <1>0, <1>4 DEF Lookup, CallerAt, CacheTypeOK, Leading
  <2> QED  BY <1>0, <2>1, <2>2 DEF CacheTypeOK, EntriesFinite
<1>5. ASSUME NEW p \in Callers, Purge(p)
      PROVE  Goal
  <2>1. UNCHANGED <<inflight, finished, wants, joined, fetched, failed>> /\ Drop({wants[p]})
    BY <1>5 DEF Purge
  <2>2. caller' \in [Callers -> Leading \cup {"idle", "purge", "do", "join", "returned"}]
        /\ \A q \in Callers : caller'[q] \in Leading => caller[q] \in Leading
    BY <1>0, <1>5 DEF Purge, CallerAt, CacheTypeOK, Leading
  <2> QED  BY <1>0, <2>1, <2>2, DropKeeps DEF CacheTypeOK
<1>6. ASSUME NEW p \in Callers, Do(p)
      PROVE  Goal
  <2>1. UNCHANGED <<data, finished, wants, fetched, failed, lost>> /\ caller[p] = "do"
    BY <1>6 DEF Do
  <2>2. CASE inflight[wants[p]] # None
    BY <1>0, <1>6, <2>1, <2>2 DEF Do, CallerAt, CacheTypeOK, EntriesFinite, Leading
  <2>3. CASE inflight[wants[p]] = None
    <3>1. /\ caller' = [caller EXCEPT ![p] = "lookAgain"] /\ UNCHANGED joined
          /\ inflight' = [inflight EXCEPT ![wants[p]] = p]
      BY <1>6, <2>3 DEF Do, CallerAt
    <3>2. \A q \in Callers : caller[q] \in Leading => wants[q] # wants[p]
      BY <1>0, <2>3, CacheAssumption DEF CacheTypeOK
    <3>3. \A q \in Callers : caller'[q] \in Leading => inflight'[wants[q]] = q
      BY <1>0, <3>1, <3>2 DEF CacheTypeOK
    <3>4. /\ caller' \in [Callers -> Leading \cup {"idle", "purge", "do", "join", "returned"}]
          /\ inflight' \in [CacheKeys -> Callers \cup {None}]
      BY <1>0, <3>1 DEF CacheTypeOK, Leading
    <3> QED  BY <1>0, <2>1, <3>1, <3>3, <3>4 DEF CacheTypeOK, EntriesFinite
  <2> QED  BY <2>2, <2>3
<1>7. ASSUME NEW p \in Callers, Join(p)
      PROVE  Goal
  BY <1>0, <1>7 DEF Join, CallerAt, CacheTypeOK, EntriesFinite, Leading
<1>8. ASSUME NEW p \in Callers, LookAgain(p)
      PROVE  Goal
  <2>1. UNCHANGED <<data, inflight, finished, wants, joined, fetched, failed, lost>>
    BY <1>8 DEF LookAgain
  <2>2. caller' \in [Callers -> Leading \cup {"idle", "purge", "do", "join", "returned"}]
        /\ \A q \in Callers : caller'[q] \in Leading => caller[q] \in Leading
    BY <1>0, <1>8 DEF LookAgain, CallerAt, CacheTypeOK, Leading
  <2> QED  BY <1>0, <2>1, <2>2 DEF CacheTypeOK, EntriesFinite
<1>9. ASSUME NEW p \in Callers, Fetch(p)
      PROVE  Goal
  <2>1. UNCHANGED <<data, inflight, finished, wants, joined, lost>>
    BY <1>9 DEF Fetch
  <2>2. caller' \in [Callers -> Leading \cup {"idle", "purge", "do", "join", "returned"}]
        /\ \A q \in Callers : caller'[q] \in Leading => caller[q] \in Leading
    BY <1>0, <1>9 DEF Fetch, CallerAt, CacheTypeOK, Leading
  <2>3. fetched' \in [CacheKeys -> Nat] /\ failed' \in [CacheKeys -> Nat]
    BY <1>0, <1>9 DEF Fetch, CacheTypeOK
  <2> QED  BY <1>0, <2>1, <2>2, <2>3 DEF CacheTypeOK, EntriesFinite
<1>10. ASSUME NEW p \in Callers, StoreFetched(p)
       PROVE  Goal
  <2>1. UNCHANGED <<inflight, finished, wants, joined, fetched, failed>> /\ Store(wants[p], "immortal")
        /\ wants[p] \in CacheKeys
    BY <1>0, <1>10 DEF StoreFetched, CacheTypeOK
  <2>2. caller' \in [Callers -> Leading \cup {"idle", "purge", "do", "join", "returned"}]
        /\ \A q \in Callers : caller'[q] \in Leading => caller[q] \in Leading
    BY <1>0, <1>10 DEF StoreFetched, CallerAt, CacheTypeOK, Leading
  <2> QED  BY <1>0, <2>1, <2>2, StoreKeeps DEF CacheTypeOK
<1>11. ASSUME NEW p \in Callers, Finish(p)
       PROVE  Goal
  BY <1>0, <1>11 DEF Finish, CallerAt, CacheTypeOK, EntriesFinite, Leading
<1>12. ASSUME NEW p \in Callers, RemoveCall(p)
       PROVE  Goal
  <2>1. /\ UNCHANGED <<data, finished, wants, joined, fetched, failed, lost>> /\ caller[p] = "remove"
        /\ inflight' = [inflight EXCEPT ![wants[p]] = None] /\ caller' = [caller EXCEPT ![p] = "returned"]
    BY <1>12 DEF RemoveCall, CallerAt
  <2>2. \A q \in Callers : caller'[q] \in Leading => caller[q] \in Leading /\ wants[q] # wants[p]
    BY <1>0, <2>1, OneLeader DEF CacheTypeOK, Leading
  <2>3. /\ caller' \in [Callers -> Leading \cup {"idle", "purge", "do", "join", "returned"}]
        /\ inflight' \in [CacheKeys -> Callers \cup {None}]
    BY <1>0, <2>1 DEF CacheTypeOK
  <2> QED  BY <1>0, <2>1, <2>2, <2>3 DEF CacheTypeOK, EntriesFinite
<1> QED  BY <1>1, <1>2, <1>3, <1>4, <1>5, <1>6, <1>7, <1>8, <1>9, <1>10, <1>11, <1>12
         DEF CacheNext, CallerStep, Invalidate, RemoveExpired

LEMMA ExplainedNext ==
    ASSUME CacheInv, CacheNext
    PROVE  FetchesExplained'
<1>0. CacheTypeOK /\ FetchesExplained
  BY DEF CacheInv
<1>a. \A p \in Callers : wants[p] \in CacheKeys
  BY <1>0 DEF CacheTypeOK
<1>1. ASSUME NEW k \in CacheKeys, NEW entry \in {"immortal", "mortal"}, OwnerSets(k, entry)
      PROVE  FetchesExplained'
  <2>1. Store(k, entry) /\ UNCHANGED others
    BY <1>1 DEF OwnerSets
  <2> QED  BY <2>1, StoreKeeps, ExplainedKept DEF others, Leads
<1>2. ASSUME NEW ks, Drop(ks), UNCHANGED others
      PROVE  FetchesExplained'
  BY <1>2, DropKeeps, ExplainedKept DEF others, Leads
<1>3. ASSUME NEW k \in CacheKeys, Dies(k)
      PROVE  FetchesExplained'
  <2>1. UNCHANGED others /\ lost' = [lost EXCEPT ![k] = lost[k] + 1] /\ data' = [data EXCEPT ![k] = "dead"]
    BY <1>3 DEF Dies
  <2>2. lost' \in [CacheKeys -> Nat] /\ \A j \in CacheKeys : \/ lost'[j] = lost[j] /\ (Usable(j) => Usable(j)')
                                                             \/ lost'[j] = lost[j] + 1
    BY <1>0, <2>1 DEF CacheTypeOK, Usable
  <2> QED  BY <2>1, <2>2, ExplainedKept DEF others, Leads
\* A caller moves at other places.
<1>4. ASSUME NEW p \in Callers, NEW label, CallerAt(p, label), wants' = wants,
             caller[p] \notin {"fetch", "store"},
             label \in {"finish", "panicked", "remove", "returned", "purge", "purgeAgain", "do", "join", "lookAgain"},
             UNCHANGED <<fetched, failed>>,
             UNCHANGED <<data, lost>> \/ Drop({wants[p]})
      PROVE  FetchesExplained'
  <2>1. \A j \in CacheKeys : Leads(j, "fetch")' = Leads(j, "fetch") /\ Leads(j, "store")' = Leads(j, "store")
    BY <1>4, LeadsMoves
  <2>2. lost' \in [CacheKeys -> Nat] /\ \A j \in CacheKeys : \/ lost'[j] = lost[j] /\ (Usable(j) => Usable(j)')
                                                             \/ lost'[j] = lost[j] + 1
    <3>1. CASE UNCHANGED <<data, lost>>
      BY <1>0, <3>1 DEF CacheTypeOK, Usable
    <3>2. CASE Drop({wants[p]})
      BY <3>2, DropKeeps
    <3> QED  BY <1>4, <3>1, <3>2
  <2> QED  BY <1>4, <2>1, <2>2, ExplainedKept
\* A leader is to fetch, has fetched, or has stored.
<1>5. ASSUME NEW p \in Callers, caller[p] \in Leading, NEW label, CallerAt(p, label), wants' = wants,
             label \in {"fetch", "store", "finish", "panicked"},
             UNCHANGED <<fetched, failed>>,
             lost' \in [CacheKeys -> Nat],
             \A j \in CacheKeys : j # wants[p] =>
               \/ lost'[j] = lost[j] /\ (Usable(j) => Usable(j)')
               \/ lost'[j] = lost[j] + 1,
             fetched[wants[p]] <= failed[wants[p]] + lost'[wants[p]] + Ahead(wants[p])'
      PROVE  FetchesExplained'
  <2> SUFFICES ASSUME NEW j \in CacheKeys, j # wants[p]
               PROVE  fetched'[j] <= failed'[j] + lost'[j] + Ahead(j)'
    BY <1>5 DEF FetchesExplained
  <2>1. Leads(j, "fetch")' = Leads(j, "fetch") /\ Leads(j, "store")' = Leads(j, "store")
    BY <1>5, LeadsMoves
  <2>2. fetched[j] <= failed[j] + lost[j] + Ahead(j)
    BY <1>0 DEF FetchesExplained
  <2>3. lost[j] \in Nat /\ failed[j] \in Nat /\ fetched[j] \in Nat /\ lost'[j] \in Nat
        /\ Ahead(j) \in {0, 1} /\ Ahead(j)' \in {0, 1}
    BY <1>0, <1>5 DEF CacheTypeOK, Ahead
  <2>4. lost'[j] = lost[j] + 1 \/ (lost'[j] = lost[j] /\ Ahead(j) <= Ahead(j)')
    BY <1>5, <2>1 DEF Ahead
  <2> QED  BY <1>5, <2>2, <2>3, <2>4
<1>6. ASSUME NEW p \in Callers, Lookup(p)
      PROVE  FetchesExplained'
  BY <1>4, <1>6 DEF Lookup
<1>7. ASSUME NEW p \in Callers, Purge(p)
      PROVE  FetchesExplained'
  <2> DEFINE k == wants[p]
  <2>1. CASE caller[p] = "purge"
    BY <1>4, <1>7, <2>1 DEF Purge
  <2>2. CASE caller[p] = "purgeAgain"
    <3>1. CallerAt(p, "fetch") /\ UNCHANGED <<inflight, finished, wants, joined, fetched, failed>> /\ Drop({k})
      BY <1>7, <2>2 DEF Purge
    <3>2. ~Leads(k, "fetch") /\ ~Leads(k, "store")
      BY <2>2, <3>1, LeadsMoves DEF Leading
    <3>3. fetched[k] <= failed[k] + lost[k] + Ahead(k) /\ Ahead(k) = IF Usable(k) THEN 1 ELSE 0
      BY <1>0, <1>a, <3>2 DEF FetchesExplained, Ahead
    <3>4. lost'[k] = lost[k] + 1 \/ (lost'[k] = lost[k] /\ ~Usable(k))
      BY <1>a, <3>1, DropKeeps
    <3>5. Ahead(k)' = 0 \/ Ahead(k)' = 1
      BY DEF Ahead
    <3>6. lost[k] \in Nat /\ failed[k] \in Nat /\ fetched[k] \in Nat
      BY <1>0, <1>a DEF CacheTypeOK
    <3>7. fetched[k] <= failed[k] + lost'[k] + Ahead(k)'
      BY <3>3, <3>4, <3>5, <3>6
    <3>8. caller[p] \in Leading /\ lost' \in [CacheKeys -> Nat]
          /\ \A j \in CacheKeys : \/ lost'[j] = lost[j] /\ (Usable(j) => Usable(j)')
                                  \/ lost'[j] = lost[j] + 1
      BY <2>2, <3>1, DropKeeps DEF Leading
    <3> QED  BY <1>5, <3>1, <3>7, <3>8
  <2> QED  BY <1>7, <2>1, <2>2 DEF Purge
<1>8. ASSUME NEW p \in Callers, Do(p)
      PROVE  FetchesExplained'
  BY <1>4, <1>8 DEF Do
<1>9. ASSUME NEW p \in Callers, Join(p)
      PROVE  FetchesExplained'
  BY <1>4, <1>9 DEF Join
<1>10. ASSUME NEW p \in Callers, LookAgain(p)
       PROVE  FetchesExplained'
  <2> DEFINE k == wants[p]
  <2>0. UNCHANGED <<data, lost, wants, fetched, failed>> /\ caller[p] = "lookAgain" /\ caller[p] \in Leading
    BY <1>10 DEF LookAgain, Leading
  <2>1. CASE Usable(k) \/ data[k] = "dead"
    BY <1>4, <1>10, <2>0, <2>1 DEF LookAgain
  <2>2. CASE ~Usable(k) /\ data[k] # "dead"
    <3>1. CallerAt(p, "fetch")
      BY <1>10, <2>2 DEF LookAgain
    <3>2. ~Leads(k, "fetch") /\ ~Leads(k, "store")
      BY <2>0, <3>1, LeadsMoves
    <3>3. fetched[k] <= failed[k] + lost[k] + Ahead(k) /\ Ahead(k) = 0
      BY <1>0, <1>a, <2>2, <3>2 DEF FetchesExplained, Ahead
    <3>4. Ahead(k)' = 0 \/ Ahead(k)' = 1
      BY DEF Ahead
    <3>5. lost[k] \in Nat /\ failed[k] \in Nat /\ fetched[k] \in Nat /\ lost' \in [CacheKeys -> Nat]
      BY <1>0, <1>a, <2>0 DEF CacheTypeOK
    <3>6. fetched[k] <= failed[k] + lost'[k] + Ahead(k)'
      BY <2>0, <3>3, <3>4, <3>5
    <3>7. \A j \in CacheKeys : lost'[j] = lost[j] /\ (Usable(j) => Usable(j)')
      BY <2>0 DEF Usable
    <3> QED  BY <1>5, <2>0, <3>1, <3>5, <3>6, <3>7
  <2> QED  BY <2>1, <2>2
<1>11. ASSUME NEW p \in Callers, Fetch(p)
       PROVE  FetchesExplained'
  <2> DEFINE k == wants[p]
  <2>0. /\ UNCHANGED <<data, lost, wants>> /\ caller[p] = "fetch" /\ caller[p] \in Leading
        /\ fetched' = [fetched EXCEPT ![k] = fetched[k] + 1]
        /\ \/ CallerAt(p, "store") /\ failed' = failed
           \/ /\ CallerAt(p, "finish") \/ CallerAt(p, "panicked")
              /\ failed' = [failed EXCEPT ![k] = failed[k] + 1]
    BY <1>11 DEF Fetch, Leading
  <2> SUFFICES ASSUME NEW j \in CacheKeys
               PROVE  fetched'[j] <= failed'[j] + lost'[j] + Ahead(j)'
    BY DEF FetchesExplained
  <2>1. /\ lost[j] \in Nat /\ failed[j] \in Nat /\ fetched[j] \in Nat
        /\ Ahead(j)' \in {0, 1} /\ fetched[j] <= failed[j] + lost[j] + Ahead(j)
        /\ DOMAIN fetched = CacheKeys /\ DOMAIN failed = CacheKeys
    BY <1>0 DEF CacheTypeOK, Ahead, FetchesExplained
  <2>2. CASE j = k
    <3>1. Leads(k, "fetch") /\ Ahead(k) = 0
      BY <2>0, LeadsMoves DEF Ahead
    <3>2. CASE CallerAt(p, "store") /\ failed' = failed
      <4>1. ~Leads(k, "fetch")' /\ Leads(k, "store")'
        BY <2>0, <3>2, LeadsMoves
      <4>2. Ahead(k)' = 1
        BY <4>1 DEF Ahead
      <4> QED  BY <2>0, <2>1, <2>2, <3>1, <3>2, <4>2
    <3>3. CASE failed' = [failed EXCEPT ![k] = failed[k] + 1]
      BY <2>0, <2>1, <2>2, <3>1, <3>3
    <3> QED  BY <2>0, <3>2, <3>3
  <2>3. CASE j # k
    <3>1. Leads(j, "fetch")' = Leads(j, "fetch") /\ Leads(j, "store")' = Leads(j, "store")
      BY <2>0, <2>3, LeadsMoves
    <3>2. Ahead(j)' = Ahead(j)
      BY <2>0, <3>1 DEF Ahead, Usable
    <3> QED  BY <2>0, <2>1, <2>3, <3>2
  <2> QED  BY <2>2, <2>3
<1>12. ASSUME NEW p \in Callers, StoreFetched(p)
       PROVE  FetchesExplained'
  <2> DEFINE k == wants[p]
  <2>0. /\ UNCHANGED <<wants, fetched, failed>> /\ caller[p] = "store" /\ caller[p] \in Leading
        /\ CallerAt(p, "finish") /\ Store(k, "immortal")
    BY <1>12 DEF StoreFetched, Leading
  <2>1. /\ lost' \in [CacheKeys -> Nat]
        /\ \A j \in CacheKeys : \/ lost'[j] = lost[j] /\ (Usable(j)' \/ (j # k /\ ~Usable(j)))
                                \/ lost'[j] = lost[j] + 1
    BY <1>a, <2>0, StoreKeeps
  <2>2. ~Leads(k, "fetch") /\ Leads(k, "store") /\ ~Leads(k, "fetch")' /\ ~Leads(k, "store")'
    BY <2>0, LeadsMoves
  <2>3. fetched[k] <= failed[k] + lost[k] + 1
    BY <1>0, <1>a, <2>2 DEF FetchesExplained, Ahead
  <2>4. Ahead(k)' = IF Usable(k)' THEN 1 ELSE 0
    BY <2>2 DEF Ahead
  <2>5. lost[k] \in Nat /\ failed[k] \in Nat /\ fetched[k] \in Nat
    BY <1>0, <1>a DEF CacheTypeOK
  <2>6. fetched[k] <= failed[k] + lost'[k] + Ahead(k)'
    <3>1. \/ lost'[k] = lost[k] /\ Usable(k)'
          \/ lost'[k] = lost[k] + 1
      BY <1>a, <2>0, <2>1 DEF Usable
    <3>2. CASE lost'[k] = lost[k] /\ Usable(k)'
      <4>1. Ahead(k)' = 1
        BY <2>4, <3>2
      <4> QED  BY <2>3, <2>5, <3>2, <4>1
    <3>3. CASE lost'[k] = lost[k] + 1
      <4>1. Ahead(k)' \in {0, 1}
        BY <2>4
      <4> QED  BY <2>3, <2>5, <3>3, <4>1
    <3> QED  BY <3>1, <3>2, <3>3
  <2> QED  BY <1>5, <2>0, <2>1, <2>6
<1>13. ASSUME NEW p \in Callers, Finish(p)
       PROVE  FetchesExplained'
  BY <1>4, <1>13 DEF Finish
<1>14. ASSUME NEW p \in Callers, RemoveCall(p)
       PROVE  FetchesExplained'
  BY <1>4, <1>14 DEF RemoveCall
<1> QED  BY <1>1, <1>2, <1>3, <1>6, <1>7, <1>8, <1>9, <1>10, <1>11, <1>12, <1>13, <1>14
         DEF CacheNext, CallerStep, Invalidate, RemoveExpired

LEMMA CacheInvariant == CacheSpec => []CacheInv
<1>1. CacheInit => CacheInv
  BY CacheInvInit
<1>2. CacheInv /\ [CacheNext]_cacheVars => CacheInv'
  <2>1. CacheInv /\ CacheNext => CacheInv'
    BY CacheTypeNext, ExplainedNext DEF CacheInv
  <2>2. CacheInv /\ UNCHANGED cacheVars => CacheInv'
    BY DEF cacheVars, CacheInv, CacheTypeOK, EntriesFinite, FetchesExplained, Ahead, Leads, Usable
  <2> QED  BY <2>1, <2>2
<1> QED  BY <1>1, <1>2, PTL DEF CacheSpec

\* The types of the cache, that no cache outgrows its maximal size, and that a caller
\* which leads a call is the one the map of calls has for the key (cache.go:96-120,
\* singleflight.go:34-69).
THEOREM CacheTypes == CacheSpec => []CacheTypeOK
<1>1. CacheInv => CacheTypeOK
  BY DEF CacheInv
<1> QED  BY <1>1, CacheInvariant, PTL

\* The source is asked no more often than failures and losses explain, however many
\* callers, keys and owners there are (singleflight.go:12-14, 93-119).
THEOREM SourceIsSpared == CacheSpec => []NoStampede
<1>1. CacheInv => NoStampede
  <2> SUFFICES ASSUME CacheInv, NEW k \in CacheKeys
               PROVE  fetched[k] <= 1 + failed[k] + lost[k]
    BY DEF NoStampede
  <2>1. fetched[k] <= failed[k] + lost[k] + Ahead(k) /\ Ahead(k) \in {0, 1}
        /\ fetched[k] \in Nat /\ failed[k] \in Nat /\ lost[k] \in Nat
    BY DEF CacheInv, CacheTypeOK, FetchesExplained, Ahead
  <2> QED  BY <2>1
<1> QED  BY <1>1, CacheInvariant, PTL

-----------------------------------------------------------------------------
(* Pool.  Nobody works with a connection that is idle, or that another works with, *)
(* and none that is idle or in use is closed: closing one of them makes the number *)
(* of open connections smaller, as its token requires.                             *)
IdleApart == \A i, j \in 1..Len(idle) : idle[i] = idle[j] => i = j
IdleOpen == \A i \in 1..Len(idle) : idle[i] \in open
HandsApart == \A p \in Clients : hand[p] # NoConn =>
    /\ hand[p] \in open
    /\ \A i \in 1..Len(idle) : idle[i] # hand[p]
    /\ \A q \in Clients : hand[q] = hand[p] => q = p

PoolFinite == IsFiniteSet(open) /\ IsFiniteSet(SlotHolders)
PoolInv == PoolTypeOK /\ PoolFinite /\ IdleApart /\ IdleOpen /\ HandsApart /\ SlotsCover

\* The elements of what is left of a sequence, and of a longer one.
LEMMA TailParts ==
    ASSUME NEW S, NEW s \in Seq(S), s # << >>
    PROVE  /\ Head(s) = s[1] /\ Head(s) \in S /\ Tail(s) \in Seq(S)
           /\ Len(s) \in Nat \ {0} /\ Len(Tail(s)) = Len(s) - 1
           /\ \A i \in 1..Len(Tail(s)) : Tail(s)[i] = s[i + 1]
  OBVIOUS

LEMMA AppendParts ==
    ASSUME NEW S, NEW s \in Seq(S), NEW x \in S
    PROVE  /\ Append(s, x) \in Seq(S) /\ Len(s) \in Nat /\ Len(Append(s, x)) = Len(s) + 1
           /\ \A i \in 1..Len(s) : Append(s, x)[i] = s[i]
           /\ Append(s, x)[Len(s) + 1] = x
  OBVIOUS

\* Who holds a token without a connection, after a step of p.
LEMMA HoldersMove ==
    ASSUME PoolTypeOK, IsFiniteSet(SlotHolders), NEW p \in Procs, NEW label, Goto(p, label)
    PROVE  /\ label \in {"create", "free"} => SlotHolders' = SlotHolders \cup {p}
           /\ label \notin {"create", "free"} => SlotHolders' = SlotHolders \ {p}
           /\ IsFiniteSet(SlotHolders') /\ Cardinality(SlotHolders) \in Nat
           /\ Cardinality(SlotHolders') \in Nat
           /\ p \in SlotHolders <=> pc[p] \in {"create", "free"}
           /\ label \in {"create", "free"} /\ pc[p] \notin {"create", "free"} =>
                Cardinality(SlotHolders') = Cardinality(SlotHolders) + 1
           /\ label \notin {"create", "free"} /\ pc[p] \in {"create", "free"} =>
                Cardinality(SlotHolders') = Cardinality(SlotHolders) - 1
           /\ label \notin {"create", "free"} /\ pc[p] \notin {"create", "free"} =>
                SlotHolders' = SlotHolders
<1>1. pc' = [pc EXCEPT ![p] = label] /\ DOMAIN pc = Procs
  BY DEF Goto, PoolTypeOK
<1>2. /\ label \in {"create", "free"} => SlotHolders' = SlotHolders \cup {p}
      /\ label \notin {"create", "free"} => SlotHolders' = SlotHolders \ {p}
      /\ p \in SlotHolders <=> pc[p] \in {"create", "free"}
  BY <1>1 DEF SlotHolders
<1>3. label \notin {"create", "free"} /\ pc[p] \notin {"create", "free"} => SlotHolders' = SlotHolders
  BY <1>2
<1>4. IsFiniteSet(SlotHolders \cup {p}) /\ IsFiniteSet(SlotHolders \ {p})
  BY FS_AddElement, FS_RemoveElement
<1>5. IsFiniteSet(SlotHolders')
  BY <1>2, <1>4
<1>6. Cardinality(SlotHolders) \in Nat /\ Cardinality(SlotHolders') \in Nat
  BY <1>5, FS_CardinalityType
<1>7. /\ p \notin SlotHolders => Cardinality(SlotHolders \cup {p}) = Cardinality(SlotHolders) + 1
      /\ p \in SlotHolders => Cardinality(SlotHolders \ {p}) = Cardinality(SlotHolders) - 1
  BY FS_AddElement, FS_RemoveElement
<1> QED  BY <1>2, <1>3, <1>5, <1>6, <1>7

\* How many connections are open when one is closed, or made.
LEMMA OpenMoves ==
    ASSUME IsFiniteSet(open), NEW c
    PROVE  /\ IsFiniteSet(open \ {c}) /\ IsFiniteSet(open \cup {c}) /\ Cardinality(open) \in Nat
           /\ c \in open => Cardinality(open \ {c}) = Cardinality(open) - 1
           /\ c \notin open => Cardinality(open \cup {c}) = Cardinality(open) + 1
  BY FS_AddElement, FS_RemoveElement, FS_CardinalityType

LEMMA PoolTypeNext == ASSUME PoolTypeOK, PoolNext PROVE PoolTypeOK'
<1> USE PoolAssumption DEF Procs, Goto, Hold, shared, Panic
<1>0. /\ closed \in BOOLEAN /\ chClosed \in BOOLEAN /\ crashed \in BOOLEAN
      /\ idle \in Seq(Conns) /\ open \subseteq Conns
      /\ sem \in 0..PoolSize
      /\ pc \in [Procs -> {"out", "tryIdle", "trySlot", "create", "wait", "free", "again", "use",
                           "put", "closeOut", "closeChannel", "closeDrain", "closeDone"}]
      /\ hand \in [Clients -> Conns \cup {NoConn}]
      /\ \A p \in Clients : hand[p] # NoConn <=> pc[p] \in {"use", "put"}
  BY DEF PoolTypeOK
<1>t. idle # << >> => Head(idle) \in Conns /\ Tail(idle) \in Seq(Conns)
  BY <1>0
<1>r. ASSUME NEW p \in Clients, Receive(p), pc[p] \in {"tryIdle", "wait"}
      PROVE  PoolTypeOK'
  BY <1>0, <1>t, <1>r DEF Receive, PoolTypeOK
<1>1. ASSUME NEW p \in Clients, AcquireCheck(p)  PROVE  PoolTypeOK'
  BY <1>0, <1>1 DEF AcquireCheck, PoolTypeOK
<1>2. ASSUME NEW p \in Clients, AcquireTryIdle(p)  PROVE  PoolTypeOK'
  <2>1. CASE Receive(p)
    BY <1>2, <1>r, <2>1 DEF AcquireTryIdle
  <2>2. CASE Goto(p, "trySlot") /\ UNCHANGED <<shared, hand>>
    BY <1>0, <1>2, <2>2 DEF AcquireTryIdle, PoolTypeOK
  <2> QED  BY <1>2, <2>1, <2>2 DEF AcquireTryIdle
<1>3. ASSUME NEW p \in Clients, AcquireTrySlot(p)  PROVE  PoolTypeOK'
  BY <1>0, <1>3 DEF AcquireTrySlot, HasSlot, PoolTypeOK
<1>4. ASSUME NEW p \in Clients, AcquireCreate(p)  PROVE  PoolTypeOK'
  BY <1>0, <1>4 DEF AcquireCreate, PoolTypeOK
<1>5. ASSUME NEW p \in Clients, AcquireFactoryFails(p)  PROVE  PoolTypeOK'
  BY <1>0, <1>5 DEF AcquireFactoryFails, FreeSlot, PoolTypeOK
<1>6. ASSUME NEW p \in Clients, AcquireWait(p)  PROVE  PoolTypeOK'
  BY <1>6, <1>r DEF AcquireWait
<1>7. ASSUME NEW p \in Clients, AcquireTimeout(p)  PROVE  PoolTypeOK'
  BY <1>0, <1>7 DEF AcquireTimeout, PoolTypeOK
<1>8. ASSUME NEW p \in Clients, AcquireRetry(p)  PROVE  PoolTypeOK'
  BY <1>0, <1>8 DEF AcquireRetry, FreeSlot, PoolTypeOK
<1>9. ASSUME NEW p \in Clients, AcquireAgain(p)  PROVE  PoolTypeOK'
  BY <1>0, <1>9 DEF AcquireAgain, PoolTypeOK
<1>10. ASSUME NEW p \in Clients, ReleaseCheck(p)  PROVE  PoolTypeOK'
  BY <1>0, <1>10 DEF ReleaseCheck, PoolTypeOK
<1>11. ASSUME NEW p \in Clients, ReleasePut(p)  PROVE  PoolTypeOK'
  <2>1. hand[p] \in Conns /\ Append(idle, hand[p]) \in Seq(Conns)
    BY <1>0, <1>11 DEF ReleasePut
  <2>2. idle' \in Seq(Conns) /\ open' \subseteq Conns
    BY <1>0, <1>11, <2>1 DEF ReleasePut
  <2> QED  BY <1>0, <1>11, <2>2 DEF ReleasePut, PoolTypeOK
<1>12. ASSUME NEW k \in Closers, CloseStep(k)  PROVE  PoolTypeOK'
  BY <1>0, <1>t, <1>12 DEF CloseStep, CloseMark, CloseChannel, CloseDrain, PoolTypeOK
<1>13. CASE UNCHANGED poolVars
  BY <1>13 DEF PoolTypeOK, poolVars
<1> QED  BY <1>1, <1>2, <1>3, <1>4, <1>5, <1>6, <1>7, <1>8, <1>9, <1>10, <1>11, <1>12, <1>13
         DEF PoolNext, AcquireStep, ReleaseStep

\* What a step does to the connections: a receive hands out the first that is idle or
\* closes it, a connection is made, the one in hand is closed or put back.
HandOut(p) == idle # << >> /\ idle' = Tail(idle) /\ hand' = [hand EXCEPT ![p] = Head(idle)] /\ open' = open
CloseIdle == idle # << >> /\ idle' = Tail(idle) /\ hand' = hand /\ open' = open \ {Head(idle)}
MakeOne(p) == \E c \in Conns :
    /\ c \notin open /\ (\A q \in Clients : hand[q] # c)
    /\ idle' = idle /\ hand' = [hand EXCEPT ![p] = c] /\ open' = open \cup {c}
CloseHeld(p) == idle' = idle /\ hand' = [hand EXCEPT ![p] = NoConn] /\ open' = open \ {hand[p]}
PutBack(p) == idle' = Append(idle, hand[p]) /\ hand' = [hand EXCEPT ![p] = NoConn] /\ open' = open
Apart == IdleApart /\ IdleOpen /\ HandsApart

LEMMA ApartStays == ASSUME Apart, UNCHANGED <<idle, hand, open>> PROVE Apart'
  BY DEF Apart, IdleApart, IdleOpen, HandsApart

LEMMA ApartKeptByClose == ASSUME PoolTypeOK, Apart, CloseIdle PROVE Apart'
<1>0. idle \in Seq(Conns)
  BY DEF PoolTypeOK
<1> QED  BY <1>0, TailParts DEF CloseIdle, Apart, IdleApart, IdleOpen, HandsApart

LEMMA ApartKept ==
    ASSUME PoolTypeOK, Apart, NEW p \in Clients,
           \/ HandOut(p) /\ hand[p] = NoConn
           \/ CloseIdle
           \/ MakeOne(p) /\ hand[p] = NoConn
           \/ CloseHeld(p) /\ hand[p] # NoConn
           \/ PutBack(p) /\ hand[p] # NoConn
    PROVE  Apart'
<1> USE PoolAssumption DEF Apart, IdleApart, IdleOpen, HandsApart
<1>0. idle \in Seq(Conns) /\ open \subseteq Conns /\ hand \in [Clients -> Conns \cup {NoConn}]
  BY DEF PoolTypeOK
<1>2. CASE HandOut(p) /\ hand[p] = NoConn
  BY <1>0, <1>2, TailParts DEF HandOut
<1>3. CASE CloseIdle
  BY <1>3, ApartKeptByClose
<1>4. CASE MakeOne(p) /\ hand[p] = NoConn
  BY <1>0, <1>4 DEF MakeOne
<1>5. CASE CloseHeld(p) /\ hand[p] # NoConn
  BY <1>0, <1>5 DEF CloseHeld
<1>6. CASE PutBack(p) /\ hand[p] # NoConn
  <2>1. /\ hand[p] \in Conns /\ Len(idle) \in Nat /\ Len(idle') = Len(idle) + 1
        /\ \A i \in 1..Len(idle) : idle'[i] = idle[i]
        /\ idle'[Len(idle) + 1] = hand[p]
    BY <1>0, <1>6, AppendParts DEF PutBack
  <2>2. IdleApart'
    BY <1>6, <2>1 DEF PutBack
  <2>3. IdleOpen'
    BY <1>6, <2>1 DEF PutBack
  <2>4. HandsApart'
    BY <1>0, <1>6, <2>1 DEF PutBack
  <2> QED  BY <2>2, <2>3, <2>4
<1> QED  BY <1>2, <1>3, <1>4, <1>5, <1>6

\* The tokens follow: how many there are, who holds one without a connection, and how
\* many connections are open, after each kind of step.
Tokens(p, change, label) == sem' = sem + change /\ Goto(p, label)
Holding == {"create", "free"}

LEMMA CoverKept ==
    ASSUME PoolTypeOK, PoolFinite, Apart, SlotsCover, NEW p \in Procs,
           \/ open' = open /\ sem' = sem /\ SlotHolders' = SlotHolders
           \/ open' = open /\ pc[p] \notin Holding /\ Tokens(p, 1, "create")
           \/ open' = open /\ pc[p] \in Holding /\ (\E label : label \notin Holding /\ Tokens(p, -1, label))
           \/ MakeOne(p) /\ pc[p] = "create" /\ Tokens(p, 0, "use")
           \/ CloseIdle /\ pc[p] \notin Holding /\ Tokens(p, 0, "free")
           \/ CloseIdle /\ sem' = sem /\ SlotHolders' = SlotHolders
           \/ p \in Clients /\ CloseHeld(p) /\ hand[p] # NoConn /\ sem' = sem
                            /\ SlotHolders' = SlotHolders
    PROVE  PoolFinite' /\ SlotsCover'
<1> DEFINE h == Cardinality(SlotHolders)  n == Cardinality(open)
<1>0. idle \in Seq(Conns) /\ sem \in Int /\ h \in Nat /\ n \in Nat /\ n + h <= sem
  BY PoolAssumption, FS_CardinalityType DEF PoolTypeOK, PoolFinite, SlotsCover
<1> DEFINE hn == Cardinality(SlotHolders')  nn == Cardinality(open')
<1>s. SUFFICES IsFiniteSet(open') /\ IsFiniteSet(SlotHolders') /\ nn + hn <= sem'
  BY DEF PoolFinite, SlotsCover
<1>c. ASSUME NEW change \in Int, NEW label, Tokens(p, change, label)
      PROVE  /\ IsFiniteSet(SlotHolders') /\ sem' = sem + change
             /\ label \in Holding /\ pc[p] \notin Holding => hn = h + 1
             /\ label \notin Holding /\ pc[p] \in Holding => hn = h - 1
  BY <1>c, HoldersMove DEF Tokens, PoolFinite, Holding
<1>i. CloseIdle => IsFiniteSet(open') /\ nn = n - 1
  <2> SUFFICES ASSUME CloseIdle PROVE IsFiniteSet(open') /\ nn = n - 1
    OBVIOUS
  <2>1. Head(idle) = idle[1] /\ Len(idle) \in Nat \ {0}
    BY <1>0, TailParts DEF CloseIdle
  <2>2. Head(idle) \in open
    BY <2>1 DEF Apart, IdleOpen
  <2> QED  BY <2>2, OpenMoves DEF CloseIdle, PoolFinite
<1> HIDE DEF h, n, hn, nn
<1>1. CASE open' = open /\ sem' = sem /\ SlotHolders' = SlotHolders
  BY <1>0, <1>1 DEF PoolFinite, h, n, hn, nn
<1>2. CASE open' = open /\ pc[p] \notin Holding /\ Tokens(p, 1, "create")
  <2>1. nn = n /\ IsFiniteSet(open')
    BY <1>2 DEF n, nn, PoolFinite
  <2>2. IsFiniteSet(SlotHolders') /\ sem' = sem + 1 /\ hn = h + 1
    BY <1>2, <1>c DEF Holding
  <2> QED  BY <1>0, <2>1, <2>2
<1>3. CASE open' = open /\ pc[p] \in Holding /\ (\E label : label \notin Holding /\ Tokens(p, -1, label))
  <2>1. nn = n /\ IsFiniteSet(open')
    BY <1>3 DEF n, nn, PoolFinite
  <2>2. IsFiniteSet(SlotHolders') /\ sem' = sem - 1 /\ hn = h - 1
    <3>1. PICK label : label \notin Holding /\ Tokens(p, -1, label)
      BY <1>3
    <3>2. sem' = sem + (-1) /\ IsFiniteSet(SlotHolders') /\ hn = h - 1
      BY <1>3, <1>c, <3>1
    <3> QED  BY <1>0, <3>2
  <2> QED  BY <1>0, <2>1, <2>2
<1>4. CASE MakeOne(p) /\ pc[p] = "create" /\ Tokens(p, 0, "use")
  <2>1. IsFiniteSet(open') /\ nn = n + 1
    <3>1. PICK c : c \notin open /\ open' = open \cup {c}
      BY <1>4 DEF MakeOne
    <3> QED  BY <3>1, OpenMoves DEF PoolFinite, n, nn
  <2>2. IsFiniteSet(SlotHolders') /\ sem' = sem + 0 /\ hn = h - 1
    BY <1>4, <1>c DEF Holding
  <2> QED  BY <1>0, <2>1, <2>2
<1>5. CASE CloseIdle /\ pc[p] \notin Holding /\ Tokens(p, 0, "free")
  <2>1. IsFiniteSet(SlotHolders') /\ sem' = sem + 0 /\ hn = h + 1
    BY <1>5, <1>c DEF Holding
  <2> QED  BY <1>0, <1>5, <1>i, <2>1
<1>6. CASE CloseIdle /\ sem' = sem /\ SlotHolders' = SlotHolders
  <2>1. hn = h
    BY <1>6 DEF h, hn
  <2> QED  BY <1>0, <1>6, <1>i, <2>1 DEF PoolFinite
<1>7. CASE p \in Clients /\ CloseHeld(p) /\ hand[p] # NoConn /\ sem' = sem /\ SlotHolders' = SlotHolders
  <2>1. hand[p] \in open
    BY <1>7 DEF Apart, HandsApart
  <2>2. IsFiniteSet(open') /\ nn = n - 1
    BY <1>7, <2>1, OpenMoves DEF CloseHeld, PoolFinite, n, nn
  <2>3. hn = h
    BY <1>7 DEF h, hn
  <2> QED  BY <1>0, <1>7, <2>2, <2>3 DEF PoolFinite
<1> QED  BY <1>1, <1>2, <1>3, <1>4, <1>5, <1>6, <1>7

LEMMA PoolInvNext == ASSUME PoolInv, PoolNext PROVE PoolInv'
<1> USE PoolAssumption DEF Procs
<1>0. /\ PoolTypeOK /\ PoolFinite /\ Apart /\ SlotsCover
      /\ DOMAIN pc = Procs /\ sem \in Int
      /\ \A p \in Clients : hand[p] # NoConn <=> pc[p] \in {"use", "put"}
  BY DEF PoolInv, Apart, PoolTypeOK
<1> DEFINE Kept == Apart' /\ PoolFinite' /\ SlotsCover'
<1>1. SUFFICES Kept
  BY <1>0, PoolTypeNext DEF PoolInv, Apart
\* A step that changes neither the connections nor the tokens, nor who holds one.
<1>q. ASSUME NEW p \in Procs, NEW label, pc[p] \notin Holding, label \notin Holding,
             Goto(p, label), UNCHANGED <<idle, hand, open, sem>>
      PROVE  Kept
  <2>1. SlotHolders' = SlotHolders
    BY <1>0, <1>q, HoldersMove DEF PoolFinite, Holding
  <2> QED  BY <1>0, <1>q, <2>1, ApartStays, CoverKept
<1>r. ASSUME NEW p \in Clients, Receive(p), pc[p] \in {"tryIdle", "wait"}
      PROVE  Kept
  <2>1. CASE idle = << >>
    BY <1>0, <1>r, <2>1, ApartStays, CoverKept DEF Receive, Panic, SlotHolders
  <2>2. CASE idle # << >> /\ hand' = [hand EXCEPT ![p] = Head(idle)] /\ Goto(p, "use") /\ open' = open
    <3>1. SlotHolders' = SlotHolders
      BY <1>0, <1>r, <2>2, HoldersMove DEF PoolFinite
    <3>2. HandOut(p) /\ hand[p] = NoConn /\ sem' = sem
      BY <1>0, <1>r, <2>2 DEF Receive, HandOut
    <3> QED  BY <1>0, <2>2, <3>1, <3>2, ApartKept, CoverKept
  <2>3. CASE idle # << >> /\ open' = open \ {Head(idle)} /\ Goto(p, "free") /\ hand' = hand
    <3>1. CloseIdle /\ pc[p] \notin Holding /\ Tokens(p, 0, "free")
      BY <1>0, <1>r, <2>3 DEF Receive, CloseIdle, Holding, Tokens
    <3> QED  BY <1>0, <3>1, ApartKept, CoverKept
  <2> QED  BY <1>r, <2>1, <2>2, <2>3 DEF Receive, Hold
<1>2. ASSUME NEW p \in Clients, AcquireCheck(p)  PROVE  Kept
  BY <1>2, <1>q DEF AcquireCheck, shared, Holding
<1>3. ASSUME NEW p \in Clients, AcquireTryIdle(p)  PROVE  Kept
  BY <1>3, <1>q, <1>r DEF AcquireTryIdle, shared, Holding
<1>4. ASSUME NEW p \in Clients, AcquireTrySlot(p)  PROVE  Kept
  <2>1. CASE sem' = sem + 1 /\ Goto(p, "create")
    <3>1. open' = open /\ pc[p] \notin Holding /\ Tokens(p, 1, "create")
      BY <1>4, <2>1 DEF AcquireTrySlot, Holding, Tokens
    <3> QED  BY <1>0, <1>4, <3>1, ApartStays, CoverKept DEF AcquireTrySlot
  <2>2. CASE sem' = sem /\ Goto(p, "wait")
    BY <1>4, <1>q, <2>2 DEF AcquireTrySlot, Holding
  <2> QED  BY <1>4, <2>1, <2>2 DEF AcquireTrySlot
<1>5. ASSUME NEW p \in Clients, AcquireCreate(p)  PROVE  Kept
  <2>1. MakeOne(p) /\ hand[p] = NoConn /\ pc[p] = "create" /\ Tokens(p, 0, "use")
    <3>1. MakeOne(p)
      BY <1>5 DEF AcquireCreate, Fresh, Hold, MakeOne
    <3>2. pc[p] = "create" /\ sem' = sem /\ Goto(p, "use")
      BY <1>5 DEF AcquireCreate
    <3>3. hand[p] = NoConn
      BY <1>0, <3>2
    <3> QED  BY <1>0, <3>1, <3>2, <3>3 DEF Tokens
  <2> QED  BY <1>0, <2>1, ApartKept, CoverKept
<1>f. ASSUME NEW p \in Clients, NEW from, NEW label, from \in Holding, label \notin Holding,
             FreeSlot(p, from, label)
      PROVE  Kept
  <2>1. open' = open /\ pc[p] \in Holding /\ Tokens(p, -1, label)
    BY <1>0, <1>f DEF FreeSlot, Tokens
  <2> QED  BY <1>0, <1>f, <2>1, ApartStays, CoverKept DEF FreeSlot
<1>6. ASSUME NEW p \in Clients, AcquireFactoryFails(p)  PROVE  Kept
  BY <1>6, <1>f DEF AcquireFactoryFails, Holding
<1>7. ASSUME NEW p \in Clients, AcquireWait(p)  PROVE  Kept
  BY <1>7, <1>r DEF AcquireWait
<1>8. ASSUME NEW p \in Clients, AcquireTimeout(p)  PROVE  Kept
  BY <1>8, <1>q DEF AcquireTimeout, shared, Holding
<1>9. ASSUME NEW p \in Clients, AcquireRetry(p)  PROVE  Kept
  BY <1>9, <1>f DEF AcquireRetry, Holding
<1>10. ASSUME NEW p \in Clients, AcquireAgain(p)  PROVE  Kept
  BY <1>10, <1>q DEF AcquireAgain, shared, Holding
<1>c. ASSUME NEW p \in Clients, CloseHeld(p), pc[p] \in {"use", "put"}, Goto(p, "out"), sem' = sem
      PROVE  Kept
  <2>1. SlotHolders' = SlotHolders /\ hand[p] # NoConn
    BY <1>0, <1>c, HoldersMove DEF PoolFinite
  <2> QED  BY <1>0, <1>c, <2>1, ApartKept, CoverKept
<1>11. ASSUME NEW p \in Clients, ReleaseCheck(p)  PROVE  Kept
  <2>1. CASE closed
    BY <1>11, <1>c, <2>1 DEF ReleaseCheck, CloseHeld, Hold
  <2>2. CASE ~closed
    BY <1>11, <1>q, <2>2 DEF ReleaseCheck, Holding
  <2> QED  BY <2>1, <2>2
<1>12. ASSUME NEW p \in Clients, ReleasePut(p)  PROVE  Kept
  <2>1. CASE Panic
    BY <1>0, <2>1, <1>12, ApartStays, CoverKept DEF Panic, SlotHolders
  <2>2. CASE idle' = Append(idle, hand[p]) /\ open' = open /\ Hold(p, NoConn) /\ Goto(p, "out") /\ sem' = sem
    <3>1. SlotHolders' = SlotHolders /\ hand[p] # NoConn
      BY <1>0, <1>12, <2>2, HoldersMove DEF PoolFinite, ReleasePut
    <3> QED  BY <1>0, <2>2, <3>1, ApartKept, CoverKept DEF PutBack, Hold
  <2>3. CASE open' = open \ {hand[p]} /\ idle' = idle /\ Hold(p, NoConn) /\ Goto(p, "out") /\ sem' = sem
    BY <1>12, <1>c, <2>3 DEF ReleasePut, CloseHeld, Hold
  <2> QED  BY <1>12, <2>1, <2>2, <2>3 DEF ReleasePut
<1>13. ASSUME NEW k \in Closers, CloseStep(k)  PROVE  Kept
  <2>1. CASE CloseMark(k) \/ CloseChannel(k)
    BY <1>q, <2>1 DEF CloseMark, CloseChannel, Holding
  <2>2. CASE CloseDrain(k) /\ idle = << >>
    BY <1>q, <2>2 DEF CloseDrain, Holding
  <2>3. CASE CloseDrain(k) /\ idle # << >>
    <3>1. CloseIdle /\ sem' = sem /\ pc' = pc
      BY <2>3 DEF CloseDrain, CloseIdle
    <3>2. SlotHolders' = SlotHolders
      BY <3>1 DEF SlotHolders
    <3> QED  BY <1>0, <3>1, <3>2, ApartKeptByClose, CoverKept
  <2> QED  BY <1>13, <2>1, <2>2, <2>3 DEF CloseStep
<1>14. CASE UNCHANGED poolVars
  <2>1. UNCHANGED <<idle, hand, open, sem, pc>>
    BY <1>14 DEF poolVars
  <2>2. SlotHolders' = SlotHolders
    BY <2>1 DEF SlotHolders
  <2> QED  BY <1>0, <2>1, <2>2, ApartStays DEF PoolFinite, SlotsCover
<1> QED  BY <1>2, <1>3, <1>4, <1>5, <1>6, <1>7, <1>8, <1>9, <1>10, <1>11, <1>12, <1>13, <1>14
         DEF PoolNext, AcquireStep, ReleaseStep

LEMMA PoolInvariant == PoolSpec => []PoolInv
<1>1. PoolInit => PoolInv
  <2> SUFFICES ASSUME PoolInit PROVE PoolInv
    OBVIOUS
  <2>1. PoolTypeOK
    <3>1. \A p \in Procs : pc[p] \in {"out", "closeOut"}
      BY DEF PoolInit
    <3>2. idle \in Seq(Conns) /\ sem \in 0..PoolSize
      BY PoolAssumption DEF PoolInit
    <3>3. hand \in [Clients -> Conns \cup {NoConn}] /\ \A p \in Clients : hand[p] = NoConn
      BY DEF PoolInit
    <3>4. \A p \in Clients : pc[p] \notin {"use", "put"}
      BY <3>1 DEF Procs
    <3> QED  BY <3>1, <3>2, <3>3, <3>4 DEF PoolInit, PoolTypeOK
  <2>2. open = {} /\ SlotHolders = {} /\ sem = 0 /\ Len(idle) = 0
    BY DEF PoolInit, SlotHolders
  <2>3. PoolFinite /\ SlotsCover
    BY <2>2, FS_EmptySet DEF PoolFinite, SlotsCover
  <2>4. Apart
    BY <2>2 DEF PoolInit, Apart, IdleApart, IdleOpen, HandsApart
  <2> QED  BY <2>1, <2>3, <2>4 DEF PoolInv, Apart
<1>2. PoolInv /\ [PoolNext]_poolVars => PoolInv'
  <2>1. PoolInv /\ UNCHANGED poolVars => PoolInv'
    BY DEF poolVars, PoolInv, PoolTypeOK, PoolFinite, IdleApart, IdleOpen, HandsApart, SlotsCover, SlotHolders
  <2> QED  BY <2>1, PoolInvNext
<1> QED  BY <1>1, <1>2, PTL DEF PoolSpec

\* The types of the pool: a goroutine has a connection in hand exactly while it uses it
\* or gives it back, and the semaphore has no more tokens than places (pool.go:83-230).
THEOREM PoolTypes == PoolSpec => []PoolTypeOK
<1>1. PoolInv => PoolTypeOK
  BY DEF PoolInv
<1> QED  BY <1>1, PoolInvariant, PTL

\* However acquiring, releasing and closing interleave, there are never more open
\* connections, and goroutines making or closing one, than tokens in the semaphore: the
\* paths that forget a token only leave too many (pool.go:83-230).
THEOREM ConnectionsAreBounded == PoolSpec => []SlotsCover
<1>1. PoolInv => SlotsCover
  BY DEF PoolInv
<1> QED  BY <1>1, PoolInvariant, PTL

-----------------------------------------------------------------------------
(* RateLimiters.  What a bucket has room for, with what has been granted since a tick, *)
(* is at most its burst and what the time was worth, and for some tick it is just that; *)
(* nothing has been granted since the bucket was last brought up to date.               *)
Space == IF kind = "token" THEN level ELSE Burst * Unit - level
Balance(s) == Since(s) * Unit + Space
Worth(s, t) == Burst * Unit + Rate * (t - s)

BucketExact ==
    /\ \A s \in 0..last : Balance(s) <= Worth(s, last)
    /\ \E s \in 0..last : Balance(s) = Worth(s, last)
    /\ \A s \in (last + 1)..now : Since(s) = 0

\* The last stamps of the log are those of the requests granted since a tick, for every
\* tick of the window.
LogExact == \A s \in 0..now : now - s < Window =>
    /\ Since(s) <= Len(stamps)
    /\ \A i \in 1..Len(stamps) : stamps[i] >= s <=> i > Len(stamps) - Since(s)

\* The two windows f of a counter hold what has been granted since the older began, and
\* the current one what has been granted since it began itself.
WindowsExact(f) ==
    /\ f \in [start : 0..now, current : 0..Limit, previous : 0..Limit]
    /\ \A s \in 0..now :
         /\ s >= f.start + Window => Since(s) = 0
         /\ s >= f.start => Since(s) <= f.current
         /\ s <= f.start => Since(s) >= f.current
         /\ s >= f.start - Window => Since(s) <= f.current + f.previous
         /\ s <= f.start - Window \/ s = 0 => Since(s) >= f.current + f.previous

RateExact ==
    /\ fixed \in [start : Nat, current : Nat, previous : Nat]
    /\ kind \in {"token", "leaky"} => BucketExact
    /\ kind = "log" => LogExact
    /\ kind = "counter" => WindowsExact(fixed)
RateInv == RateTypeOK /\ RateExact

LEMMA Products ==
    ASSUME NEW a \in Int, NEW b \in Int, NEW c \in Int
    PROVE  /\ a * c \in Int /\ c * a \in Int
           /\ (a + b) * c = a * c + b * c /\ c * (a + b) = c * a + c * b
           /\ a >= 0 /\ c >= 0 => a * c >= 0
  OBVIOUS

LEMMA SinceTyped ==
    ASSUME RateTypeOK, NEW s \in 0..now
    PROVE  /\ Since(s) \in Nat /\ now \in Nat /\ MaxTime \in Nat /\ s \in Int
           /\ s \in 0..MaxTime /\ before[s] \in Int /\ sum \in Nat
<1>1. /\ now \in 0..MaxTime /\ MaxTime \in Nat /\ sum \in Nat
      /\ \A r \in 0..MaxTime : before[r] \in 0..sum
  BY RateAssumption DEF RateTypeOK
<1>2. s \in 0..MaxTime /\ now \in Nat
  BY <1>1
<1>3. before[s] \in 0..sum
  BY <1>1, <1>2
<1>4. sum - before[s] \in Nat /\ before[s] \in Int
  BY <1>1, <1>3
<1> QED  BY <1>1, <1>2, <1>4 DEF Since

LEMMA SinceGranted ==
    ASSUME RateTypeOK, NEW g \in Nat, Granted(g), before' = before, NEW s \in 0..now
    PROVE  Since(s)' = Since(s) + g
  BY SinceTyped DEF Granted, Since

LEMMA SinceTicked ==
    ASSUME RateTypeOK, RateTick
    PROVE  /\ \A s \in 0..now : Since(s)' = Since(s)
           /\ \A s \in (now + 1)..now' : Since(s)' = 0
           /\ now \in Nat /\ now' = now + 1
<1>1. now + 1 \in 0..MaxTime /\ before \in [0..MaxTime -> Nat] /\ now \in Nat /\ sum \in Nat
  BY RateAssumption DEF RateTypeOK, RateTick
<1>2. sum' = sum /\ before' = [before EXCEPT ![now + 1] = sum] /\ now' = now + 1
  BY DEF RateTick
<1>3. ASSUME NEW s \in 0..now  PROVE  Since(s)' = Since(s)
  BY <1>1, <1>2, <1>3 DEF Since
<1>4. ASSUME NEW s \in (now + 1)..now'  PROVE  Since(s)' = 0
  <2>1. s = now + 1 /\ before'[now + 1] = sum
    BY <1>1, <1>2, <1>4
  <2>2. before'[s] = sum'
    BY <1>2, <2>1
  <2> QED  BY <1>1, <1>2, <2>2 DEF Since
<1> QED  BY <1>1, <1>2, <1>3, <1>4

\* What a bucket that is brought up to date has room for, and what it then grants.
LEMMA BucketGrants ==
    ASSUME RateTypeOK, BucketExact, NEW g \in Nat, Granted(g), UNCHANGED <<now, before>>, last' = now,
           NEW full, full = Space + Rate * (now - last),
           Space' = (IF full > Burst * Unit THEN Burst * Unit ELSE full) - g * Unit
    PROVE  BucketExact'
<1> DEFINE B == Burst * Unit  R(a) == Rate * a  U(a) == a * Unit
<1>0. /\ now \in Nat /\ last \in 0..now /\ B \in Nat /\ Rate \in Nat /\ Unit \in Nat
      /\ level \in Int /\ Space \in Int
  <2>1. now \in Nat /\ last \in 0..now /\ Rate \in Nat /\ Unit \in Nat /\ Burst \in Nat /\ level \in Int
    BY RateAssumption, Products DEF RateTypeOK
  <2>2. B \in Nat
    BY <2>1, Products
  <2> QED  BY <2>1, <2>2 DEF Space
<1>1. ASSUME NEW s \in 0..now
      PROVE  /\ Since(s) \in Nat /\ U(Since(s)) \in Nat /\ Since(s)' = Since(s) + g
             /\ U(Since(s) + g) = U(Since(s)) + U(g) /\ U(g) \in Nat
  BY <1>0, SinceTyped, SinceGranted, Products
<1>2. ASSUME NEW s \in 0..now
      PROVE  /\ R(now - s) = R(last - s) + R(now - last) /\ R(now - s) \in Nat
             /\ R(last - s) \in Int /\ R(now - last) \in Nat
  <2>1. now - s = (last - s) + (now - last) /\ now - s \in Nat /\ last - s \in Int /\ now - last \in Nat
    BY <1>0
  <2> QED  BY <1>0, <2>1, Products
<1>3. /\ full = Space + R(now - last)
      /\ Space' = (IF full > B THEN B ELSE full) - U(g)
      /\ now' = now /\ last' = now
  OBVIOUS
<1>4. \A s \in 0..last : U(Since(s)) + Space <= B + R(last - s)
  BY DEF BucketExact, Balance, Worth
<1>5. \E s \in 0..last : U(Since(s)) + Space = B + R(last - s)
  BY DEF BucketExact, Balance, Worth
<1>6. \A s \in (last + 1)..now : Since(s) = 0
  BY DEF BucketExact
<1>z. U(0) = 0 /\ R(0) = 0
  BY <1>0
<1>7. ASSUME NEW s \in 0..now
      PROVE  Balance(s)' = U(Since(s)) + U(g) + Space'
  BY <1>1 DEF Balance
<1>8. ASSUME NEW s \in 0..now
      PROVE  Worth(s, last)' = B + R(now - s)
  BY <1>3 DEF Worth
<1>9. Space' + U(g) = IF full > B THEN B ELSE full
  BY <1>0, <1>1, <1>2, <1>3
<1> HIDE DEF B, R, U
<1>10. ASSUME NEW s \in 0..now
       PROVE  U(Since(s)) + (Space' + U(g)) <= B + R(now - s)
  <2>1. CASE s \in 0..last
    BY <1>0, <1>1, <1>2, <1>3, <1>4, <1>9, <2>1
  <2>2. CASE s \in (last + 1)..now
    BY <1>0, <1>1, <1>2, <1>3, <1>6, <1>9, <1>z, <2>2
  <2> QED  BY <1>0, <2>1, <2>2
<1>11. \E s \in 0..now : U(Since(s)) + (Space' + U(g)) = B + R(now - s)
  <2>1. CASE full > B
    <3>1. now > last
      <4>1. PICK s \in 0..last : U(Since(s)) + Space = B + R(last - s)
        BY <1>5
      <4>2. SUFFICES ASSUME now = last  PROVE FALSE
        BY <1>0
      <4>3. full = Space /\ last \in 0..now
        BY <1>0, <1>3, <1>z, <4>2
      <4>4. U(Since(last)) + Space <= B + R(last - last)
        BY <1>0, <1>4
      <4> QED  BY <1>0, <1>1, <1>z, <2>1, <4>3, <4>4
    <3>2. Since(now) = 0 /\ now - now = 0
      BY <1>0, <1>6, <3>1
    <3>3. U(Since(now)) + (Space' + U(g)) = B + R(now - now)
      BY <1>0, <1>9, <1>z, <2>1, <3>2
    <3> QED  BY <1>0, <3>3
  <2>2. CASE ~(full > B)
    <3>1. PICK s \in 0..last : U(Since(s)) + Space = B + R(last - s)
      BY <1>5
    <3>2. s \in 0..now
      BY <1>0
    <3>3. U(Since(s)) + (Space' + U(g)) = B + R(now - s)
      <4>1. Space' + U(g) = Space + R(now - last)
        BY <1>3, <1>9, <2>2
      <4>2. R(now - s) = R(last - s) + R(now - last) /\ U(Since(s)) \in Nat
            /\ R(last - s) \in Int /\ R(now - last) \in Nat
        BY <1>1, <1>2, <3>2
      <4> QED  BY <1>0, <3>1, <4>1, <4>2
    <3> QED  BY <3>2, <3>3
  <2> QED  BY <2>1, <2>2
<1>12. Space' \in Int
  BY <1>0, <1>1, <1>2, <1>3
<1>13. \A s \in 0..now : Balance(s)' <= Worth(s, last)'
  BY <1>0, <1>1, <1>7, <1>8, <1>10, <1>12
<1>14. \E s \in 0..now : Balance(s)' = Worth(s, last)'
  BY <1>0, <1>1, <1>7, <1>8, <1>11, <1>12
<1> QED  BY <1>0, <1>3, <1>13, <1>14 DEF BucketExact

LEMMA BucketTicks == ASSUME RateTypeOK, BucketExact, RateTick PROVE BucketExact'
<1>1. last \in 0..now /\ last' = last /\ Space' = Space
  BY DEF RateTypeOK, RateTick, Space
<1>2. \A s \in 0..last : Since(s)' = Since(s)
  BY <1>1, SinceTicked
<1>3. \A s \in 0..last : Balance(s)' = Balance(s) /\ Worth(s, last)' = Worth(s, last)
  BY <1>1, <1>2 DEF Balance, Worth
<1>4. \A s \in (last + 1)..now' : Since(s)' = 0
  <2> SUFFICES ASSUME NEW s \in (last + 1)..now'  PROVE Since(s)' = 0
    OBVIOUS
  <2>1. CASE s \in 0..now
    BY <1>1, <2>1, SinceTicked DEF BucketExact
  <2>2. CASE s \in (now + 1)..now'
    BY <2>2, SinceTicked
  <2> QED  BY <1>1, <2>1, <2>2, SinceTicked
<1>5. \A s \in 0..last : Balance(s)' <= Worth(s, last)'
  BY <1>3 DEF BucketExact
<1>6. \E s \in 0..last : Balance(s)' = Worth(s, last)'
  BY <1>3 DEF BucketExact
<1> QED  BY SMTT(30), <1>1, <1>4, <1>5, <1>6 DEF BucketExact

\* What is left of the log is the last of it, from a stamp that the window still has.
LEMMA CutsOld ==
    ASSUME RateTypeOK
    PROVE  \E v \in 1..(Len(stamps) + 1) :
             /\ Recent = SubSeq(stamps, v, Len(stamps))
             /\ \A j \in 1..(v - 1) : stamps[j] <= now - Window
             /\ v <= Len(stamps) => stamps[v] > now - Window
<1>0. Len(stamps) \in Nat /\ (\A i \in 1..Len(stamps) : stamps[i] \in Nat) /\ now \in Nat /\ Window \in Nat
  <2>1. stamps \in Seq(0..now) /\ now \in Nat /\ Window \in Nat
    BY RateAssumption DEF RateTypeOK
  <2> QED  BY <2>1
<1> DEFINE n == Len(stamps)
           B == {i \in 1..n : ~Old(i)} \cup {n + 1}
           Q(v) == (\A j \in 1..(v - 1) : Old(j)) /\ (v <= n => ~Old(v))
<1>1. PICK m \in B : \A k \in B : m <= k
  <2>1. B \subseteq Nat /\ B # {}
    BY <1>0
  <2> HIDE DEF B
  <2> QED  BY <2>1, LeastNatural
<1>2. m \in 1..(n + 1) /\ Q(m)
  BY <1>0, <1>1
<1>3. ValidIndex = CHOOSE v \in 1..(n + 1) : Q(v)
  BY DEF ValidIndex
<1> HIDE DEF Q
<1>4. ValidIndex \in 1..(n + 1) /\ Q(ValidIndex)
  BY <1>2, <1>3
<1> QED  BY <1>0, <1>4 DEF Q, Old, Recent

\* A log t that is s without what comes before place v, and with g stamps of time x added.
Grown(t, s, v, g, x) ==
    /\ Len(t) = Len(s) + 1 - v + g
    /\ \A i \in 1..(Len(s) + 1 - v) : t[i] = s[i + v - 1]
    /\ \A i \in (Len(s) + 2 - v)..(Len(s) + 1 - v + g) : t[i] = x

Cut(s, v) == SubSeq(s, v, Len(s))
CutLonger(s, v, g, x) == Cut(s, v) \o [i \in 1..g |-> x]

LEMMA CutParts ==
    ASSUME NEW S, NEW s \in Seq(S), NEW v \in 1..(Len(s) + 1), NEW g \in Nat, NEW x \in S
    PROVE  /\ Len(Cut(s, v)) = Len(s) + 1 - v
           /\ CutLonger(s, v, g, x) \in Seq(S)
           /\ Grown(CutLonger(s, v, g, x), s, v, g, x)
<1>1. Len(Cut(s, v)) = Len(s) + 1 - v
  BY DEF Cut
<1>2. CutLonger(s, v, g, x) \in Seq(S)
  BY DEF Cut, CutLonger
<1>3. Grown(CutLonger(s, v, g, x), s, v, g, x)
  BY DEF Cut, CutLonger, Grown
<1> QED  BY <1>1, <1>2, <1>3

LEMMA LogKept ==
    ASSUME RateTypeOK, LogExact, NEW g \in Nat, Granted(g), UNCHANGED <<now, before>>,
           NEW v \in 1..(Len(stamps) + 1), \A j \in 1..(v - 1) : stamps[j] <= now - Window,
           Grown(stamps', stamps, v, g, now)
    PROVE  LogExact'
<1>0. stamps \in Seq(0..now) /\ now \in 0..now /\ now \in Nat /\ Window \in Nat
  BY RateAssumption DEF RateTypeOK
<1> DEFINE n == Len(stamps)  m == n + 1 - v
<1>1. \A j \in 1..(v - 1) : stamps[j] <= now - Window
  OBVIOUS
<1>n. /\ n \in Nat /\ v \in Nat /\ 1 <= v /\ v <= n + 1 /\ m = n + 1 - v /\ m \in Nat
      /\ \A i \in 1..n : stamps[i] \in Nat
  BY <1>0
<1>2. /\ Len(stamps') = m + g
      /\ \A i \in 1..m : stamps'[i] = stamps[i + v - 1]
      /\ \A i \in 1..(m + g) : i > m => stamps'[i] = now
  BY <1>n DEF Grown
<1> HIDE DEF m
<1>3. ASSUME NEW s \in 0..now, now - s < Window
      PROVE  /\ Since(s)' <= Len(stamps')
             /\ \A i \in 1..Len(stamps') : stamps'[i] >= s <=> i > Len(stamps') - Since(s)'
  <2>1. /\ Since(s) \in Nat /\ Since(s)' = Since(s) + g /\ Since(s) <= n
        /\ \A i \in 1..n : stamps[i] >= s <=> i > n - Since(s)
    BY <1>3, SinceTyped, SinceGranted DEF LogExact
  <2>0. Since(s)' \in Nat
    BY <2>1
  <2>2. v - 1 <= n - Since(s)
    <3>1. CASE v = 1
      BY <1>n, <2>1, <3>1
    <3>2. CASE v # 1
      <4>1. v - 1 \in 1..n /\ stamps[v - 1] <= now - Window /\ stamps[v - 1] \in Int
        BY <1>0, <1>1, <1>n, <3>2
      <4>2. ~(stamps[v - 1] >= s)
        BY <1>0, <1>3, <4>1
      <4> QED  BY <1>n, <2>1, <4>1, <4>2
    <3> QED  BY <3>1, <3>2
  <2>3. Since(s)' <= Len(stamps')
    BY <1>2, <1>n, <2>1, <2>2
  <2>4. ASSUME NEW i \in 1..Len(stamps')
        PROVE  stamps'[i] >= s <=> i > Len(stamps') - Since(s)'
    <3>1. CASE i \in 1..m
      <4>1. i + v - 1 \in 1..n /\ stamps'[i] = stamps[i + v - 1]
        BY <1>2, <1>n, <3>1
      <4>2. stamps'[i] >= s <=> i + v - 1 > n - Since(s)
        BY <2>1, <4>1
      <4>3. i + v - 1 > n - Since(s) <=> i > Len(stamps') - (Since(s) + g)
        BY <1>2, <1>n, <2>1, <3>1
      <4> QED  BY <2>1, <4>1, <4>2, <4>3
    <3>2. CASE i > m
      <4>1. stamps'[i] = now
        BY <1>2, <1>n, <2>4, <3>2
      <4>2. i > Len(stamps') - (Since(s) + g)
        BY <1>2, <1>n, <2>1, <2>2, <2>4, <3>2
      <4>3. stamps'[i] >= s
        BY <1>0, <4>1
      <4>4. i > Len(stamps') - Since(s)'
        BY <2>1, <4>2
      <4> QED  BY <4>3, <4>4
    <3>3. i \in 1..m \/ i > m
      BY <1>2, <1>n, <2>4
    <3> QED  BY <3>1, <3>2, <3>3
  <2> QED  BY <2>3, <2>4
<1> QED  BY <1>3 DEF LogExact

LEMMA CutGrows ==
    ASSUME RateTypeOK, NEW g \in Nat
    PROVE  \E v \in 1..(Len(stamps) + 1) :
             /\ \A j \in 1..(v - 1) : stamps[j] <= now - Window
             /\ Grown(Recent \o [i \in 1..g |-> now], stamps, v, g, now)
             /\ Recent \o [i \in 1..g |-> now] \in Seq(0..now)
             /\ Len(Recent) = Len(stamps) + 1 - v
<1>1. PICK v \in 1..(Len(stamps) + 1) :
             /\ Recent = SubSeq(stamps, v, Len(stamps))
             /\ \A j \in 1..(v - 1) : stamps[j] <= now - Window
  BY CutsOld
<1>2. stamps \in Seq(0..now) /\ now \in 0..now
  BY DEF RateTypeOK
<1>3. /\ Len(Cut(stamps, v)) = Len(stamps) + 1 - v
      /\ CutLonger(stamps, v, g, now) \in Seq(0..now)
      /\ Grown(CutLonger(stamps, v, g, now), stamps, v, g, now)
  BY <1>2, CutParts
<1>4. Recent = Cut(stamps, v) /\ Recent \o [i \in 1..g |-> now] = CutLonger(stamps, v, g, now)
  BY <1>1 DEF Cut, CutLonger
<1> QED  BY <1>1, <1>3, <1>4

LEMMA LogGrants ==
    ASSUME RateTypeOK, LogExact, NEW g \in Nat, Granted(g), UNCHANGED <<now, before>>,
           stamps' = Recent \o [i \in 1..g |-> now]
    PROVE  LogExact' /\ stamps' \in Seq(0..now) /\ Len(stamps') = Len(Recent) + g
<1> DEFINE t == Recent \o [i \in 1..g |-> now]
<1>1. PICK v \in 1..(Len(stamps) + 1) :
             /\ \A j \in 1..(v - 1) : stamps[j] <= now - Window
             /\ Grown(t, stamps, v, g, now) /\ t \in Seq(0..now)
             /\ Len(Recent) = Len(stamps) + 1 - v
  BY CutGrows
<1>2. stamps' = t
  OBVIOUS
<1> HIDE DEF t
<1>3. Grown(stamps', stamps, v, g, now) /\ stamps' \in Seq(0..now)
  BY <1>1, <1>2
<1>4. Len(stamps') = Len(Recent) + g
  BY <1>1, <1>3 DEF Grown
<1> QED  BY <1>1, <1>3, <1>4, LogKept

LEMMA LogTicks == ASSUME RateTypeOK, LogExact, RateTick PROVE LogExact'
<1>1. stamps' = stamps /\ stamps \in Seq(0..now) /\ now \in Nat /\ now' = now + 1 /\ Window \in Nat
  BY RateAssumption DEF RateTypeOK, RateTick
<1>2. ASSUME NEW s \in 0..now', now' - s < Window
      PROVE  /\ Since(s)' <= Len(stamps)
             /\ \A i \in 1..Len(stamps) : stamps[i] >= s <=> i > Len(stamps) - Since(s)'
  <2>1. CASE s \in 0..now
    BY <1>1, <1>2, <2>1, SinceTicked DEF LogExact
  <2>2. CASE s \in (now + 1)..now'
    <3>1. Since(s)' = 0
      BY <2>2, SinceTicked
    <3> QED  BY <1>1, <2>2, <3>1
  <2> QED  BY <1>1, <2>1, <2>2
<1> QED  BY <1>1, <1>2 DEF LogExact

\* Bringing the windows up to date keeps them exact, and makes the current one current.
LEMMA WindowsAdvance ==
    ASSUME RateTypeOK, WindowsExact(fixed)
    PROVE  /\ WindowsExact(Advanced) /\ now - Advanced.start < Window
           /\ Advanced \in [start : 0..now, current : 0..Limit, previous : 0..Limit]
<1>0. now \in Nat /\ Window \in Nat \ {0} /\ Limit \in Nat
  BY RateAssumption DEF RateTypeOK
<1>1. /\ fixed \in [start : 0..now, current : 0..Limit, previous : 0..Limit]
      /\ \A s \in 0..now :
           /\ Since(s) \in Nat
           /\ s >= fixed.start + Window => Since(s) = 0
           /\ s >= fixed.start => Since(s) <= fixed.current
           /\ s <= fixed.start => Since(s) >= fixed.current
           /\ s >= fixed.start - Window => Since(s) <= fixed.current + fixed.previous
           /\ s <= fixed.start - Window \/ s = 0 => Since(s) >= fixed.current + fixed.previous
  BY SinceTyped DEF WindowsExact
<1>2. CASE now - fixed.start < Window
  <2>1. Advanced = fixed
    BY <1>0, <1>1, <1>2 DEF Advanced
  <2> QED  BY <1>1, <1>2, <2>1
<1>3. CASE now - fixed.start \in Window..(2 * Window - 1)
  <2>1. Advanced = [start |-> fixed.start + Window, current |-> 0, previous |-> fixed.current]
    BY <1>0, <1>1, <1>3 DEF Advanced
  <2>2. /\ Advanced.start = fixed.start + Window /\ Advanced.current = 0
        /\ Advanced.previous = fixed.current
        /\ Advanced \in [start : 0..now, current : 0..Limit, previous : 0..Limit]
    BY <1>0, <1>1, <1>3, <2>1
  <2>3. now - Advanced.start < Window
    BY <1>0, <1>1, <1>3, <2>2
  <2>4. ASSUME NEW s \in 0..now
        PROVE  /\ s >= Advanced.start + Window => Since(s) = 0
               /\ s >= Advanced.start => Since(s) <= Advanced.current
               /\ s <= Advanced.start => Since(s) >= Advanced.current
               /\ s >= Advanced.start - Window => Since(s) <= Advanced.current + Advanced.previous
               /\ s <= Advanced.start - Window \/ s = 0 =>
                    Since(s) >= Advanced.current + Advanced.previous
    BY <1>0, <1>1, <2>2
  <2> QED  BY <2>2, <2>3, <2>4 DEF WindowsExact
<1>4. CASE now - fixed.start >= 2 * Window
  <2>1. Advanced = [start |-> now, current |-> 0, previous |-> 0]
    BY <1>0, <1>1, <1>4 DEF Advanced
  <2>2. /\ Advanced.start = now /\ Advanced.current = 0 /\ Advanced.previous = 0
        /\ Advanced \in [start : 0..now, current : 0..Limit, previous : 0..Limit]
    BY <1>0, <2>1
  <2>3. ASSUME NEW s \in 0..now
        PROVE  /\ s >= Advanced.start + Window => Since(s) = 0
               /\ s >= Advanced.start => Since(s) <= Advanced.current
               /\ s <= Advanced.start => Since(s) >= Advanced.current
               /\ s >= Advanced.start - Window => Since(s) <= Advanced.current + Advanced.previous
               /\ s <= Advanced.start - Window \/ s = 0 =>
                    Since(s) >= Advanced.current + Advanced.previous
    BY <1>0, <1>1, <1>4, <2>2
  <2> QED  BY <1>0, <2>2, <2>3 DEF WindowsExact
<1> QED  BY <1>0, <1>1, <1>2, <1>3, <1>4

\* A counter whose windows are full refuses: the current one alone is below the limit
\* when a request is granted, and both together are not when one is refused.
LEMMA Weights ==
    ASSUME RateTypeOK, WindowsExact(fixed)
    PROVE  /\ Weighted < Limit * Window => Advanced.current < Limit
           /\ ~(Weighted < Limit * Window) => Advanced.previous + Advanced.current >= Limit
<1> DEFINE c == Advanced.current  p == Advanced.previous  e == now - Advanced.start
<1>0. /\ c \in Nat /\ p \in Nat /\ e \in Nat /\ e < Window /\ Limit \in Nat /\ Window \in Nat \ {0}
      /\ Weighted = p * (Window - e) + c * Window
  <2>1. now \in Nat /\ Window \in Nat \ {0} /\ Limit \in Nat
    BY RateAssumption DEF RateTypeOK
  <2>2. Advanced \in [start : 0..now, current : 0..Limit, previous : 0..Limit] /\ e < Window
    BY WindowsAdvance
  <2>3. c \in Nat /\ p \in Nat /\ e \in Nat
    BY <2>1, <2>2
  <2> QED  BY <2>1, <2>2, <2>3 DEF Weighted
<1> HIDE DEF c, p, e
<1>1. p * (Window - e) \in Nat /\ p * (Window - e) <= p * Window
  <2>1. p * Window = p * (Window - e) + p * e /\ p * e >= 0 /\ p * (Window - e) >= 0
    <3>1. Window = (Window - e) + e /\ Window - e \in Nat
      BY <1>0
    <3> QED  BY <1>0, <3>1, Products
  <2> QED  BY <1>0, <2>1, Products
<1>2. ASSUME c >= Limit  PROVE c * Window >= Limit * Window
  <2>1. c = Limit + (c - Limit) /\ c - Limit \in Nat
    BY <1>0, <1>2
  <2>2. c * Window = Limit * Window + (c - Limit) * Window /\ (c - Limit) * Window >= 0
    BY <1>0, <2>1, Products
  <2> QED  BY <1>0, <2>2, Products
<1>3. ASSUME p + c < Limit  PROVE (p + c) * Window < Limit * Window
  <2>1. Limit = (p + c) + (Limit - (p + c)) /\ Limit - (p + c) - 1 \in Nat
    BY <1>0, <1>3
  <2>2. Limit * Window = (p + c) * Window + (Limit - (p + c)) * Window
    BY <1>0, <2>1, Products
  <2>3. (Limit - (p + c)) * Window = (Limit - (p + c) - 1) * Window + Window
    BY <1>0, <2>1, Products
  <2>4. (Limit - (p + c) - 1) * Window >= 0
    BY <1>0, <2>1, Products
  <2> QED  BY <1>0, <2>2, <2>3, <2>4, Products
<1>4. (p + c) * Window = p * Window + c * Window /\ c * Window \in Int /\ p * Window \in Int
      /\ Limit * Window \in Int
  BY <1>0, Products
<1>5. Weighted < Limit * Window => c < Limit
  BY <1>0, <1>1, <1>2, <1>4
<1>6. ~(Weighted < Limit * Window) => p + c >= Limit
  BY <1>0, <1>1, <1>3, <1>4
<1> QED  BY <1>5, <1>6 DEF c, p

LEMMA CounterGrants ==
    ASSUME RateTypeOK, WindowsExact(fixed), AllowCounter
    PROVE  WindowsExact(fixed)'
<1> DEFINE g == Given(1)  a == Advanced
<1>1. /\ g \in {0, 1} /\ (g = 1 => Weighted < Limit * Window) /\ Granted(g)
      /\ fixed' = [a EXCEPT !.current = a.current + g] /\ now' = now /\ before' = before
  BY DEF AllowCounter, Given, Admits
<1>2. /\ WindowsExact(a) /\ now - a.start < Window
      /\ a \in [start : 0..now, current : 0..Limit, previous : 0..Limit]
      /\ g = 1 => a.current < Limit
  BY <1>1, WindowsAdvance, Weights
<1>0. now \in Nat /\ Window \in Nat \ {0} /\ Limit \in Nat
  BY RateAssumption DEF RateTypeOK
<1> HIDE DEF g, a
<1>3. /\ fixed'.start = a.start /\ fixed'.current = a.current + g /\ fixed'.previous = a.previous
      /\ fixed' \in [start : 0..now', current : 0..Limit, previous : 0..Limit]
  BY <1>0, <1>1, <1>2
<1>4. ASSUME NEW s \in 0..now
      PROVE  /\ Since(s)' = Since(s) + g /\ Since(s) \in Nat /\ s < a.start + Window
             /\ s >= a.start => Since(s) <= a.current
             /\ s <= a.start => Since(s) >= a.current
             /\ s >= a.start - Window => Since(s) <= a.current + a.previous
             /\ s <= a.start - Window \/ s = 0 => Since(s) >= a.current + a.previous
  BY <1>0, <1>1, <1>2, SinceTyped, SinceGranted DEF WindowsExact
<1>5. ASSUME NEW s \in 0..now
      PROVE  /\ s >= fixed'.start + Window => Since(s)' = 0
             /\ s >= fixed'.start => Since(s)' <= fixed'.current
             /\ s <= fixed'.start => Since(s)' >= fixed'.current
             /\ s >= fixed'.start - Window => Since(s)' <= fixed'.current + fixed'.previous
             /\ s <= fixed'.start - Window \/ s = 0 => Since(s)' >= fixed'.current + fixed'.previous
  BY <1>0, <1>1, <1>2, <1>3, <1>4
<1> QED  BY <1>1, <1>3, <1>5 DEF WindowsExact

LEMMA CounterTicks ==
    ASSUME RateTypeOK, WindowsExact(fixed), RateTick
    PROVE  WindowsExact(fixed)'
<1>0. /\ now \in Nat /\ Window \in Nat \ {0} /\ Limit \in Nat /\ fixed' = fixed /\ now' = now + 1
      /\ fixed \in [start : 0..now, current : 0..Limit, previous : 0..Limit]
  BY RateAssumption DEF RateTypeOK, RateTick, WindowsExact
<1>1. ASSUME NEW s \in 0..now'
      PROVE  /\ s >= fixed.start + Window => Since(s)' = 0
             /\ s >= fixed.start => Since(s)' <= fixed.current
             /\ s <= fixed.start => Since(s)' >= fixed.current
             /\ s >= fixed.start - Window => Since(s)' <= fixed.current + fixed.previous
             /\ s <= fixed.start - Window \/ s = 0 => Since(s)' >= fixed.current + fixed.previous
  <2>1. CASE s \in 0..now
    <3>1. Since(s)' = Since(s)
      BY <2>1, SinceTicked
    <3> QED  BY <2>1, <3>1 DEF WindowsExact
  <2>2. CASE s \in (now + 1)..now'
    <3>1. Since(s)' = 0
      BY <2>2, SinceTicked
    <3> QED  BY <1>0, <2>2, <3>1
  <2> QED  BY <1>0, <2>1, <2>2
<1>2. fixed \in [start : 0..now', current : 0..Limit, previous : 0..Limit]
  BY <1>0
<1> QED  BY <1>0, <1>1, <1>2 DEF WindowsExact

LEMMA SeqWidens == ASSUME NEW A, NEW B, A \subseteq B, NEW s \in Seq(A) PROVE s \in Seq(B)
  OBVIOUS

LEMMA BucketTyped ==
    ASSUME RateTypeOK, NEW n \in 0..MaxAsk
    PROVE  /\ Refilled \in 0..(Burst * Unit) /\ Leaked \in 0..(Burst * Unit)
           /\ Burst * Unit \in Nat /\ Given(n) \in Nat /\ Given(n) * Unit \in Nat
           /\ kind = "token" => Refilled - Given(n) * Unit \in 0..(Burst * Unit)
           /\ kind = "leaky" => Leaked + Given(n) * Unit \in 0..(Burst * Unit)
<1> DEFINE B == Burst * Unit  d == Rate * (now - last)  g == Given(n)
<1>0. /\ now - last \in Nat /\ Rate \in Nat /\ Unit \in Nat /\ Burst \in Nat /\ level \in 0..B
      /\ n \in Nat
  BY RateAssumption DEF RateTypeOK
<1>1. B \in Nat /\ d \in Nat /\ n * Unit \in Nat /\ 0 * Unit = 0
  BY <1>0, Products
<1>2. Refilled = (IF level + d > B THEN B ELSE level + d) /\ Leaked = IF level - d < 0 THEN 0 ELSE level - d
  BY DEF Refilled, Leaked
<1>3. (g \in Nat /\ g = n /\ Admits(n)) \/ g = 0
  BY <1>0 DEF Given
<1>4. /\ kind = "token" => (Admits(n) <=> Refilled >= n * Unit)
      /\ kind = "leaky" => (Admits(n) <=> Leaked + n * Unit <= B)
  BY DEF Admits
<1> HIDE DEF B, d, g
<1>5. Refilled \in 0..B /\ Leaked \in 0..B
  BY <1>0, <1>1, <1>2
<1>6. CASE g = n /\ Admits(n)
  BY <1>0, <1>1, <1>4, <1>5, <1>6 DEF B, g
<1>7. CASE g = 0
  BY <1>1, <1>5, <1>7 DEF B, g
<1> QED  BY <1>3, <1>6, <1>7

LEMMA RateTypeNext == ASSUME RateTypeOK, RateExact, RateNext PROVE RateTypeOK'
<1>0. /\ kind \in Kinds /\ now \in 0..MaxTime /\ last \in 0..now /\ now \in Nat /\ MaxTime \in Nat
      /\ level \in 0..(Burst * Unit)
      /\ stamps \in Seq(0..now) /\ Len(stamps) <= Limit /\ Limit \in Nat
      /\ fixed.start \in 0..now /\ fixed.current \in 0..Limit /\ fixed.previous \in 0..Limit
      /\ sum \in Nat /\ before \in [0..MaxTime -> 0..sum]
      /\ MaxAsk \in Nat
  BY RateAssumption DEF RateTypeOK
<1>g. ASSUME NEW g \in Nat, Granted(g), before' = before
      PROVE  sum' \in Nat /\ before' \in [0..MaxTime -> 0..sum']
  BY <1>0, <1>g DEF Granted
<1>1. ASSUME NEW n \in 0..MaxAsk, AllowTokens(n)  PROVE RateTypeOK'
  <2>1. Given(n) \in Nat /\ level' \in 0..(Burst * Unit)
    BY <1>1, BucketTyped DEF AllowTokens
  <2>2. sum' \in Nat /\ before' \in [0..MaxTime -> 0..sum']
    BY <1>1, <1>g, <2>1 DEF AllowTokens
  <2> QED  BY <1>0, <1>1, <2>1, <2>2 DEF AllowTokens, RateTypeOK
<1>2. ASSUME NEW n \in 0..MaxAsk, AllowLeaky(n)  PROVE RateTypeOK'
  <2>1. Given(n) \in Nat /\ level' \in 0..(Burst * Unit)
    BY <1>2, BucketTyped DEF AllowLeaky
  <2>2. sum' \in Nat /\ before' \in [0..MaxTime -> 0..sum']
    BY <1>2, <1>g, <2>1 DEF AllowLeaky
  <2> QED  BY <1>0, <1>2, <2>1, <2>2 DEF AllowLeaky, RateTypeOK
<1>3. ASSUME NEW n \in 0..MaxAsk, AllowLog(n)  PROVE RateTypeOK'
  <2>1. Given(n) \in Nat /\ (Given(n) = 0 \/ Len(Recent) + Given(n) <= Limit)
    BY <1>0, <1>3 DEF Given, Admits, AllowLog
  <2>2. stamps' \in Seq(0..now) /\ Len(stamps') = Len(Recent) + Given(n)
    BY <1>3, <2>1, LogGrants DEF AllowLog, RateExact
  <2>3. Len(Recent) <= Len(stamps) /\ Len(Recent) \in Int
    <3>1. PICK v \in 1..(Len(stamps) + 1) : Len(Recent) = Len(stamps) + 1 - v
      BY CutGrows
    <3>2. Len(stamps) \in Nat
      BY <1>0
    <3> QED  BY <3>1, <3>2
  <2>4. Len(stamps') <= Limit
    <3>1. Len(stamps) \in Nat
      BY <1>0
    <3> QED  BY <1>0, <2>1, <2>2, <2>3, <3>1
  <2>5. sum' \in Nat /\ before' \in [0..MaxTime -> 0..sum']
    BY <1>3, <1>g, <2>1 DEF AllowLog
  <2>6. UNCHANGED <<kind, now, level, last, fixed>>
    BY <1>3 DEF AllowLog
  <2> HIDE <1>3
  <2> QED  BY <1>0, <2>2, <2>4, <2>5, <2>6 DEF RateTypeOK
<1>4. ASSUME AllowCounter  PROVE RateTypeOK'
  <2>1. Given(1) \in Nat
    BY DEF Given
  <2>2. sum' \in Nat /\ before' \in [0..MaxTime -> 0..sum']
    BY <1>4, <1>g, <2>1 DEF AllowCounter
  <2>3. WindowsExact(fixed)'
    BY <1>4, CounterGrants DEF RateExact, AllowCounter
  <2>4. fixed' \in [start : 0..now', current : 0..Limit, previous : 0..Limit]
    BY <2>3 DEF WindowsExact
  <2>5. UNCHANGED <<kind, now, level, last, stamps>>
    BY <1>4 DEF AllowCounter
  <2> QED  BY <1>0, <2>2, <2>4, <2>5 DEF RateTypeOK
<1>5. ASSUME RateTick  PROVE RateTypeOK'
  <2>1. now' \in 0..MaxTime /\ now' = now + 1 /\ sum' = sum
    BY <1>0, <1>5 DEF RateTick
  <2>2. stamps' \in Seq(0..now')
    <3>1. stamps' = stamps /\ 0..now \subseteq 0..now'
      BY <1>0, <1>5, <2>1 DEF RateTick
    <3>2. stamps \in Seq(0..now')
      BY <1>0, <3>1, SeqWidens
    <3> QED  BY <3>1, <3>2
  <2>3. before' \in [0..MaxTime -> 0..sum']
    BY <1>0, <1>5 DEF RateTick
  <2>4. UNCHANGED <<kind, level, last, stamps, fixed>>
    BY <1>5 DEF RateTick
  <2>5. /\ last' \in 0..now' /\ fixed'.start \in 0..now' /\ now' \in 0..MaxTime
        /\ sum' \in Nat /\ Len(stamps') <= Limit
    BY <1>0, <2>1, <2>4
  <2>6. {fixed'.current, fixed'.previous} \subseteq 0..Limit /\ kind' \in Kinds /\ level' \in 0..(Burst * Unit)
    BY <1>0, <2>4
  <2> QED  BY <2>2, <2>3, <2>5, <2>6 DEF RateTypeOK
<1> QED  BY <1>1, <1>2, <1>3, <1>4, <1>5 DEF RateNext

LEMMA RateExactNext == ASSUME RateTypeOK, RateExact, RateNext PROVE RateExact'
<1>0. /\ fixed \in [start : Nat, current : Nat, previous : Nat]
      /\ kind \in {"token", "leaky"} => BucketExact
      /\ kind = "log" => LogExact
      /\ kind = "counter" => WindowsExact(fixed)
      /\ kind \in Kinds
  BY DEF RateExact, RateTypeOK
<1>r. /\ now \in Nat /\ last \in 0..now /\ Rate \in Nat /\ Unit \in Nat /\ Burst \in Nat
      /\ level \in 0..(Burst * Unit) /\ Limit \in Nat
  BY RateAssumption DEF RateTypeOK
<1>1. ASSUME NEW n \in 0..MaxAsk, AllowTokens(n)  PROVE RateExact'
  <2> DEFINE g == Given(n)  full == Space + Rate * (now - last)
  <2>1. Granted(g) /\ UNCHANGED <<now, before>> /\ last' = now /\ g \in Nat
    BY <1>1, BucketTyped DEF AllowTokens
  <2>2. kind = "token" /\ kind' = kind /\ fixed' = fixed
    BY <1>1 DEF AllowTokens
  <2>3. Space' = (IF full > Burst * Unit THEN Burst * Unit ELSE full) - g * Unit
    BY <1>1, <2>2 DEF AllowTokens, Space, Refilled
  <2>4. BucketExact
    BY <1>0, <2>2
  <2> HIDE DEF full, g
  <2>5. BucketExact'
    BY <2>1, <2>3, <2>4, BucketGrants DEF full
  <2> QED  BY <1>0, <2>2, <2>5 DEF RateExact
<1>2. ASSUME NEW n \in 0..MaxAsk, AllowLeaky(n)  PROVE RateExact'
  <2> DEFINE g == Given(n)  full == Space + Rate * (now - last)
  <2>1. Granted(g) /\ UNCHANGED <<now, before>> /\ last' = now /\ g \in Nat
    BY <1>2, BucketTyped DEF AllowLeaky
  <2>2. kind = "leaky" /\ kind' = kind /\ fixed' = fixed /\ level' = Leaked + g * Unit
    BY <1>2 DEF AllowLeaky
  <2>3. Space' = (IF full > Burst * Unit THEN Burst * Unit ELSE full) - g * Unit
    <3> DEFINE B == Burst * Unit  d == Rate * (now - last)  u == g * Unit
    <3>1. B \in Nat /\ d \in Int /\ u \in Nat /\ level \in Int
      BY <1>r, <2>1, Products
    <3>2. Space = B - level /\ Space' = B - level' /\ full = Space + d
      BY <2>2 DEF Space
    <3>3. level' = (IF level - d < 0 THEN 0 ELSE level - d) + u
      BY <2>2 DEF Leaked
    <3> HIDE DEF B, d, u, full
    <3>4. Space' = (IF full > B THEN B ELSE full) - u
      BY <3>1, <3>2, <3>3
    <3> QED  BY <3>4 DEF B, u
  <2>4. BucketExact
    BY <1>0, <2>2
  <2> HIDE DEF full, g
  <2>5. BucketExact'
    BY <2>1, <2>3, <2>4, BucketGrants DEF full
  <2> QED  BY <1>0, <2>2, <2>5 DEF RateExact
<1>3. ASSUME NEW n \in 0..MaxAsk, AllowLog(n)  PROVE RateExact'
  <2>1. Given(n) \in Nat /\ kind = "log" /\ kind' = kind /\ fixed' = fixed
    BY <1>3, BucketTyped DEF AllowLog
  <2>2. LogExact'
    BY <1>0, <1>3, <2>1, LogGrants DEF AllowLog
  <2> QED  BY <1>0, <2>1, <2>2 DEF RateExact
<1>4. ASSUME AllowCounter  PROVE RateExact'
  <2>1. kind = "counter" /\ kind' = kind /\ WindowsExact(fixed)'
    BY <1>0, <1>4, CounterGrants DEF AllowCounter
  <2>2. fixed' \in [start : 0..now', current : 0..Limit, previous : 0..Limit] /\ now' = now
    BY <1>4, <2>1 DEF WindowsExact, AllowCounter
  <2>3. fixed' \in [start : Nat, current : Nat, previous : Nat]
    BY <1>r, <2>2
  <2> QED  BY <2>1, <2>3 DEF RateExact
<1>5. ASSUME RateTick  PROVE RateExact'
  <2>1. kind' = kind /\ fixed' = fixed
    BY <1>5 DEF RateTick
  <2>2. /\ kind \in {"token", "leaky"} => BucketExact'
        /\ kind = "log" => LogExact'
        /\ kind = "counter" => WindowsExact(fixed)'
    BY <1>0, <1>5, BucketTicks, LogTicks, CounterTicks
  <2> QED  BY <1>0, <2>1, <2>2 DEF RateExact
<1> QED  BY <1>1, <1>2, <1>3, <1>4, <1>5 DEF RateNext

LEMMA RateInvariant == RateInit /\ [][RateNext]_rateVars => []RateInv
<1>1. RateInit => RateInv
  <2> SUFFICES ASSUME RateInit PROVE RateInv
    OBVIOUS
  <2>0. /\ Burst \in Nat /\ Unit \in Nat /\ Burst * Unit \in Nat /\ Rate \in Nat /\ Limit \in Nat
        /\ MaxTime \in Nat /\ Window \in Nat \ {0} /\ Rate * 0 = 0 /\ 0 * Unit = 0
    BY RateAssumption, Products
  <2>1. /\ now = 0 /\ last = 0 /\ sum = 0 /\ before = [t \in 0..MaxTime |-> 0] /\ Since(0) = 0
        /\ kind \in Kinds /\ level \in 0..(Burst * Unit) /\ stamps = << >>
        /\ fixed = [start |-> 0, current |-> 0, previous |-> 0]
    BY <2>0 DEF RateInit, Since
  <2>2. RateTypeOK
    <3>1. stamps \in Seq(0..now) /\ Len(stamps) = 0
      BY <2>1
    <3> QED  BY <2>0, <2>1, <3>1 DEF RateTypeOK
  <2>3. BucketExact \/ kind \notin {"token", "leaky"}
    <3>1. Space = Burst * Unit \/ kind \notin {"token", "leaky"}
      BY <2>0 DEF RateInit, Space
    <3>2. (Balance(0) = Space /\ Worth(0, last) = Burst * Unit) \/ kind \notin {"token", "leaky"}
      BY <2>0, <2>1, <3>1 DEF Balance, Worth
    <3> QED  BY <2>0, <2>1, <3>1, <3>2 DEF BucketExact
  <2>4. LogExact
    <3>1. Len(stamps) = 0
      BY <2>1
    <3> QED  BY <2>0, <2>1, <3>1 DEF LogExact
  <2>5. WindowsExact(fixed)
    BY <2>0, <2>1 DEF WindowsExact
  <2> QED  BY <2>1, <2>2, <2>3, <2>4, <2>5 DEF RateInv, RateExact
<1>2. RateInv /\ [RateNext]_rateVars => RateInv'
  <2>1. RateInv /\ RateNext => RateInv'
    BY RateTypeNext, RateExactNext DEF RateInv
  <2>2. RateInv /\ UNCHANGED rateVars => RateInv'
    BY DEF rateVars, RateInv, RateTypeOK, RateExact, BucketExact, LogExact, WindowsExact, Since,
           Balance, Worth, Space
  <2> QED  BY <2>1, <2>2
<1> QED  BY <1>1, <1>2, PTL

\* What has been granted fits what the time allows, in a bucket that has been exact.
LEMMA BucketFits ==
    ASSUME RateTypeOK, BucketExact, kind \in {"token", "leaky"}, NEW s \in 0..now
    PROVE  Since(s) * Unit <= Burst * Unit + Rate * (now - s)
<1> DEFINE B == Burst * Unit  R(a) == Rate * a  u == Since(s) * Unit
<1>0. /\ now \in Nat /\ last \in 0..now /\ Rate \in Nat /\ Unit \in Nat /\ Burst \in Nat
      /\ Space \in Nat /\ B \in Nat
  <2>1. now \in Nat /\ last \in 0..now /\ Rate \in Nat /\ Unit \in Nat /\ Burst \in Nat
    BY RateAssumption DEF RateTypeOK
  <2>2. B \in Nat
    BY <2>1, Products
  <2>3. level \in 0..B
    BY DEF RateTypeOK
  <2> HIDE DEF B
  <2>4. Space \in Nat
    BY <2>2, <2>3 DEF Space, B
  <2> QED  BY <2>1, <2>2, <2>4 DEF B
<1>1. R(now - s) \in Nat /\ u \in Nat /\ 0 * Unit = 0
  BY <1>0, SinceTyped, Products
<1>2. CASE s \in 0..last
  <2>1. now - s = (last - s) + (now - last) /\ last - s \in Nat /\ now - last \in Nat
    BY <1>0, <1>2
  <2>2. R(now - s) = R(last - s) + R(now - last) /\ R(last - s) \in Nat /\ R(now - last) \in Nat
    BY <1>0, <2>1, Products
  <2>3. u + Space <= B + R(last - s)
    BY <1>2 DEF BucketExact, Balance, Worth
  <2> HIDE DEF B, R, u
  <2>4. u <= B + R(now - s)
    BY <1>0, <1>1, <2>2, <2>3
  <2> QED  BY <2>4 DEF B, R, u
<1>3. CASE s \in (last + 1)..now
  <2>1. u = 0
    BY <1>0, <1>3 DEF BucketExact
  <2> HIDE DEF B, R, u
  <2>2. u <= B + R(now - s)
    BY <1>0, <1>1, <2>1
  <2> QED  BY <2>2 DEF B, R, u
<1> QED  BY <1>0, <1>2, <1>3

\* A bucket that has not the room for n requests would break the bound by granting them.
LEMMA BucketRefuses ==
    ASSUME RateTypeOK, BucketExact, kind \in {"token", "leaky"}, NEW n \in 0..MaxAsk, ~Admits(n)
    PROVE  \E s \in 0..now : ~((Since(s) + n) * Unit <= Burst * Unit + Rate * (now - s))
<1> DEFINE B == Burst * Unit  R(a) == Rate * a  U(a) == a * Unit  full == Space + R(now - last)
<1>0. /\ now \in Nat /\ last \in 0..now /\ Rate \in Nat /\ Unit \in Nat /\ Burst \in Nat /\ n \in Nat
      /\ level \in Int /\ B \in Int
  BY RateAssumption, Products DEF RateTypeOK
<1>r. R(now - last) \in Int /\ U(n) \in Int /\ Space \in Int /\ R(0) = 0 /\ U(0) = 0
  BY <1>0, Products DEF Space
<1>1. U(n) > IF full > B THEN B ELSE full
  <2>1. CASE kind = "token"
    <3>1. ~(Refilled >= U(n)) /\ Space = level
      BY <2>1 DEF Admits, Space
    <3>2. Refilled = IF full > B THEN B ELSE full
      BY <3>1 DEF Refilled
    <3> HIDE DEF full, B, R, U
    <3> QED  BY <1>0, <1>r, <3>1, <3>2 DEF full
  <2>2. CASE kind = "leaky"
    <3>1. ~(Leaked + U(n) <= B) /\ Space = B - level
      BY <2>2 DEF Admits, Space
    <3>2. Leaked = IF level - R(now - last) < 0 THEN 0 ELSE level - R(now - last)
      BY DEF Leaked
    <3> HIDE DEF B, R, U
    <3> QED  BY <1>0, <1>r, <3>1, <3>2
  <2> QED  BY <2>1, <2>2
<1>2. ASSUME NEW s \in 0..now
      PROVE  U(Since(s) + n) = U(Since(s)) + U(n) /\ U(Since(s)) \in Int /\ R(now - s) \in Int
             /\ R(now - s) = R(last - s) + R(now - last) /\ R(last - s) \in Int
  <2>1. now - s = (last - s) + (now - last) /\ last - s \in Int /\ now - last \in Int /\ now - s \in Int
    BY <1>0
  <2> QED  BY <1>0, <2>1, SinceTyped, Products
<1>3. PICK s \in 0..last : U(Since(s)) + Space = B + R(last - s)
  BY DEF BucketExact, Balance, Worth
<1>4. (\A t \in (last + 1)..now : Since(t) = 0) /\ \A t \in 0..last : U(Since(t)) + Space <= B + R(last - t)
  BY DEF BucketExact, Balance, Worth
<1> SUFFICES \E t \in 0..now : ~(U(Since(t) + n) <= B + R(now - t))
  OBVIOUS
<1> HIDE DEF B, R, U
<1>5. CASE ~(full > B)
  <2>1. s \in 0..now
    BY <1>0
  <2>2. U(Since(s) + n) = U(Since(s)) + U(n) /\ U(Since(s)) \in Int /\ R(now - s) \in Int
        /\ R(now - s) = R(last - s) + R(now - last) /\ R(last - s) \in Int
    BY <1>2, <2>1
  <2>3. ~(U(Since(s) + n) <= B + R(now - s))
    BY <1>0, <1>r, <1>1, <1>3, <1>5, <2>2
  <2> QED  BY <2>1, <2>3
<1>6. CASE full > B
  <2>1. Since(now) = 0
    <3>1. CASE last = now
      <4>1. now - last = 0 /\ last - last = 0 /\ last \in 0..now /\ last \in 0..last
        BY <1>0, <3>1
      <4>2. U(Since(last)) + Space <= B + R(0) /\ full = Space + R(0) /\ U(Since(last)) \in Int
        BY <1>2, <1>4, <4>1
      <4>3. U(Since(last)) >= 0
        BY <1>0, <4>1, SinceTyped, Products DEF U
      <4> QED  BY <1>0, <1>r, <1>6, <4>2, <4>3
    <3>2. CASE last # now
      BY <1>0, <1>4, <3>2
    <3> QED  BY <3>1, <3>2
  <2>2. now - now = 0 /\ now \in 0..now /\ Since(now) + n = n
    BY <1>0, <2>1
  <2>3. ~(U(Since(now) + n) <= B + R(now - now))
    BY <1>0, <1>r, <1>1, <1>6, <2>2
  <2> QED  BY <2>2, <2>3
<1> QED  BY <1>5, <1>6

LEMMA BoundHolds == ASSUME RateInv PROVE RateBounded
<1>0. RateTypeOK /\ RateExact /\ kind \in Kinds
  BY DEF RateInv, RateTypeOK
<1>1. ASSUME NEW s \in 0..now  PROVE Fits(s, Since(s))
  <2>0. Since(s) \in Nat /\ now \in Nat /\ s \in Int /\ Limit \in Nat /\ Len(stamps) <= Limit /\ Len(stamps) \in Nat
    <3>1. stamps \in Seq(0..now) /\ Len(stamps) <= Limit /\ Limit \in Nat
      BY <1>0, RateAssumption DEF RateTypeOK
    <3>2. Len(stamps) \in Nat
      BY <3>1
    <3> QED  BY <1>0, <3>1, <3>2, SinceTyped
  <2>1. CASE kind \in {"token", "leaky"}
    BY <1>0, <2>1, BucketFits DEF Fits, RateExact
  <2>2. CASE kind = "log"
    <3>1. now - s < Window => Since(s) <= Len(stamps)
      BY <1>0, <2>2 DEF RateExact, LogExact
    <3> QED  BY <2>0, <2>2, <3>1 DEF Fits
  <2>3. CASE kind = "counter"
    <3>1. /\ fixed \in [start : 0..now, current : 0..Limit, previous : 0..Limit]
          /\ s >= fixed.start - Window => Since(s) <= fixed.current + fixed.previous
      BY <1>0, <2>3 DEF RateExact, WindowsExact
    <3>2. now - s < Window => Since(s) <= 2 * Limit
      <4>1. /\ fixed.start \in 0..now /\ fixed.current \in 0..Limit /\ fixed.previous \in 0..Limit
            /\ Window \in Nat
        BY <3>1, RateAssumption
      <4>2. now - s < Window => s >= fixed.start - Window
        BY <2>0, <4>1
      <4>3. fixed.current + fixed.previous <= 2 * Limit /\ fixed.current + fixed.previous \in Nat
        BY <2>0, <4>1
      <4> QED  BY <2>0, <3>1, <4>2, <4>3
    <3> QED  BY <2>3, <3>2 DEF Fits
  <2> QED  BY <1>0, <2>1, <2>2, <2>3 DEF Kinds
<1> QED  BY <1>1 DEF RateBounded

LEMMA RefusalsHold == ASSUME RateInv PROVE RefusalsDue
<1>0. RateTypeOK /\ RateExact /\ kind \in Kinds
  BY DEF RateInv, RateTypeOK
<1>r. now \in Nat /\ Window \in Nat \ {0} /\ Limit \in Nat /\ MaxAsk \in Nat
  BY <1>0, RateAssumption DEF RateTypeOK
<1>1. ASSUME NEW n \in 0..MaxAsk, ~Admits(n), kind \in {"token", "leaky"}
      PROVE  \E s \in 0..now : ~Fits(s, Since(s) + n)
  <2>1. PICK s \in 0..now : ~((Since(s) + n) * Unit <= Burst * Unit + Rate * (now - s))
    BY <1>0, <1>1, BucketRefuses DEF RateExact
  <2>2. ~Fits(s, Since(s) + n)
    BY <1>1, <2>1 DEF Fits
  <2> QED  BY <2>2
<1>2. ASSUME NEW n \in 0..MaxAsk, ~Admits(n), kind = "log"
      PROVE  \E s \in 0..now : ~Fits(s, Since(s) + n)
  <2>1. ~(Len(Recent) + n <= Limit)
    BY <1>2 DEF Admits
  <2>2. PICK v \in 1..(Len(stamps) + 1) :
             /\ Recent = SubSeq(stamps, v, Len(stamps))
             /\ v <= Len(stamps) => stamps[v] > now - Window
    BY <1>0, CutsOld
  <2>3. Len(Recent) = Len(stamps) + 1 - v
    <3>1. stamps \in Seq(0..now) /\ 0 \in 0..now
      BY <1>0, <1>r DEF RateTypeOK
    <3>2. Len(Cut(stamps, v)) = Len(stamps) + 1 - v
      BY SMTT(30), <3>1, CutParts
    <3> QED  BY <2>2, <3>2 DEF Cut
  <2> DEFINE s == IF now < Window THEN 0 ELSE now - Window + 1
  <2>4. s \in 0..now /\ now - s < Window /\ \A x \in Nat : x > now - Window => x >= s
    BY <1>r
  <2> HIDE DEF s
  <2>5. /\ Since(s) \in Nat /\ Len(stamps) \in Nat /\ \A i \in 1..Len(stamps) : stamps[i] \in Nat
        /\ \A i \in 1..Len(stamps) : stamps[i] >= s => i > Len(stamps) - Since(s)
    <3>1. stamps \in Seq(Nat)
      <4>1. stamps \in Seq(0..now) /\ 0..now \subseteq Nat
        BY <1>0, <1>r DEF RateTypeOK
      <4> QED  BY <4>1, SeqWidens
    <3>2. Len(stamps) \in Nat /\ \A i \in 1..Len(stamps) : stamps[i] \in Nat
      BY <3>1
    <3> QED  BY <1>0, <1>2, <2>4, <3>2, SinceTyped DEF RateExact, LogExact
  <2>6. Since(s) >= Len(Recent)
    <3>1. CASE v <= Len(stamps)
      <4>1. v \in 1..Len(stamps) /\ stamps[v] > now - Window /\ stamps[v] \in Nat
        BY <2>2, <2>5, <3>1
      <4>2. stamps[v] >= s
        BY <2>4, <4>1
      <4>3. v > Len(stamps) - Since(s)
        BY <2>5, <4>1, <4>2
      <4> QED  BY <2>3, <2>5, <4>1, <4>3
    <3>2. CASE ~(v <= Len(stamps))
      BY <2>3, <2>5, <3>2
    <3> QED  BY <3>1, <3>2
  <2>7. ~(Since(s) + n <= Limit)
    BY <1>r, <2>1, <2>3, <2>5, <2>6
  <2>8. ~Fits(s, Since(s) + n)
    BY <1>2, <2>4, <2>7 DEF Fits
  <2> QED  BY <2>4, <2>8
<1>3. ASSUME NEW n \in 0..MaxAsk, ~Admits(n), kind = "counter"
      PROVE  \E s \in 0..now : now - s < 2 * Window /\ Since(s) >= Limit
  <2>1. ~(Weighted < Limit * Window)
    BY <1>3 DEF Admits
  <2>2. WindowsExact(fixed)
    BY <1>0, <1>3 DEF RateExact
  <2>3. /\ WindowsExact(Advanced) /\ now - Advanced.start < Window
        /\ Advanced \in [start : 0..now, current : 0..Limit, previous : 0..Limit]
        /\ Advanced.previous + Advanced.current >= Limit
    BY <1>0, <2>1, <2>2, WindowsAdvance, Weights
  <2> DEFINE s == IF Advanced.start < Window THEN 0 ELSE Advanced.start - Window
  <2>4. s \in 0..now /\ now - s < 2 * Window /\ (s <= Advanced.start - Window \/ s = 0)
    BY <1>r, <2>3
  <2>5. Since(s) >= Advanced.current + Advanced.previous /\ Since(s) \in Nat
    BY <1>0, <2>3, <2>4, SinceTyped DEF WindowsExact
  <2> HIDE DEF s
  <2>6. Since(s) >= Limit
    BY <1>r, <2>3, <2>5
  <2> QED  BY <2>4, <2>6
<1> QED  BY <1>0, <1>1, <1>2, <1>3 DEF RefusalsDue, Kinds

\* The types of the limiters: no bucket outgrows its burst, no log its limit, whatever is
\* asked of them (token_bucket.go:49-72, leaky_bucket.go:49-74, sliding_window.go:51-116).
THEOREM LimiterTypes == RateSpec => []RateTypeOK
<1>1. RateInv => RateTypeOK
  BY DEF RateInv
<1> QED  BY <1>1, RateInvariant, PTL DEF RateSpec

\* Every limiter is within its bound however calls and pauses follow each other, refuses
\* only what it has to, and a retry makes no more calls than it may: for every burst,
\* rate, limit and window (token_bucket.go:91-105, leaky_bucket.go:92-106,
\* sliding_window.go:96-116, 161-196; retry.go:76-110).
THEOREM CallsAreLimited == Spec => []CallsLimited
<1>1. Init => RateInit /\ RetryInit
  BY DEF Init
<1>2. [Next]_allVars => [RateNext]_rateVars /\ [RetryNext]_retryVars
  BY DEF Next, allVars, Only, InLRU, InAside, InRate, InCron, InQueue, InMap, InTTL, InRetry, InPool
<1>3. RateInv /\ RetryInv => CallsLimited
  BY BoundHolds, RefusalsHold DEF CallsLimited, RetryInv
<1> QED  BY <1>1, <1>2, <1>3, RateInvariant, RetryInvariant, PTL DEF Spec

-----------------------------------------------------------------------------
(* Cron.  The timer is set for a second that is still to come when it is set, that *)
(* matches, and before which none does; what was missed was missed because a run   *)
(* was due or going on.                                                            *)
CronAimed == cron = "timer" /\ nextRun # Zero =>
    /\ Matches(expr, nextRun) /\ first < nextRun
    /\ \A t \in fired : t < nextRun
    /\ \A t \in Seconds : second < t /\ t < nextRun => ~Matches(expr, t)

CronKept ==
    /\ ~twice /\ first <= second
    /\ cron \in {"none", "invalid"} => fired = {}
    /\ \A t \in fired : Matches(expr, t) /\ first < t /\ t <= second
    /\ cron = "timer" => Due \ fired \subseteq busy \cup {nextRun}
    /\ cron = "running" => Due \ fired \subseteq busy

CronInv == CronTypeOK /\ CronAimed /\ CronKept

LEMMA FieldsParsed ==
    ASSUME NEW f \in Fields, NEW spec \in Specs
    PROVE  ParseField(f, spec) \subseteq Values(f)
<1>1. Lowest[f] \in Nat /\ Highest[f] \in Nat
  BY CronAssumption
<1>2. CASE spec.form = "all" \/ spec.form = "step"
  BY <1>2 DEF ParseField
<1>3. CASE spec.form = "list"
  BY <1>3 DEF ParseField
<1>4. CASE spec.form = "range"
  <2>1. spec.from \in Int /\ spec.to \in Int
    BY <1>4, CronAssumption
  <2>2. ParseField(f, spec) = IF spec.from < Lowest[f] \/ spec.to > Highest[f] \/ spec.to < spec.from
                              THEN {} ELSE spec.from..spec.to
    BY <1>4 DEF ParseField
  <2> QED  BY <1>1, <2>1, <2>2 DEF Values
<1>5. spec.form \in {"all", "step", "list", "range"}
  BY CronAssumption
<1> QED  BY <1>2, <1>3, <1>4, <1>5

\* Next finds the first second that matches among those it looks at, if there is one.
LEMMA NextTimeFinds ==
    ASSUME NEW e, NEW from \in Nat, NextTime(e, from) # Zero
    PROVE  /\ NextTime(e, from) \in Search(from) /\ Matches(e, NextTime(e, from))
           /\ \A t \in Search(from) : t < NextTime(e, from) => ~Matches(e, t)
<1> DEFINE hits == {t \in Search(from) : Matches(e, t)}  n == NextTime(e, from)
<1>0. Search(from) \subseteq Nat
  BY CronAssumption DEF Search
<1>1. hits # {} /\ n = CHOOSE t \in hits : \A u \in hits : t <= u
  BY DEF NextTime
<1>2. \E t \in hits : \A u \in hits : t <= u
  <2>1. hits \subseteq Nat /\ hits # {}
    BY <1>0, <1>1
  <2> HIDE DEF hits
  <2> QED  BY <2>1, LeastNatural
<1>3. n \in hits /\ \A u \in hits : n <= u
  <2> HIDE DEF hits, n
  <2> QED  BY <1>1, <1>2
<1> HIDE DEF n
<1>4. n \in Search(from) /\ Matches(e, n)
  BY <1>3
<1>5. ASSUME NEW t \in Search(from), t < n  PROVE ~Matches(e, t)
  BY <1>0, <1>3, <1>4, <1>5
<1> QED  BY <1>4, <1>5 DEF n

LEMMA CronTypeNext == ASSUME CronTypeOK, CronNext PROVE CronTypeOK'
<1> DEFINE Parsed(e) == e \in [Fields -> SUBSET Nat] /\ \A f \in Fields : e[f] \subseteq Values(f)
<1>0. /\ second \in 0..LastSecond /\ second \in Nat /\ LastSecond \in Nat /\ Horizon \in Nat
      /\ nextRun \in 0..(second + Horizon) \cup {Zero} /\ Parsed(expr)
      /\ cron \in {"none", "timer", "running", "invalid"}
      /\ cron \in {"timer", "running"} => \A f \in Fields : expr[f] # {}
      /\ first \in 0..second /\ fired \subseteq 0..second /\ twice \in BOOLEAN
      /\ busy \subseteq 0..second
  BY CronAssumption DEF CronTypeOK
<1>n. ASSUME NEW e  PROVE NextTime(e, second) \in 0..(second + Horizon) \cup {Zero}
  <2>1. CASE NextTime(e, second) # Zero
    <3>1. NextTime(e, second) \in Search(second)
      BY <1>0, <2>1, NextTimeFinds
    <3> QED  BY <1>0, <3>1 DEF Search
  <2> QED  BY <2>1
<1>1. ASSUME NEW text \in [Fields -> Specs], ScheduleCron(text)  PROVE CronTypeOK'
  <2> DEFINE e == ParseCron(text)
  <2>1. e \in [Fields -> SUBSET Nat] /\ \A f \in Fields : e[f] \subseteq Values(f)
    <3>1. ASSUME NEW f \in Fields  PROVE Values(f) \subseteq Nat
      BY CronAssumption DEF Values
    <3>2. ASSUME NEW f \in Fields  PROVE e[f] \subseteq Values(f)
      BY FieldsParsed DEF ParseCron
    <3>3. e = [f \in Fields |-> e[f]]
      BY DEF ParseCron
    <3> HIDE DEF e
    <3>4. e \in [Fields -> SUBSET Nat]
      BY <3>1, <3>2, <3>3
    <3> QED  BY <3>2, <3>4
  <2>2. /\ UNCHANGED <<second, fired, twice, busy>>
        /\ \/ cron' = "invalid" /\ UNCHANGED <<expr, nextRun, first>>
           \/ /\ \A f \in Fields : e[f] # {}
              /\ expr' = e /\ nextRun' = NextTime(e, second) /\ cron' = "timer" /\ first' = second
    BY <1>1 DEF ScheduleCron
  <2> HIDE DEF e
  <2>3. nextRun' \in 0..(second + Horizon) \cup {Zero} /\ first' \in 0..second
    BY <1>0, <1>n, <2>2
  <2>4. Parsed(expr') /\ cron' \in {"invalid", "timer"} /\ (cron' = "timer" => \A f \in Fields : expr'[f] # {})
    BY <1>0, <2>1, <2>2
  <2> QED  BY <1>0, <2>2, <2>3, <2>4 DEF CronTypeOK, Values
<1>2. ASSUME FireCron  PROVE CronTypeOK'
  <2>1. /\ cron = "timer" /\ nextRun <= second /\ cron' = "running" /\ fired' = fired \cup ({nextRun} \ {Zero})
        /\ twice' = (twice \/ nextRun \in fired) /\ UNCHANGED <<second, expr, nextRun, first, busy>>
    BY <1>2 DEF FireCron, IsDue
  <2>2. nextRun # Zero => nextRun \in 0..second
    <3>1. nextRun # Zero => nextRun \in 0..(second + Horizon)
      BY <1>0
    <3> QED  BY <1>0, <2>1, <3>1
  <2>3. fired' \subseteq 0..second
    BY <1>0, <2>1, <2>2
  <2> QED  BY <1>0, <2>1, <2>3 DEF CronTypeOK, Values
<1>3. ASSUME CronReturns  PROVE CronTypeOK'
  BY <1>0, <1>3, <1>n DEF CronReturns, CronTypeOK, Values
<1>4. ASSUME CronTick  PROVE CronTypeOK'
  <2>1. second' = second + 1 /\ second' \in 0..LastSecond /\ UNCHANGED <<expr, nextRun, cron, first, fired, twice>>
    BY <1>0, <1>4 DEF CronTick
  <2>2. busy' \subseteq 0..second' /\ first' \in 0..second' /\ fired' \subseteq 0..second'
    BY <1>0, <1>4, <2>1 DEF CronTick
  <2>3. nextRun' \in 0..(second' + Horizon) \cup {Zero}
    BY <1>0, <2>1
  <2> QED  BY <1>0, <2>1, <2>2, <2>3 DEF CronTypeOK, Values
<1> QED  BY <1>1, <1>2, <1>3, <1>4 DEF CronNext

LEMMA CronKeptNext == ASSUME CronInv, CronNext PROVE CronAimed' /\ CronKept'
<1>0. /\ second \in Nat /\ nextRun \in Int /\ nextRun >= Zero /\ first \in 0..second /\ fired \subseteq Nat
      /\ busy \subseteq Nat /\ Zero = -1 /\ Horizon \in Nat /\ LastSecond \in Nat /\ second <= LastSecond
  BY CronAssumption DEF CronInv, CronTypeOK, Zero
<1>1. CronKept /\ CronAimed
  BY DEF CronInv
<1>2. ASSUME NEW text \in [Fields -> Specs], ScheduleCron(text)  PROVE CronAimed' /\ CronKept'
  <2>1. fired = {} /\ ~twice /\ UNCHANGED <<second, fired, twice, busy>>
    BY <1>1, <1>2 DEF ScheduleCron, CronKept
  <2>2. CASE cron' = "invalid" /\ UNCHANGED <<expr, nextRun, first>>
    BY <1>0, <2>1, <2>2 DEF CronAimed, CronKept
  <2>3. CASE expr' = ParseCron(text) /\ nextRun' = NextTime(ParseCron(text), second)
             /\ cron' = "timer" /\ first' = second
    <3>1. Due' = {}
      BY <1>0, <2>1, <2>3 DEF Due
    <3>2. CronKept'
      BY <1>0, <2>1, <2>3, <3>1 DEF CronKept
    <3>3. CronAimed'
      <4> DEFINE e == ParseCron(text)
      <4> HIDE DEF e
      <4>1. expr' = e /\ nextRun' = NextTime(e, second)
        BY <2>3 DEF e
      <4>2. ASSUME nextRun' # Zero
            PROVE  /\ nextRun' \in Search(second) /\ Matches(e, nextRun')
                   /\ \A t \in Search(second) : t < nextRun' => ~Matches(e, t)
        BY <1>0, <4>1, <4>2, NextTimeFinds
      <4>3. ASSUME nextRun' # Zero, NEW t \in Seconds, second < t, t < nextRun'
            PROVE  t \in Search(second)
        BY <1>0, <4>2, <4>3 DEF Search, Seconds
      <4>4. nextRun' \in Search(second) => second < nextRun'
        BY <1>0 DEF Search
      <4> QED  BY <2>1, <2>3, <4>1, <4>2, <4>3, <4>4 DEF CronAimed, Matches
    <3> QED  BY <3>2, <3>3
  <2> QED  BY <1>2, <2>2, <2>3 DEF ScheduleCron
<1>3. ASSUME FireCron  PROVE CronAimed' /\ CronKept'
  <2>1. /\ cron = "timer" /\ nextRun <= second /\ cron' = "running" /\ fired' = fired \cup ({nextRun} \ {Zero})
        /\ twice' = (twice \/ nextRun \in fired) /\ UNCHANGED <<second, expr, nextRun, first, busy>>
    BY <1>3 DEF FireCron, IsDue
  <2>2. nextRun \notin fired
    BY <1>0, <1>1, <2>1 DEF CronAimed
  <2>3. Due' = Due /\ Due \subseteq Nat
    BY <1>0, <2>1 DEF Due, Matches
  <2>4. Due' \ fired' \subseteq busy'
    BY <1>0, <1>1, <2>1, <2>3 DEF CronKept
  <2>5. \A t \in fired' : Matches(expr', t) /\ first' < t /\ t <= second'
    BY <1>0, <1>1, <2>1 DEF CronKept, CronAimed
  <2>6. ~twice' /\ first' <= second'
    BY <1>0, <1>1, <2>1, <2>2 DEF CronKept
  <2> QED  BY <2>1, <2>4, <2>5, <2>6 DEF CronAimed, CronKept
<1>4. ASSUME CronReturns  PROVE CronAimed' /\ CronKept'
  <2>1. /\ cron = "running" /\ nextRun' = NextTime(expr, second) /\ cron' = "timer"
        /\ UNCHANGED <<second, expr, first, fired, twice, busy>>
    BY <1>4 DEF CronReturns
  <2>2. Due' = Due
    BY <2>1 DEF Due, Matches
  <2>3. CronKept'
    BY <1>0, <1>1, <2>1, <2>2 DEF CronKept
  <2>4. ASSUME nextRun' # Zero
        PROVE  /\ nextRun' \in Search(second) /\ Matches(expr, nextRun')
               /\ \A t \in Search(second) : t < nextRun' => ~Matches(expr, t)
    BY <1>0, <2>1, <2>4, NextTimeFinds
  <2>5. ASSUME nextRun' # Zero, NEW t \in Seconds, second < t, t < nextRun'
        PROVE  t \in Search(second)
    BY <1>0, <2>4, <2>5 DEF Search, Seconds
  <2>6. nextRun' \in Search(second) => nextRun' \in Nat /\ second < nextRun'
    BY <1>0 DEF Search
  <2>7. \A t \in fired : t <= second /\ t \in Nat
    BY <1>0, <1>1, <2>1 DEF CronKept
  <2>8. ASSUME nextRun' # Zero  PROVE first < nextRun' /\ \A t \in fired : t < nextRun'
    BY <1>0, <2>4, <2>6, <2>7, <2>8
  <2>9. CronAimed'
    BY <2>1, <2>4, <2>5, <2>8 DEF CronAimed, Matches
  <2> QED  BY <2>3, <2>9
<1>5. ASSUME CronTick  PROVE CronAimed' /\ CronKept'
  <2>1. /\ second' = second + 1 /\ UNCHANGED <<expr, nextRun, cron, first, fired, twice>>
        /\ busy' = IF cron = "running" \/ (cron = "timer" /\ IsDue) THEN busy \cup {second + 1} ELSE busy
        /\ second < LastSecond
    BY <1>5 DEF CronTick
  <2>2. Due' \subseteq Due \cup {second + 1}
    BY <1>0, <2>1 DEF Due, Matches
  <2>3. CronAimed'
    BY <1>0, <1>1, <2>1 DEF CronAimed, Matches, Seconds
  <2>4. ASSUME cron = "timer"  PROVE Due' \ fired' \subseteq busy' \cup {nextRun'}
    <3>1. CASE IsDue
      BY <1>1, <2>1, <2>2, <2>4, <3>1 DEF CronKept
    <3>2. CASE ~IsDue
      <4>1. nextRun # Zero /\ second < nextRun
        BY <1>0, <3>2 DEF IsDue
      <4>2. second + 1 \in Seconds
        BY <1>0, <2>1 DEF Seconds
      <4>3. second + 1 = nextRun \/ ~Matches(expr, second + 1)
        BY <1>0, <1>1, <2>4, <4>1, <4>2 DEF CronAimed
      <4>4. \A t \in Due' : Matches(expr, t)
        BY <2>1 DEF Due, Matches
      <4> QED  BY <1>1, <2>1, <2>2, <2>4, <4>3, <4>4 DEF CronKept
    <3> QED  BY <3>1, <3>2
  <2>5. ASSUME cron = "running"  PROVE Due' \ fired' \subseteq busy'
    BY <1>1, <2>1, <2>2, <2>5 DEF CronKept
  <2>6. \A t \in fired' : Matches(expr, t)' /\ first' < t /\ t <= second'
    BY <1>0, <1>1, <2>1 DEF CronKept, Matches
  <2>7. ~twice' /\ first' <= second' /\ (cron' \in {"none", "invalid"} => fired' = {})
    BY <1>0, <1>1, <2>1 DEF CronKept
  <2>8. CronKept'
    BY <2>1, <2>4, <2>5, <2>6, <2>7 DEF CronKept
  <2> QED  BY <2>3, <2>8
<1> QED  BY <1>2, <1>3, <1>4, <1>5 DEF CronNext

LEMMA CronInvariant == CronSpec => []CronInv
<1>1. CronInit => CronInv
  <2> SUFFICES ASSUME CronInit PROVE CronInv
    OBVIOUS
  <2>1. expr \in [Fields -> SUBSET Nat] /\ \A f \in Fields : expr[f] \subseteq Values(f)
    BY DEF CronInit
  <2>2. CronTypeOK
    <3>1. LastSecond \in Nat
      BY CronAssumption
    <3>2. second = 0 /\ first = 0 /\ nextRun = Zero /\ fired = {} /\ busy = {} /\ cron = "none" /\ twice = FALSE
      BY DEF CronInit
    <3>3. second \in 0..LastSecond /\ first \in 0..second
      BY <3>1, <3>2
    <3> QED  BY <2>1, <3>2, <3>3 DEF CronTypeOK
  <2>3. CronAimed /\ CronKept
    BY DEF CronInit, CronAimed, CronKept
  <2> QED  BY <2>2, <2>3 DEF CronInv
<1>2. CronInv /\ [CronNext]_cronVars => CronInv'
  <2>1. CronInv /\ CronNext => CronInv'
    BY CronTypeNext, CronKeptNext DEF CronInv
  <2>2. CronInv /\ UNCHANGED cronVars => CronInv'
    BY DEF cronVars, CronInv, CronTypeOK, Values, CronAimed, CronKept, Due, Matches
  <2> QED  BY <2>1, <2>2
<1> QED  BY <1>1, <1>2, PTL DEF CronSpec

\* The types of a cron task: whatever an expression says, the parser leaves in each field
\* only values that this field can have, and at least one in every field of a task that
\* was scheduled; and the next run is never further ahead of the clock than Next looks
\* (cron.go:96-186).
THEOREM CronTypes == CronSpec => []CronTypeOK
<1>1. CronInv => CronTypeOK
  BY DEF CronInv
<1> QED  BY <1>1, CronInvariant, PTL

\* For every expression, calendar and horizon: a cron task runs at most once for a second
\* that matches and for no other, and misses one only because a run was due or going on
\* when it began (scheduler.go:223-253).
THEOREM CronIsExact == CronSpec => []CronExact
<1>1. CronInv => CronExact
  BY DEF CronInv, CronKept, CronExact
<1> QED  BY <1>1, CronInvariant, PTL

-----------------------------------------------------------------------------
(* LRUCache.  The nodes of the map, in some order s, are what the pointers link: of *)
(* the n places of s each node has one, and a pointer that leaves s is nil.         *)
At(s, n, i) == IF i \in 1..n THEN s[i] ELSE Nil
Chained(s, n, l, N) ==
    /\ n \in Nat /\ s \in [1..n -> N]
    /\ \A i, j \in 1..n : s[i] = s[j] => i = j
    /\ \A k \in N : \E i \in 1..n : s[i] = k
    /\ l.head = At(s, n, 1) /\ l.tail = At(s, n, n)
    /\ \A i \in 1..n : l.next[s[i]] = At(s, n, i + 1) /\ l.prev[s[i]] = At(s, n, i - 1)

Linked(n, l, N) == \E s : Chained(s, n, l, N)
LRUInv == LRUTypeOK /\ IsFiniteSet(nodes) /\ Linked(Cardinality(nodes), list, nodes)

ListTyped(l) == l \in [head : Keys \cup {Nil}, tail : Keys \cup {Nil},
                       prev : [Keys -> Keys \cup {Nil}], next : [Keys -> Keys \cup {Nil}]]

LEMMA PointTyped ==
    ASSUME NEW f \in [Keys -> Keys \cup {Nil}], NEW from \in Keys \cup {Nil}, NEW to \in Keys \cup {Nil}
    PROVE  /\ Point(f, from, to) \in [Keys -> Keys \cup {Nil}]
           /\ \A k \in Keys : Point(f, from, to)[k] = IF k = from THEN to ELSE f[k]
<1>1. CASE from = Nil
  BY <1>1, LRUCacheAssumption DEF Point
<1>2. CASE from # Nil
  <2>1. from \in Keys /\ Point(f, from, to) = [f EXCEPT ![from] = to]
    BY <1>2 DEF Point
  <2> QED  BY <2>1
<1> QED  BY <1>1, <1>2

\* The places of a chain after one was taken out, and after one was put before all.
LinkedWithout(s, n, m) == [i \in 1..(n - 1) |-> IF i < m THEN s[i] ELSE s[i + 1]]
Before(s, n, k) == [i \in 1..(n + 1) |-> IF i = 1 THEN k ELSE s[i - 1]]

LEMMA ChainedWithout ==
    ASSUME NEW l, ListTyped(l), NEW N, N \subseteq Keys, NEW n, NEW s, Chained(s, n, l, N),
           NEW m \in 1..n
    PROVE  /\ ListTyped(RemoveNode(l, s[m]))
           /\ Chained(LinkedWithout(s, n, m), n - 1, RemoveNode(l, s[m]), N \ {s[m]})
<1> DEFINE k == s[m]  r == RemoveNode(l, k)  t == LinkedWithout(s, n, m)
<1>0. /\ n \in Nat /\ s \in [1..n -> N] /\ (\A i, j \in 1..n : s[i] = s[j] => i = j)
      /\ (\A j \in N : \E i \in 1..n : s[i] = j) /\ Nil \notin Keys
      /\ l.head = At(s, n, 1) /\ l.tail = At(s, n, n)
      /\ \A i \in 1..n : l.next[s[i]] = At(s, n, i + 1) /\ l.prev[s[i]] = At(s, n, i - 1)
  BY LRUCacheAssumption DEF Chained
<1>1. /\ l.head \in Keys \cup {Nil} /\ l.tail \in Keys \cup {Nil}
      /\ l.prev \in [Keys -> Keys \cup {Nil}] /\ l.next \in [Keys -> Keys \cup {Nil}]
      /\ k \in Keys
  BY <1>0 DEF ListTyped
<1>2. /\ r.head = (IF l.prev[k] = Nil THEN l.next[k] ELSE l.head)
      /\ r.tail = (IF l.next[k] = Nil THEN l.prev[k] ELSE l.tail)
      /\ r.prev = Point(l.prev, l.next[k], l.prev[k])
      /\ r.next = Point(l.next, l.prev[k], l.next[k])
      /\ r = [head |-> r.head, tail |-> r.tail, prev |-> r.prev, next |-> r.next]
  BY DEF RemoveNode
<1>3. l.prev[k] = At(s, n, m - 1) /\ l.next[k] = At(s, n, m + 1)
  BY <1>0
<1>4. l.prev[k] \in Keys \cup {Nil} /\ l.next[k] \in Keys \cup {Nil}
  BY <1>1
<1>5. /\ r.prev \in [Keys -> Keys \cup {Nil}] /\ r.next \in [Keys -> Keys \cup {Nil}]
      /\ \A j \in Keys : r.prev[j] = IF j = l.next[k] THEN l.prev[k] ELSE l.prev[j]
      /\ \A j \in Keys : r.next[j] = IF j = l.prev[k] THEN l.next[k] ELSE l.next[j]
  <2> DEFINE f == l.prev  g == l.next  a == l.prev[k]  b == l.next[k]  p == r.prev  q == r.next
  <2>1. /\ f \in [Keys -> Keys \cup {Nil}] /\ g \in [Keys -> Keys \cup {Nil}]
        /\ a \in Keys \cup {Nil} /\ b \in Keys \cup {Nil}
        /\ p = Point(f, b, a) /\ q = Point(g, a, b)
    BY <1>1, <1>2, <1>4
  <2>2. /\ p \in [Keys -> Keys \cup {Nil}] /\ q \in [Keys -> Keys \cup {Nil}]
        /\ \A j \in Keys : p[j] = IF j = b THEN a ELSE f[j]
        /\ \A j \in Keys : q[j] = IF j = a THEN b ELSE g[j]
    <3> HIDE DEF f, g, a, b, p, q
    <3>0. f \in [Keys -> Keys \cup {Nil}] /\ a \in Keys \cup {Nil} /\ b \in Keys \cup {Nil}
      BY <2>1
    <3>1. p \in [Keys -> Keys \cup {Nil}] /\ \A j \in Keys : p[j] = IF j = b THEN a ELSE f[j]
      <4>1. /\ Point(f, b, a) \in [Keys -> Keys \cup {Nil}]
            /\ \A j \in Keys : Point(f, b, a)[j] = IF j = b THEN a ELSE f[j]
        BY <3>0, PointTyped
      <4>2. p = Point(f, b, a)
        BY <2>1
      <4> HIDE <2>1
      <4> QED  BY <4>1, <4>2
    <3>2. q \in [Keys -> Keys \cup {Nil}] /\ \A j \in Keys : q[j] = IF j = a THEN b ELSE g[j]
      BY <2>1, PointTyped
    <3> QED  BY <3>1, <3>2
  <2> QED  BY <2>2
<1>6. ListTyped(r)
  BY <1>1, <1>2, <1>4, <1>5 DEF ListTyped
<1> HIDE DEF r
<1>7. /\ n - 1 \in Nat /\ m \in Nat
      /\ \A i \in 1..(n - 1) : /\ t[i] = (IF i < m THEN s[i] ELSE s[i + 1])
                               /\ i \in 1..n /\ i + 1 \in 1..n
      /\ t \in [1..(n - 1) -> N \ {k}]
  BY <1>0 DEF LinkedWithout
\* Where the place i of the shorter chain was in the longer one.
<1> DEFINE up(i) == IF i < m THEN i ELSE i + 1
<1>u. \A i \in 1..(n - 1) :
        /\ up(i) \in 1..n /\ up(i) # m /\ t[i] = s[up(i)]
        /\ i < m => up(i) = i
        /\ ~(i < m) => up(i) = i + 1
  <2> HIDE DEF t
  <2> QED  BY <1>7
<1> HIDE DEF up
<1>n. n \in Int /\ m \in Int /\ 1 <= m /\ m <= n
  BY <1>0
<1>8. \A i, j \in 1..(n - 1) : t[i] = t[j] => i = j
  <2> HIDE DEF t
  <2> SUFFICES ASSUME NEW i \in 1..(n - 1), NEW j \in 1..(n - 1), t[i] = t[j]  PROVE i = j
    OBVIOUS
  <2>1. up(i) = up(j)
    BY <1>0, <1>u
  <2> QED  BY <1>7, <1>u, <2>1
<1>9. \A j \in N \ {k} : \E i \in 1..(n - 1) : t[i] = j
  <2> SUFFICES ASSUME NEW j \in N \ {k}  PROVE \E i \in 1..(n - 1) : t[i] = j
    OBVIOUS
  <2>1. PICK i \in 1..n : s[i] = j
    BY <1>0
  <2> HIDE DEF t
  <2>2. CASE i < m
    <3>1. i \in 1..(n - 1)
      BY <1>0, <1>7, <2>2
    <3> QED  BY <1>7, <2>1, <2>2, <3>1
  <2>3. CASE i > m
    <3>1. i - 1 \in 1..(n - 1) /\ ~(i - 1 < m) /\ (i - 1) + 1 = i
      BY <1>0, <1>7, <2>3
    <3> QED  BY <1>7, <2>1, <3>1
  <2> QED  BY <1>7, <2>1, <2>2, <2>3
<1>10. \A i \in 0..n : At(t, n - 1, i) = (IF i \in 1..(n - 1) THEN s[up(i)] ELSE Nil)
  <2> HIDE DEF t
  <2> QED  BY <1>u DEF At
<1>11. r.head = At(t, n - 1, 1) /\ r.tail = At(t, n - 1, n - 1)
  <2> HIDE DEF t
  <2>1. \A i \in 1..n : s[i] # Nil
    BY <1>0
  <2>2. r.head = At(t, n - 1, 1)
    <3>1. CASE m = 1
      <4>1. r.head = At(s, n, 2)
        BY <1>2, <1>3, <3>1 DEF At
      <4> QED  BY <1>0, <1>u, <1>10, <3>1, <4>1 DEF At
    <3>2. CASE m # 1
      <4>1. r.head = s[1] /\ 1 \in 1..(n - 1) /\ 1 < m
        BY <1>0, <1>2, <1>3, <1>7, <2>1, <3>2 DEF At
      <4> QED  BY <1>u, <1>10, <4>1
    <3> QED  BY <3>1, <3>2
  <2>3. r.tail = At(t, n - 1, n - 1)
    <3>0. n - 1 \in 0..n
      BY <1>0, <1>7
    <3>1. CASE m = n
      <4>1. r.tail = At(s, n, n - 1)
        BY <1>0, <1>2, <1>3, <3>1 DEF At
      <4> QED  BY <1>0, <1>u, <1>10, <3>0, <3>1, <4>1 DEF At
    <3>2. CASE m # n
      <4>1. r.tail = s[n] /\ n - 1 \in 1..(n - 1) /\ ~(n - 1 < m) /\ (n - 1) + 1 = n
        BY <1>0, <1>2, <1>3, <1>7, <2>1, <3>2 DEF At
      <4> QED  BY <1>u, <1>10, <3>0, <4>1
    <3> QED  BY <3>1, <3>2
  <2> QED  BY <2>2, <2>3
<1>12. ASSUME NEW i \in 1..(n - 1)
       PROVE  r.next[t[i]] = At(t, n - 1, i + 1) /\ r.prev[t[i]] = At(t, n - 1, i - 1)
  <2> HIDE DEF t
  <2>1. /\ t[i] = s[up(i)] /\ up(i) \in 1..n /\ up(i) # m /\ t[i] \in Keys /\ i + 1 \in 0..n /\ i - 1 \in 0..n
        /\ \A j \in 1..n : s[j] # Nil /\ s[j] \in Keys
    <3>1. \A j \in 1..n : s[j] # Nil /\ s[j] \in Keys
      BY <1>0
    <3>2. t[i] = s[up(i)] /\ up(i) \in 1..n /\ up(i) # m
      BY <1>u
    <3>3. i + 1 \in 0..n /\ i - 1 \in 0..n
      BY <1>0, <1>7
    <3> QED  BY <3>1, <3>2, <3>3
  <2>2. l.next[t[i]] = At(s, n, up(i) + 1) /\ l.prev[t[i]] = At(s, n, up(i) - 1)
    BY <1>0, <2>1
  <2>3. t[i] = l.prev[k] <=> up(i) = m - 1
    <3>1. \A j \in 1..n : s[j] = t[i] => j = up(i)
      BY <1>0, <2>1
    <3>2. CASE m - 1 \in 1..n
      <4>1. l.prev[k] = s[m - 1]
        BY <1>3, <3>2 DEF At
      <4> QED  BY <2>1, <3>1, <3>2, <4>1
    <3>3. CASE m - 1 \notin 1..n
      <4>1. l.prev[k] = Nil
        BY <1>3, <3>3 DEF At
      <4> QED  BY <1>0, <2>1, <3>3, <4>1
    <3> QED  BY <3>2, <3>3
  <2>4. t[i] = l.next[k] <=> up(i) = m + 1
    <3>1. \A j \in 1..n : s[j] = t[i] => j = up(i)
      BY <1>0, <2>1
    <3>2. CASE m + 1 \in 1..n
      <4>1. l.next[k] = s[m + 1]
        BY <1>3, <3>2 DEF At
      <4> QED  BY <2>1, <3>1, <3>2, <4>1
    <3>3. CASE m + 1 \notin 1..n
      <4>1. l.next[k] = Nil
        BY <1>3, <3>3 DEF At
      <4> QED  BY <1>0, <2>1, <3>3, <4>1
    <3> QED  BY <3>2, <3>3
  <2>5. r.next[t[i]] = At(t, n - 1, i + 1)
    <3>1. r.next[t[i]] = IF up(i) = m - 1 THEN At(s, n, m + 1) ELSE At(s, n, up(i) + 1)
      BY <1>3, <1>5, <2>1, <2>2, <2>3
    <3>2. At(t, n - 1, i + 1) = IF i + 1 \in 1..(n - 1) THEN s[up(i + 1)] ELSE Nil
      BY <1>10, <2>1
    <3>3. CASE i < m - 1
      <4>1. i + 1 \in 1..(n - 1) /\ i + 1 < m /\ i < m /\ i + 1 \in 1..n
        BY <1>n, <3>3
      <4> QED  BY <1>7, <1>u, <3>1, <3>2, <3>3, <4>1 DEF At
    <3>4. CASE i = m - 1
      <4>1. i < m /\ i + 1 = m /\ ~(i + 1 < m)
        BY <1>n, <3>4
      <4>2. up(i) = m - 1 /\ r.next[t[i]] = At(s, n, m + 1)
        BY <1>u, <3>1, <3>4, <4>1
      <4>3. m \in 1..(n - 1) => up(m) = m + 1
        BY <1>u, <1>n
      <4>4. m \in 1..(n - 1) <=> m + 1 \in 1..n
        BY <1>n
      <4>5. At(t, n - 1, i + 1) = At(s, n, m + 1)
        BY <3>2, <4>1, <4>3, <4>4 DEF At
      <4> QED  BY <4>2, <4>5
    <3>5. CASE i >= m
      <4>1. ~(i < m) /\ ~(i + 1 < m) /\ up(i) = i + 1 /\ up(i) # m - 1
        BY <1>7, <1>u, <3>5
      <4>2. r.next[t[i]] = At(s, n, i + 2)
        BY <1>7, <3>1, <4>1
      <4>3. i + 1 \in 1..(n - 1) <=> i + 2 \in 1..n
        BY <1>n, <1>7
      <4>4. i + 1 \in 1..(n - 1) => up(i + 1) = i + 2
        BY <1>7, <1>u, <4>1
      <4> QED  BY <3>2, <4>2, <4>3, <4>4 DEF At
    <3> QED  BY <1>7, <3>3, <3>4, <3>5
  <2>6. r.prev[t[i]] = At(t, n - 1, i - 1)
    <3>1. r.prev[t[i]] = IF up(i) = m + 1 THEN At(s, n, m - 1) ELSE At(s, n, up(i) - 1)
      BY <1>3, <1>5, <2>1, <2>2, <2>4
    <3> QED  BY <1>7, <1>u, <1>10, <2>1, <3>1 DEF At
  <2> QED  BY <2>5, <2>6
<1>13. Chained(t, n - 1, r, N \ {k})
  <2> HIDE DEF t
  <2> QED  BY <1>7, <1>8, <1>9, <1>11, <1>12 DEF Chained
<1> QED  BY <1>6, <1>13 DEF r

LEMMA ChainedBefore ==
    ASSUME NEW l, ListTyped(l), NEW N, N \subseteq Keys, NEW n, NEW s, Chained(s, n, l, N),
           NEW k \in Keys \ N
    PROVE  /\ ListTyped(AddToFront(l, k))
           /\ Chained(Before(s, n, k), n + 1, AddToFront(l, k), N \cup {k})
<1> DEFINE r == AddToFront(l, k)  t == Before(s, n, k)
<1>0. /\ n \in Nat /\ s \in [1..n -> N] /\ (\A i, j \in 1..n : s[i] = s[j] => i = j)
      /\ (\A j \in N : \E i \in 1..n : s[i] = j) /\ Nil \notin Keys
      /\ l.head = At(s, n, 1) /\ l.tail = At(s, n, n)
      /\ \A i \in 1..n : l.next[s[i]] = At(s, n, i + 1) /\ l.prev[s[i]] = At(s, n, i - 1)
  BY LRUCacheAssumption DEF Chained
<1>1. /\ l.head \in Keys \cup {Nil} /\ l.tail \in Keys \cup {Nil}
      /\ l.prev \in [Keys -> Keys \cup {Nil}] /\ l.next \in [Keys -> Keys \cup {Nil}]
  BY <1>0 DEF ListTyped
<1>2. /\ r.head = k /\ r.tail = (IF l.tail = Nil THEN k ELSE l.tail)
      /\ r.prev = Point(Point(l.prev, k, Nil), l.head, k)
      /\ r.next = Point(l.next, k, l.head)
      /\ r = [head |-> r.head, tail |-> r.tail, prev |-> r.prev, next |-> r.next]
  BY DEF AddToFront
<1>3. /\ r.prev \in [Keys -> Keys \cup {Nil}] /\ r.next \in [Keys -> Keys \cup {Nil}]
      /\ \A j \in Keys : r.prev[j] = IF j = l.head THEN k ELSE IF j = k THEN Nil ELSE l.prev[j]
      /\ \A j \in Keys : r.next[j] = IF j = k THEN l.head ELSE l.next[j]
  <2>1. /\ Point(l.prev, k, Nil) \in [Keys -> Keys \cup {Nil}]
        /\ \A j \in Keys : Point(l.prev, k, Nil)[j] = IF j = k THEN Nil ELSE l.prev[j]
    BY <1>1, PointTyped
  <2>2. /\ r.prev \in [Keys -> Keys \cup {Nil}]
        /\ \A j \in Keys : r.prev[j] = IF j = l.head THEN k ELSE Point(l.prev, k, Nil)[j]
    <3> DEFINE f == Point(l.prev, k, Nil)
    <3>1. r.prev = Point(f, l.head, k) /\ f \in [Keys -> Keys \cup {Nil}]
      BY <1>2, <2>1
    <3> HIDE DEF f, r
    <3>2. /\ r.prev \in [Keys -> Keys \cup {Nil}]
          /\ \A j \in Keys : r.prev[j] = IF j = l.head THEN k ELSE f[j]
      BY <1>1, <3>1, PointTyped
    <3> QED  BY <3>2 DEF f
  <2>3. /\ r.next \in [Keys -> Keys \cup {Nil}]
        /\ \A j \in Keys : r.next[j] = IF j = k THEN l.head ELSE l.next[j]
    BY <1>1, <1>2, PointTyped
  <2> QED  BY <2>1, <2>2, <2>3
<1>4. ListTyped(r)
  BY <1>1, <1>2, <1>3 DEF ListTyped
<1> HIDE DEF r
<1>5. /\ n + 1 \in Nat
      /\ \A i \in 1..(n + 1) : t[i] = (IF i = 1 THEN k ELSE s[i - 1]) /\ (i # 1 => i - 1 \in 1..n)
      /\ t \in [1..(n + 1) -> N \cup {k}]
  BY <1>0 DEF Before
<1>6. \A i, j \in 1..(n + 1) : t[i] = t[j] => i = j
  <2> HIDE DEF t
  <2> SUFFICES ASSUME NEW i \in 1..(n + 1), NEW j \in 1..(n + 1), t[i] = t[j]  PROVE i = j
    OBVIOUS
  <2>1. i # 1 /\ j # 1 => i - 1 = j - 1
    BY <1>0, <1>5
  <2>2. i = 1 <=> j = 1
    BY <1>0, <1>5
  <2> QED  BY <1>5, <2>1, <2>2
<1>7. \A j \in N \cup {k} : \E i \in 1..(n + 1) : t[i] = j
  <2> HIDE DEF t
  <2> SUFFICES ASSUME NEW j \in N \cup {k}  PROVE \E i \in 1..(n + 1) : t[i] = j
    OBVIOUS
  <2>1. CASE j = k
    BY <1>0, <1>5, <2>1
  <2>2. CASE j \in N
    <3>1. PICK i \in 1..n : s[i] = j
      BY <1>0, <2>2
    <3>2. i + 1 \in 1..(n + 1) /\ i + 1 # 1 /\ (i + 1) - 1 = i
      BY <1>0
    <3> QED  BY <1>5, <3>1, <3>2
  <2> QED  BY <2>1, <2>2
<1>8. \A i \in 0..(n + 2) : At(t, n + 1, i) = IF i = 1 THEN k ELSE At(s, n, i - 1)
  <2> HIDE DEF t
  <2> SUFFICES ASSUME NEW i \in 0..(n + 2)
               PROVE  At(t, n + 1, i) = IF i = 1 THEN k ELSE At(s, n, i - 1)
    OBVIOUS
  <2>1. CASE i = 1
    BY <1>0, <1>5, <2>1 DEF At
  <2>2. CASE i # 1 /\ i \in 1..(n + 1)
    <3>1. i - 1 \in 1..n /\ t[i] = s[i - 1]
      BY <1>0, <1>5, <2>2
    <3> QED  BY <2>2, <3>1 DEF At
  <2>3. CASE i \notin 1..(n + 1)
    <3>1. i - 1 \notin 1..n /\ i # 1
      BY <1>0, <2>3
    <3> QED  BY <2>3, <3>1 DEF At
  <2> QED  BY <2>1, <2>2, <2>3
<1>9. \A i \in 1..n : s[i] # Nil /\ s[i] # k /\ s[i] \in Keys
  BY <1>0
<1>10. r.head = At(t, n + 1, 1) /\ r.tail = At(t, n + 1, n + 1)
  <2> HIDE DEF t
  <2>1. l.tail = Nil <=> n = 0
    BY <1>0, <1>9 DEF At
  <2> QED  BY SMTT(30), <1>0, <1>2, <1>8, <2>1 DEF At
<1>11. ASSUME NEW i \in 1..(n + 1)
       PROVE  r.next[t[i]] = At(t, n + 1, i + 1) /\ r.prev[t[i]] = At(t, n + 1, i - 1)
  <2> HIDE DEF t
  <2>0. i + 1 \in 0..(n + 2) /\ i - 1 \in 0..(n + 2) /\ At(s, n, 0) = Nil
    BY <1>0 DEF At
  <2>1. CASE i = 1
    <3>1. t[i] = k /\ l.head # k
      BY <1>0, <1>5, <1>9, <2>1 DEF At
    <3> QED  BY <1>0, <1>3, <1>8, <2>0, <2>1, <3>1 DEF At
  <2>2. CASE i # 1
    <3>1. t[i] = s[i - 1] /\ i - 1 \in 1..n /\ t[i] # k /\ t[i] \in Keys
      BY <1>5, <1>9, <2>2
    <3>2. l.next[t[i]] = At(s, n, i) /\ l.prev[t[i]] = At(s, n, i - 2)
      BY <1>0, <3>1
    <3>3. t[i] = l.head <=> i = 2
      BY <1>0, <1>9, <3>1 DEF At
    <3>4. r.next[t[i]] = At(t, n + 1, i + 1)
      BY <1>0, <1>3, <1>8, <2>0, <2>2, <3>1, <3>2
    <3>5. r.prev[t[i]] = At(t, n + 1, i - 1)
      BY <1>0, <1>3, <1>8, <2>0, <2>2, <3>1, <3>2, <3>3
    <3> QED  BY <3>4, <3>5
  <2> QED  BY <2>1, <2>2
<1>12. Chained(t, n + 1, r, N \cup {k})
  <2> HIDE DEF t
  <2> QED  BY <1>5, <1>6, <1>7, <1>10, <1>11 DEF Chained
<1> QED  BY <1>4, <1>12 DEF r

\* What the code does to the list keeps it linked.
LEMMA LinkedByRemoveNode ==
    ASSUME NEW l, ListTyped(l), NEW N, N \subseteq Keys, NEW n, Linked(n, l, N), NEW k \in N
    PROVE  ListTyped(RemoveNode(l, k)) /\ Linked(n - 1, RemoveNode(l, k), N \ {k})
<1>1. PICK s : Chained(s, n, l, N)
  BY DEF Linked
<1>2. PICK m \in 1..n : s[m] = k
  BY <1>1 DEF Chained
<1>3. ListTyped(RemoveNode(l, k)) /\ Chained(LinkedWithout(s, n, m), n - 1, RemoveNode(l, k), N \ {k})
  BY <1>1, <1>2, ChainedWithout
<1> QED  BY <1>3 DEF Linked

LEMMA LinkedByAddToFront ==
    ASSUME NEW l, ListTyped(l), NEW N, N \subseteq Keys, NEW n, Linked(n, l, N), NEW k \in Keys \ N
    PROVE  ListTyped(AddToFront(l, k)) /\ Linked(n + 1, AddToFront(l, k), N \cup {k})
<1>1. PICK s : Chained(s, n, l, N)
  BY DEF Linked
<1>2. ListTyped(AddToFront(l, k)) /\ Chained(Before(s, n, k), n + 1, AddToFront(l, k), N \cup {k})
  BY <1>1, ChainedBefore
<1> QED  BY <1>2 DEF Linked

LEMMA LinkedByMoveToFront ==
    ASSUME NEW l, ListTyped(l), NEW N, N \subseteq Keys, NEW n, Linked(n, l, N), NEW k \in N
    PROVE  ListTyped(MoveToFront(l, k)) /\ Linked(n, MoveToFront(l, k), N)
<1>1. CASE k = l.head
  BY <1>1 DEF MoveToFront
<1>2. CASE k # l.head
  <2> DEFINE r == RemoveNode(l, k)
  <2>1. ListTyped(r) /\ Linked(n - 1, r, N \ {k}) /\ N \ {k} \subseteq Keys /\ k \in Keys \ (N \ {k})
    BY LinkedByRemoveNode
  <2>2. MoveToFront(l, k) = AddToFront(r, k)
    BY <1>2 DEF MoveToFront
  <2>3. (N \ {k}) \cup {k} = N /\ n \in Nat /\ (n - 1) + 1 = n
    <3>1. n \in Nat
      BY DEF Linked, Chained
    <3> QED  BY <3>1
  <2>4. ListTyped(AddToFront(r, k)) /\ Linked((n - 1) + 1, AddToFront(r, k), (N \ {k}) \cup {k})
    <3> HIDE DEF r
    <3> QED  BY <2>1, LinkedByAddToFront
  <2> QED  BY <2>2, <2>3, <2>4
<1> QED  BY <1>1, <1>2

\* The two ends of a linked list are nodes, unless there are none.
LEMMA LinkedEnds ==
    ASSUME NEW l, NEW N, N \subseteq Keys, NEW n, Linked(n, l, N)
    PROVE  n \in Nat /\ (n # 0 => l.head \in N /\ l.tail \in N /\ l.tail # Nil)
<1>1. PICK s : Chained(s, n, l, N)
  BY DEF Linked
<1> QED  BY <1>1, LRUCacheAssumption DEF Chained, At

-----------------------------------------------------------------------------
LEMMA LRUInvInit == LRUInit => LRUInv
<1> SUFFICES ASSUME LRUInit  PROVE LRUInv
  OBVIOUS
<1>1. nodes = {} /\ list = NoList /\ mortal = {} /\ expired = {}
  BY DEF LRUInit
<1>2. IsFiniteSet(nodes) /\ Cardinality(nodes) = 0
  BY <1>1, FS_EmptySet
<1>3. LRUTypeOK
  BY <1>1, <1>2, LRUCacheAssumption DEF LRUTypeOK, NoList
<1>4. Chained([i \in 1..0 |-> Nil], 0, list, nodes)
  BY <1>1 DEF Chained, At, NoList
<1> QED  BY <1>2, <1>3, <1>4 DEF LRUInv, Linked

LEMMA LRUInvKept == LRUInv /\ [LRUNext]_lruVars => LRUInv'
<1> SUFFICES ASSUME LRUInv, [LRUNext]_lruVars  PROVE LRUInv'
  OBVIOUS
<1> DEFINE n == Cardinality(nodes)
<1>0. /\ nodes \subseteq Keys /\ n <= Capacity /\ ListTyped(list) /\ expired \subseteq mortal
      /\ mortal \subseteq nodes /\ IsFiniteSet(nodes) /\ Linked(n, list, nodes) /\ n \in Nat
  BY FS_CardinalityType DEF LRUInv, LRUTypeOK, ListTyped
<1> DEFINE Kept == /\ nodes' \subseteq Keys /\ Cardinality(nodes') <= Capacity /\ ListTyped(list')
                   /\ IsFiniteSet(nodes') /\ Linked(Cardinality(nodes'), list', nodes')
           Marked == expired' \subseteq mortal' /\ mortal' \subseteq nodes'
<1>1. ASSUME Kept, Marked
      PROVE  LRUInv'
  BY <1>1 DEF LRUInv, LRUTypeOK, ListTyped
<1>2. ASSUME nodes' = nodes, list' = list
      PROVE  Kept
  BY <1>0, <1>2
<1>3. ASSUME NEW k \in nodes, nodes' = nodes, list' = MoveToFront(list, k)
      PROVE  Kept
  BY <1>0, <1>3, LinkedByMoveToFront
<1>4. ASSUME NEW k \in nodes
      PROVE  /\ nodes \ {k} \subseteq Keys /\ IsFiniteSet(nodes \ {k}) /\ Cardinality(nodes \ {k}) = n - 1
             /\ ListTyped(RemoveNode(list, k))
             /\ Linked(Cardinality(nodes \ {k}), RemoveNode(list, k), nodes \ {k})
  <2>1. IsFiniteSet(nodes \ {k}) /\ Cardinality(nodes \ {k}) = n - 1
    BY <1>0, <1>4, FS_RemoveElement
  <2>2. ListTyped(RemoveNode(list, k)) /\ Linked(n - 1, RemoveNode(list, k), nodes \ {k})
    BY <1>0, <1>4, LinkedByRemoveNode
  <2> QED  BY <1>0, <2>1, <2>2
<1>5. ASSUME NEW k \in nodes, nodes' = nodes \ {k}, list' = RemoveNode(list, k)
      PROVE  Kept
  <2>1. Cardinality(nodes') <= Capacity
    <3>1. Cardinality(nodes \ {k}) = n - 1
      BY <1>4, <1>5
    <3>2. Capacity \in Nat /\ n - 1 <= Capacity
      BY <1>0, LRUCacheAssumption
    <3> QED  BY <1>5, <3>1, <3>2
  <2> QED  BY <1>4, <1>5, <2>1
<1>6. ASSUME NEW k \in Keys, LRUGet(k)
      PROVE  LRUInv'
  <2>1. CASE k \in expired
    BY <1>0, <1>1, <1>5, <1>6, <2>1 DEF LRUGet
  <2>2. CASE k \notin expired
    BY <1>0, <1>1, <1>3, <1>6, <2>2 DEF LRUGet
  <2> QED  BY <2>1, <2>2
<1>7. ASSUME NEW k \in Keys, NEW ttl \in BOOLEAN, LRUUpdate(k, ttl)
      PROVE  LRUInv'
  <2>1. Kept
    BY <1>3, <1>7 DEF LRUUpdate
  <2>2. Marked
    BY <1>0, <1>7 DEF LRUUpdate
  <2> HIDE DEF Kept, Marked
  <2> QED  BY <1>1, <2>1, <2>2
<1>8. ASSUME NEW k \in Keys, NEW ttl \in BOOLEAN, LRUInsert(k, ttl)
      PROVE  LRUInv'
  <2> DEFINE out == IF NoRoom /\ list.tail # Nil THEN {list.tail} ELSE {}
             rest == IF out = {} THEN list ELSE RemoveNode(list, list.tail)
  <2>1. /\ k \notin nodes /\ nodes' = (nodes \ out) \cup {k} /\ list' = AddToFront(rest, k)
        /\ mortal' = (mortal \ out) \cup (IF ttl THEN {k} ELSE {}) /\ expired' = expired \ out
    BY <1>8 DEF LRUInsert
  <2>2. Marked
    BY <1>0, <2>1
  <2>3. /\ nodes \ out \subseteq Keys /\ IsFiniteSet(nodes \ out) /\ Cardinality(nodes \ out) < Capacity
        /\ ListTyped(rest) /\ Linked(Cardinality(nodes \ out), rest, nodes \ out)
    <3>1. CASE NoRoom
      <4>1. n # 0
        BY <1>0, <3>1, LRUCacheAssumption DEF NoRoom
      <4>2. list.tail \in nodes /\ list.tail # Nil
        BY <1>0, <4>1, LinkedEnds
      <4>3. out = {list.tail} /\ rest = RemoveNode(list, list.tail)
        BY <3>1, <4>2
      <4> HIDE DEF out, rest
      <4> QED  BY <1>0, <1>4, <4>2, <4>3, LRUCacheAssumption
    <3>2. CASE ~NoRoom
      <4>1. out = {} /\ rest = list /\ nodes \ out = nodes
        BY <3>2
      <4>2. Cardinality(nodes) < Capacity
        BY <1>0, <3>2, LRUCacheAssumption DEF NoRoom
      <4> HIDE DEF out, rest
      <4> QED  BY <1>0, <4>1, <4>2
    <3> QED  BY <3>1, <3>2
  <2> HIDE DEF out, rest
  <2>4. IsFiniteSet(nodes') /\ Cardinality(nodes') = Cardinality(nodes \ out) + 1
    BY <2>1, <2>3, FS_AddElement
  <2>5. ListTyped(list') /\ Linked(Cardinality(nodes \ out) + 1, list', nodes')
    BY <2>1, <2>3, LinkedByAddToFront
  <2>6. Cardinality(nodes') <= Capacity
    BY <2>3, <2>4, FS_CardinalityType, LRUCacheAssumption
  <2>7. Kept
    BY <2>1, <2>3, <2>4, <2>5, <2>6
  <2> HIDE DEF Kept, Marked
  <2> QED  BY <1>1, <2>2, <2>7
<1>9. ASSUME NEW k \in Keys, LRUDelete(k)
      PROVE  LRUInv'
  BY <1>0, <1>1, <1>5, <1>9 DEF LRUDelete
<1>10. ASSUME LRUClear
       PROVE  LRUInv'
  <2>1. nodes' = {} /\ Marked /\ list' = [list EXCEPT !.head = Nil, !.tail = Nil]
    BY <1>10 DEF LRUClear
  <2>2. IsFiniteSet(nodes') /\ Cardinality(nodes') = 0
    BY <2>1, FS_EmptySet
  <2>3. ListTyped(list') /\ list'.head = Nil /\ list'.tail = Nil
    BY <1>0, <2>1 DEF ListTyped
  <2>4. Chained([i \in 1..0 |-> Nil], 0, list', nodes')
    BY <2>1, <2>3 DEF Chained, At
  <2>5. Kept
    BY <2>1, <2>2, <2>3, <2>4, LRUCacheAssumption DEF Linked
  <2> HIDE DEF Kept, Marked
  <2> QED  BY <1>1, <2>1, <2>5
<1>11. ASSUME NEW k \in Keys, LRUExpire(k)
       PROVE  LRUInv'
  BY <1>0, <1>1, <1>2, <1>11 DEF LRUExpire
<1>12. CASE UNCHANGED lruVars
  BY <1>0, <1>1, <1>2, <1>12 DEF lruVars
<1> QED  BY <1>6, <1>7, <1>8, <1>9, <1>10, <1>11, <1>12 DEF LRUNext

-----------------------------------------------------------------------------
\* A walk of n nodes from start follows whichever function g goes on by the pointers of
\* step: the recursive definition of the walk has one solution.
Along(start, step, n) ==
    LET at[i \in Nat] == IF i = 0 THEN start
                         ELSE IF at[i - 1] = Nil THEN Nil ELSE step[at[i - 1]]
    IN [i \in 1..n |-> at[i - 1]]

\* The first n values of a function on the naturals, as a sequence.
Started(g, n) == [i \in 1..n |-> g[i - 1]]

LEMMA WalkFollows ==
    ASSUME NEW start, NEW step, NEW n, NEW g,
           \A i \in Nat : g[i] = IF i = 0 THEN start
                               ELSE IF g[i - 1] = Nil THEN Nil ELSE step[g[i - 1]]
    PROVE  Along(start, step, n) = Started(g, n)
<1> DEFINE Next1(a) == [i \in Nat |-> IF i = 0 THEN start
                                      ELSE IF a[i - 1] = Nil THEN Nil ELSE step[a[i - 1]]]
           at == CHOOSE a : a = Next1(a)
<1>1. at = Next1(at)
  <2> DEFINE h == [i \in Nat |-> g[i]]
  <2>1. h = Next1(h)
    <3>1. \A i \in Nat : i # 0 => i - 1 \in Nat /\ h[i - 1] = g[i - 1]
      OBVIOUS
    <3>2. \A i \in Nat : g[i] = IF i = 0 THEN start
                              ELSE IF h[i - 1] = Nil THEN Nil ELSE step[h[i - 1]]
      BY <3>1
    <3> QED  BY <3>2
  <2> HIDE DEF Next1, h
  <2> QED  BY <2>1
<1>2. ASSUME NEW i \in Nat
      PROVE  at[i] = g[i]
  <2> DEFINE Differing == {j \in Nat : at[j] # g[j]}
  <2> SUFFICES ASSUME Differing # {}  PROVE FALSE
    BY <1>2
  <2>1. PICK j \in Differing : \A m \in Differing : j <= m
    BY LeastNatural
  <2>2. j # 0
    <3>1. at[0] = start /\ g[0] = start
      <4> HIDE DEF at
      <4> QED  BY <1>1
    <3> QED  BY <2>1, <3>1
  <2>3. j - 1 \in Nat /\ at[j - 1] = g[j - 1]
    BY <2>1, <2>2
  <2>4. at[j] = g[j]
    <3> HIDE DEF at, Differing
    <3>1. j \in Nat /\ j # 0
      BY <2>1, <2>2 DEF Differing
    <3>2. /\ at[j] = (IF at[j - 1] = Nil THEN Nil ELSE step[at[j - 1]])
          /\ g[j] = (IF g[j - 1] = Nil THEN Nil ELSE step[g[j - 1]])
      BY <1>1, <3>1
    <3> QED  BY <2>3, <3>2
  <2> QED  BY <2>1, <2>4
<1>3. Along(start, step, n) = [i \in 1..n |-> at[i - 1]]
  BY DEF Along
<1>4. \A i \in 1..n : i - 1 \in Nat /\ at[i - 1] = g[i - 1]
  <2> HIDE DEF at
  <2> QED  BY <1>2
<1> HIDE DEF at
<1> QED  BY <1>3, <1>4 DEF Started

\* The walk forward is the order in which the pointers link the nodes, the walk backward
\* its reverse.
IsOrder(s) == Chained(s, Cardinality(nodes), list, nodes)
LEMMA WalksTell ==
    ASSUME LRUInv, NEW s, IsOrder(s)
    PROVE  LET n == Cardinality(nodes) IN
           /\ Forward = s
           /\ \A i \in 1..n : Forward[i] = s[i] /\ Backward[i] = s[n + 1 - i] /\ n + 1 - i \in 1..n
<1> DEFINE n == Cardinality(nodes)
<1>1. Chained(s, n, list, nodes)
  BY DEF IsOrder
<1>2. /\ n \in Nat /\ s \in [1..n -> nodes] /\ (\A k \in nodes : \E i \in 1..n : s[i] = k)
      /\ list.head = At(s, n, 1) /\ list.tail = At(s, n, n)
      /\ \A i \in 1..n : list.next[s[i]] = At(s, n, i + 1) /\ list.prev[s[i]] = At(s, n, i - 1)
  BY <1>1 DEF Chained
<1>3. \A i \in 1..n : s[i] \in nodes /\ s[i] # Nil
  BY <1>2, LRUCacheAssumption DEF LRUInv, LRUTypeOK
<1> HIDE DEF n
<1> DEFINE f == [i \in Nat |-> At(s, n, i + 1)]  b == [i \in Nat |-> At(s, n, n - i)]
<1>4. Forward = [i \in 1..n |-> f[i - 1]]
  <2>1. \A i \in Nat : f[i] = IF i = 0 THEN list.head
                              ELSE IF f[i - 1] = Nil THEN Nil ELSE list.next[f[i - 1]]
    <3>1. ASSUME NEW i \in Nat
          PROVE  At(s, n, i + 1) = IF i = 0 THEN list.head
                                   ELSE IF f[i - 1] = Nil THEN Nil ELSE list.next[f[i - 1]]
      <4>1. CASE i = 0
        BY <1>2, <4>1
      <4>2. CASE i \in 1..n
        <5>1. i - 1 \in Nat /\ (i - 1) + 1 = i /\ i # 0
          BY <1>2, <4>2
        <5>2. f[i - 1] = s[i]
          BY <4>2, <5>1 DEF At
        <5> QED  BY <1>2, <1>3, <4>2, <5>1, <5>2
      <4>3. CASE i > n
        <5>1. i - 1 \in Nat /\ (i - 1) + 1 = i /\ i # 0 /\ i \notin 1..n /\ i + 1 \notin 1..n
          BY <1>2, <4>3
        <5>2. f[i - 1] = Nil /\ At(s, n, i + 1) = Nil
          BY <5>1 DEF At
        <5> QED  BY <5>1, <5>2
      <4> QED  BY <1>2, <4>1, <4>2, <4>3
    <3> QED  BY <3>1
  <2> HIDE DEF f
  <2>2. Along(list.head, list.next, n) = Started(f, n)
    BY <2>1, WalkFollows
  <2>3. Forward = Along(list.head, list.next, n)
    BY DEF Forward, Walk, Along, n
  <2> QED  BY <2>2, <2>3 DEF Started
<1>5. \A i \in 1..n : Backward[i] = b[i - 1]
  <2>1. \A i \in Nat : b[i] = IF i = 0 THEN list.tail
                              ELSE IF b[i - 1] = Nil THEN Nil ELSE list.prev[b[i - 1]]
    <3>1. ASSUME NEW i \in Nat
          PROVE  At(s, n, n - i) = IF i = 0 THEN list.tail
                                   ELSE IF b[i - 1] = Nil THEN Nil ELSE list.prev[b[i - 1]]
      <4>1. CASE i = 0
        BY <1>2, <4>1
      <4>2. CASE i \in 1..n
        <5>1. i - 1 \in Nat /\ n - (i - 1) \in 1..n /\ (n - (i - 1)) - 1 = n - i /\ i # 0
          BY <1>2, <4>2
        <5>2. b[i - 1] = s[n - (i - 1)]
          BY <5>1 DEF At
        <5> QED  BY <1>2, <1>3, <5>1, <5>2
      <4>3. CASE i > n
        <5>1. i - 1 \in Nat /\ i # 0 /\ n - i \notin 1..n
          BY <1>2, <4>3
        <5>2. At(s, n, n - i) = Nil
          BY <5>1 DEF At
        <5>3. b[i - 1] = Nil \/ i - 1 = 0
          BY <1>2, <4>3, <5>1 DEF At
        <5>4. b[i - 1] = Nil
          BY <1>2, <4>3, <5>1 DEF At
        <5> QED  BY <5>1, <5>2, <5>4
      <4> QED  BY <1>2, <4>1, <4>2, <4>3
    <3> QED  BY <3>1
  <2> HIDE DEF b
  <2>2. Along(list.tail, list.prev, n) = Started(b, n)
    BY <2>1, WalkFollows
  <2>3. Backward = Along(list.tail, list.prev, n)
    BY DEF Backward, Walk, Along, n
  <2> QED  BY <2>2, <2>3 DEF Started
<1>6. ASSUME NEW i \in 1..n
      PROVE  Forward[i] = s[i] /\ Backward[i] = s[n + 1 - i] /\ n + 1 - i \in 1..n
  <2>1. i - 1 \in Nat /\ (i - 1) + 1 = i /\ n - (i - 1) = n + 1 - i /\ n + 1 - i \in 1..n
    BY <1>2
  <2>2. f[i - 1] = At(s, n, i) /\ b[i - 1] = At(s, n, n + 1 - i)
    BY <2>1
  <2>3. Forward[i] = f[i - 1] /\ Backward[i] = b[i - 1]
    BY <1>4, <1>5
  <2> HIDE DEF f, b
  <2>4. Forward[i] = At(s, n, i) /\ Backward[i] = At(s, n, n + 1 - i)
    BY <2>2, <2>3
  <2> QED  BY <2>1, <2>4 DEF At
<1> HIDE DEF f, b
<1>7. Forward = s
  <2>1. \A i \in 1..n : f[i - 1] = s[i]
    BY <1>4, <1>6
  <2> QED  BY <1>2, <1>4, <2>1
<1> QED  BY <1>6, <1>7 DEF n

LEMMA ListIsMap == LRUInv => ListMatchesMap
<1> SUFFICES ASSUME LRUInv  PROVE ListMatchesMap
  OBVIOUS
<1> DEFINE n == Cardinality(nodes)
<1>1. PICK s : IsOrder(s)
  BY DEF LRUInv, Linked, IsOrder
<1>2. /\ n \in Nat /\ s \in [1..n -> nodes] /\ (\A k \in nodes : \E i \in 1..n : s[i] = k)
      /\ list.head = At(s, n, 1) /\ list.tail = At(s, n, n)
      /\ \A i \in 1..n : list.next[s[i]] = At(s, n, i + 1) /\ list.prev[s[i]] = At(s, n, i - 1)
  BY <1>1 DEF Chained, IsOrder
<1>6. \A i \in 1..n : Forward[i] = s[i] /\ Backward[i] = s[n + 1 - i] /\ n + 1 - i \in 1..n
  BY <1>1, WalksTell
<1> HIDE DEF n
<1>7. {Forward[i] : i \in 1..n} = nodes
  <2>1. {Forward[i] : i \in 1..n} = {s[i] : i \in 1..n}
    BY <1>6
  <2>2. {s[i] : i \in 1..n} = nodes
    BY <1>2
  <2> QED  BY <2>1, <2>2
<1>8. \A i \in 1..n : Backward[i] = Forward[n + 1 - i]
  BY <1>6
<1>9. IF n = 0 THEN list.head = Nil /\ list.tail = Nil
      ELSE list.next[Forward[n]] = Nil /\ list.prev[Forward[1]] = Nil
  <2>1. CASE n = 0
    BY <1>2, <2>1 DEF At
  <2>2. CASE n # 0
    <3>1. 1 \in 1..n /\ n \in 1..n /\ n + 1 \notin 1..n /\ 1 - 1 \notin 1..n
      BY <1>2, <2>2
    <3>2. Forward[n] = s[n] /\ Forward[1] = s[1]
      BY <1>6, <3>1
    <3>3. list.next[s[n]] = At(s, n, n + 1) /\ list.prev[s[1]] = At(s, n, 1 - 1)
      BY <1>2, <3>1
    <3> QED  BY <2>2, <3>1, <3>2, <3>3 DEF At
  <2> QED  BY <2>1, <2>2
<1> QED  BY <1>7, <1>8, <1>9 DEF ListMatchesMap, n

\* No more keys than the capacity are kept, and the pointers stay nodes or nil
\* (lru.go:78-109, 182-232).
THEOREM LRUTypes == LRUSpec => []LRUTypeOK
<1>1. LRUInv => LRUTypeOK
  BY DEF LRUInv
<1> QED  BY <1>1, LRUInvInit, LRUInvKept, PTL DEF LRUSpec

\* The list and the map hold the same keys: the list walked forward meets each key of the
\* map once, walked backward it meets them in the opposite order, and both ends are nil
\* (lru.go:182-232).
THEOREM ListMatchesItsMap == LRUSpec => []ListMatchesMap
<1> QED  BY ListIsMap, LRUInvInit, LRUInvKept, PTL DEF LRUSpec

-----------------------------------------------------------------------------
(* LRUCache implements LRUOrder.  What the sequences of the abstract cache become is *)
(* what the pointers link.                                                            *)
OneToOne(s) == \A i, j \in 1..Len(s) : s[i] = s[j] => i = j

LEMMA TwoParts ==
    ASSUME NEW S, NEW s \in Seq(S), NEW m \in 1..Len(s)
    PROVE  /\ SubSeq(s, 1, m - 1) \in Seq(S) /\ Len(SubSeq(s, 1, m - 1)) = m - 1
           /\ \A i \in 1..(m - 1) : SubSeq(s, 1, m - 1)[i] = s[i]
           /\ SubSeq(s, m + 1, Len(s)) \in Seq(S) /\ Len(SubSeq(s, m + 1, Len(s))) = Len(s) - m
           /\ \A i \in 1..(Len(s) - m) : SubSeq(s, m + 1, Len(s))[i] = s[m + i]
<1> DEFINE a == SubSeq(s, 1, m - 1)
           b == SubSeq(s, m + 1, Len(s))
<1>1. a \in Seq(S) /\ Len(a) = m - 1 /\ \A i \in 1..(m - 1) : a[i] = s[i]
  OBVIOUS
<1>2. b \in Seq(S) /\ Len(b) = Len(s) - m /\ \A i \in 1..(Len(s) - m) : b[i] = s[m + i]
  OBVIOUS
<1> HIDE DEF a, b
<1> QED  BY <1>1, <1>2 DEF a, b

LEMMA DroppedIs ==
    ASSUME NEW S, NEW s \in Seq(S), OneToOne(s), NEW m \in 1..Len(s)
    PROVE  LRUAbstract!Dropped(s, s[m]) = LinkedWithout(s, Len(s), m)
<1> DEFINE n == Len(s)
           a == SubSeq(s, 1, m - 1)
           b == SubSeq(s, m + 1, n)
<1>0. n \in Nat /\ DOMAIN s = 1..n
  OBVIOUS
<1>1. (CHOOSE i \in DOMAIN s : s[i] = s[m]) = m
  BY <1>0 DEF OneToOne
<1>2. s[m] \in LRUAbstract!ToSet(s)
  BY <1>0 DEF LRUAbstract!ToSet
<1>3. LRUAbstract!Dropped(s, s[m]) = a \o b
  BY <1>1, <1>2 DEF LRUAbstract!Dropped, LRUAbstract!RemoveAt
<1>4. a \in Seq(S) /\ Len(a) = m - 1 /\ \A i \in 1..(m - 1) : a[i] = s[i]
  BY TwoParts
<1>5. b \in Seq(S) /\ Len(b) = n - m /\ \A i \in 1..(n - m) : b[i] = s[m + i]
  BY TwoParts
<1> HIDE DEF a, b, n
<1>6. a \o b \in Seq(S) /\ Len(a \o b) = n - 1
  <2>0. a \in Seq(S) /\ b \in Seq(S)
    BY <1>4, <1>5
  <2>1. a \o b \in Seq(S) /\ Len(a \o b) = Len(a) + Len(b)
    BY <2>0
  <2> QED  BY <1>0, <1>4, <1>5, <2>1
<1>7. ASSUME NEW i \in 1..(n - 1)  PROVE (a \o b)[i] = IF i < m THEN s[i] ELSE s[i + 1]
  <2>1. CASE i < m
    <3>1. i \in 1..Len(a)
      BY <1>0, <1>4, <2>1
    <3>2. (a \o b)[i] = a[i]
      BY <1>4, <1>5, <3>1
    <3> QED  BY <1>4, <2>1, <3>1, <3>2
  <2>2. CASE ~(i < m)
    <3>1. i - (m - 1) \in 1..Len(b) /\ (m - 1) + (i - (m - 1)) = i /\ m + (i - (m - 1)) = i + 1
      BY <1>0, <1>5, <2>2
    <3>2. (a \o b)[(m - 1) + (i - (m - 1))] = b[i - (m - 1)]
      BY <1>4, <1>5, <3>1
    <3> QED  BY <1>5, <2>2, <3>1, <3>2
  <2> QED  BY <2>1, <2>2
<1>8. a \o b = [i \in 1..(n - 1) |-> (a \o b)[i]]
  <2> DEFINE t == a \o b
  <2>1. t \in Seq(S) /\ Len(t) = n - 1
    BY <1>6
  <2> HIDE DEF t
  <2>2. t = [i \in 1..(n - 1) |-> t[i]]
    BY <2>1
  <2> QED  BY <2>2 DEF t
<1> QED  BY <1>3, <1>7, <1>8 DEF LinkedWithout, n

LEMMA DroppedNone ==
    ASSUME NEW S, NEW s \in Seq(S), NEW k, \A i \in 1..Len(s) : s[i] # k
    PROVE  LRUAbstract!Dropped(s, k) = s
  BY DEF LRUAbstract!Dropped, LRUAbstract!ToSet

LEMMA PutBefore ==
    ASSUME NEW S, NEW s \in Seq(S), NEW k \in S
    PROVE  <<k>> \o s = Before(s, Len(s), k)
<1> DEFINE n == Len(s)  t == <<k>> \o s
<1>0. n \in Nat /\ <<k>> \in Seq(S) /\ Len(<<k>>) = 1 /\ <<k>>[1] = k
  OBVIOUS
<1>1. t \in Seq(S) /\ Len(t) = n + 1
  BY <1>0
<1>2. ASSUME NEW i \in 1..(n + 1)  PROVE t[i] = IF i = 1 THEN k ELSE s[i - 1]
  <2>1. CASE i = 1
    BY <1>0, <2>1
  <2>2. CASE i # 1
    <3>1. i - 1 \in 1..n /\ 1 + (i - 1) = i
      BY <1>0, <2>2
    <3> QED  BY <1>0, <2>2, <3>1
  <2> QED  BY <2>1, <2>2
<1> HIDE DEF t
<1>3. t = [i \in 1..(n + 1) |-> t[i]]
  BY <1>0, <1>1
<1>4. t = Before(s, n, k)
  BY <1>2, <1>3 DEF Before
<1> QED  BY <1>4 DEF t

LEMMA FrontIs ==
    ASSUME NEW S, NEW s \in Seq(S), Len(s) # 0
    PROVE  LRUAbstract!Front(s) = LinkedWithout(s, Len(s), Len(s))
<1>1. Len(s) \in Nat
  OBVIOUS
<1>2. /\ SubSeq(s, 1, Len(s) - 1) = [i \in 1..(Len(s) - 1) |-> s[i]]
  BY <1>1
<1>3. \A i \in 1..(Len(s) - 1) : i < Len(s)
  BY <1>1
<1> QED  BY <1>2, <1>3 DEF LRUAbstract!Front, LinkedWithout

\* An order in which nodes are linked is a sequence of them, each once.
LEMMA OrderParts ==
    ASSUME NEW n, NEW l, NEW N, NEW s, Chained(s, n, l, N)
    PROVE  /\ s \in Seq(N) /\ Len(s) = n /\ n \in Nat /\ OneToOne(s)
           /\ LRUAbstract!ToSet(s) = N
           /\ l.head = At(s, n, 1) /\ l.tail = At(s, n, n)
<1>1. n \in Nat /\ s \in [1..n -> N] /\ (\A i, j \in 1..n : s[i] = s[j] => i = j)
      /\ (\A k \in N : \E i \in 1..n : s[i] = k) /\ l.head = At(s, n, 1) /\ l.tail = At(s, n, n)
  BY DEF Chained
<1>2. s \in Seq(N) /\ Len(s) = n
  BY <1>1
<1>3. OneToOne(s)
  BY <1>1, <1>2 DEF OneToOne
<1>4. LRUAbstract!ToSet(s) = N
  BY <1>1 DEF LRUAbstract!ToSet
<1> QED  BY <1>1, <1>2, <1>3, <1>4

WalkTells == \A s : IsOrder(s) => Forward = s

LEMMA LRUSteps ==
    ASSUME LRUInv, LRUInv', WalkTells, WalkTells', [LRUNext]_lruVars
    PROVE  [LRUAbstract!OrderNext]_(LRUAbstract!orderVars)
<1> DEFINE n == Cardinality(nodes)
<1>0. PICK s : Chained(s, n, list, nodes)
  BY DEF LRUInv, Linked
<1>1. /\ Forward = s /\ s \in Seq(nodes) /\ Len(s) = n /\ n \in Nat /\ OneToOne(s)
      /\ LRUAbstract!ToSet(s) = nodes /\ list.head = At(s, n, 1) /\ list.tail = At(s, n, n)
  BY <1>0, OrderParts DEF WalkTells, IsOrder
<1>2. /\ nodes \subseteq Keys /\ IsFiniteSet(nodes) /\ ListTyped(list) /\ expired \subseteq mortal /\ mortal \subseteq nodes
      /\ n <= Capacity /\ Capacity \in Nat \ {0}
  BY LRUCacheAssumption DEF LRUInv, LRUTypeOK, ListTyped
<1> HIDE DEF n
<1>3. ASSUME NEW t, NEW c, c = Cardinality(nodes'), Chained(t, c, list', nodes')
      PROVE  Forward' = t
  BY <1>3 DEF WalkTells, IsOrder
<1>4. \A k \in nodes : \E m \in 1..n : s[m] = k
  BY <1>0 DEF Chained
\* A key is taken out, or moved to the front.
<1>5. ASSUME NEW k \in nodes, nodes' = nodes \ {k}, list' = RemoveNode(list, k)
      PROVE  Forward' = LRUAbstract!Dropped(Forward, k)
  <2>1. PICK m \in 1..n : s[m] = k
    BY <1>4
  <2>2. Cardinality(nodes') = n - 1
    BY <1>2, <1>5, FS_RemoveElement DEF n
  <2>3. Chained(LinkedWithout(s, n, m), n - 1, list', nodes')
    BY <1>0, <1>2, <1>5, <2>1, ChainedWithout
  <2>4. LRUAbstract!Dropped(s, k) = LinkedWithout(s, n, m)
    BY <1>1, <2>1, DroppedIs
  <2> QED  BY <1>1, <1>3, <2>2, <2>3, <2>4
<1>6. ASSUME NEW k \in nodes, nodes' = nodes, list' = MoveToFront(list, k)
      PROVE  Forward' = LRUAbstract!ToFront(k)
  <2>1. PICK m \in 1..n : s[m] = k
    BY <1>4
  <2> DEFINE t == LinkedWithout(s, n, m)
  <2>2. /\ ListTyped(RemoveNode(list, k)) /\ Chained(t, n - 1, RemoveNode(list, k), nodes \ {k})
        /\ LRUAbstract!Dropped(s, k) = t
    BY <1>0, <1>1, <1>2, <2>1, ChainedWithout, DroppedIs
  <2>3. t \in Seq(nodes) /\ Len(t) = n - 1
    <3>1. t \in Seq(nodes \ {k}) /\ Len(t) = n - 1
      BY <2>2, OrderParts
    <3> QED  BY <3>1
  <2>4. LRUAbstract!ToFront(k) = Before(t, n - 1, k)
    BY <1>1, <2>2, <2>3, PutBefore DEF LRUAbstract!ToFront
  <2>5. CASE k = list.head
    <3>1. m = 1
      BY <1>1, <2>1, <2>5 DEF At, OneToOne
    <3>2. Before(t, n - 1, k) = s
      <4>1. \A i \in 1..n : i # 1 => i - 1 \in 1..(n - 1) /\ t[i - 1] = s[i]
        BY <1>1, <3>1 DEF LinkedWithout
      <4>2. (n - 1) + 1 = n /\ s = [i \in 1..n |-> s[i]]
        BY <1>1
      <4> HIDE DEF t
      <4> QED  BY <2>1, <3>1, <4>1, <4>2 DEF Before
    <3>3. Forward' = s
      BY <1>0, <1>3, <1>6, <2>5 DEF MoveToFront, n
    <3> QED  BY <2>4, <3>2, <3>3
  <2>6. CASE k # list.head
    <3>1. list' = AddToFront(RemoveNode(list, k), k) /\ (nodes \ {k}) \cup {k} = nodes /\ (n - 1) + 1 = n
      BY <1>1, <1>6, <2>6 DEF MoveToFront
    <3>2. nodes \ {k} \subseteq Keys /\ k \in Keys \ (nodes \ {k})
      BY <1>2
    <3> HIDE DEF t
    <3>3. Chained(Before(t, n - 1, k), (n - 1) + 1, AddToFront(RemoveNode(list, k), k), (nodes \ {k}) \cup {k})
      BY <2>2, <3>2, ChainedBefore
    <3>4. Chained(Before(t, n - 1, k), n, list', nodes')
      BY <1>6, <3>1, <3>3
    <3> QED  BY <1>3, <1>6, <2>4, <3>4 DEF n
  <2> QED  BY <2>5, <2>6
<1>7. ASSUME nodes' = nodes, list' = list
      PROVE  Forward' = Forward
  BY <1>0, <1>1, <1>3, <1>7 DEF n
<1>8. ASSUME NEW k \in Keys, LRUGet(k)
      PROVE  LRUAbstract!Get(k)
  <2>1. k \in nodes
    BY <1>8 DEF LRUGet
  <2>2. CASE k \in expired
    BY <1>1, <1>5, <1>8, <2>1, <2>2 DEF LRUGet, LRUAbstract!Get, LRUAbstract!Held
  <2>3. CASE k \notin expired
    BY <1>1, <1>6, <1>8, <2>1, <2>3 DEF LRUGet, LRUAbstract!Get, LRUAbstract!Held
  <2> QED  BY <2>2, <2>3
<1>9. ASSUME NEW k \in Keys, NEW ttl \in BOOLEAN, LRUUpdate(k, ttl)
      PROVE  LRUAbstract!Set(k, ttl)
  <2>1. k \in nodes /\ Forward' = LRUAbstract!ToFront(k)
    BY <1>6, <1>9 DEF LRUUpdate
  <2> QED  BY <1>1, <1>2, <1>9, <2>1 DEF LRUUpdate, LRUAbstract!Set, LRUAbstract!ToFront, LRUAbstract!Held
<1>10. ASSUME NEW k \in Keys, NEW ttl \in BOOLEAN, LRUInsert(k, ttl)
       PROVE  LRUAbstract!Set(k, ttl)
  <2>1. k \notin nodes
    BY <1>10 DEF LRUInsert
  <2>2. CASE NoRoom
    <3>1. n >= Capacity /\ n # 0 /\ n \in 1..n
      BY <1>1, <1>2, <2>2 DEF NoRoom, n
    <3>2. list.tail = s[n] /\ s[n] \in nodes /\ list.tail # Nil
      BY <1>1, <1>2, <3>1, LRUCacheAssumption DEF At
    <3> DEFINE out == s[n]
               t == LinkedWithout(s, n, n)
    <3>3. /\ nodes' = (nodes \ {out}) \cup {k} /\ list' = AddToFront(RemoveNode(list, out), k)
          /\ mortal' = (mortal \ {out}) \cup (IF ttl THEN {k} ELSE {}) /\ expired' = expired \ {out}
      BY <1>10, <2>2, <3>2 DEF LRUInsert
    <3>4. /\ ListTyped(RemoveNode(list, out)) /\ Chained(t, n - 1, RemoveNode(list, out), nodes \ {out})
          /\ LRUAbstract!Front(s) = t
      BY <1>0, <1>1, <1>2, <3>1, ChainedWithout, FrontIs
    <3>5. /\ t \in Seq(nodes \ {out}) /\ Len(t) = n - 1 /\ LRUAbstract!ToSet(t) = nodes \ {out}
      BY <3>4, OrderParts
    <3> HIDE DEF out, t
    <3>6. nodes \ {out} \subseteq Keys /\ k \in Keys \ (nodes \ {out})
      BY <1>2, <2>1
    <3>7. Chained(Before(t, n - 1, k), (n - 1) + 1, list', nodes')
      BY <3>3, <3>4, <3>6, ChainedBefore
    <3>8. Cardinality(nodes') = (n - 1) + 1
      <4>1. IsFiniteSet(nodes \ {out}) /\ Cardinality(nodes \ {out}) = n - 1
        BY <1>2, <3>2, FS_RemoveElement DEF n, out
      <4> QED  BY <3>3, <3>6, <4>1, FS_AddElement
    <3>9. Forward' = Before(t, n - 1, k)
      BY <1>3, <3>7, <3>8
    <3>10. <<k>> \o LRUAbstract!Dropped(t, k) = Before(t, n - 1, k)
      <4>1. t \in Seq(Keys)
        BY <3>5, <3>6
      <4>2. \A i \in 1..Len(t) : t[i] # k
        BY <3>5, <3>6
      <4> QED  BY <3>5, <4>1, <4>2, DroppedNone, PutBefore
    <3>11. ~(k \in LRUAbstract!Held \/ Len(Forward) < Capacity) /\ LRUAbstract!Front(Forward) = t
      BY <1>1, <1>2, <2>1, <3>1, <3>4 DEF LRUAbstract!Held
    <3>12. /\ mortal' = ((mortal \cap LRUAbstract!ToSet(t)) \ {k}) \cup (IF ttl THEN {k} ELSE {})
           /\ expired' = (expired \cap LRUAbstract!ToSet(t)) \ {k}
      BY <1>2, <2>1, <3>3, <3>5
    <3> QED  BY <3>9, <3>10, <3>11, <3>12 DEF LRUAbstract!Set
  <2>3. CASE ~NoRoom
    <3>1. n < Capacity
      BY <1>1, <1>2, <2>3 DEF NoRoom, n
    <3>2. /\ nodes' = nodes \cup {k} /\ list' = AddToFront(list, k)
          /\ mortal' = mortal \cup (IF ttl THEN {k} ELSE {}) /\ expired' = expired
      BY <1>10, <2>3 DEF LRUInsert
    <3>3. Chained(Before(s, n, k), n + 1, list', nodes')
      BY <1>0, <1>2, <2>1, <3>2, ChainedBefore
    <3>4. Cardinality(nodes') = n + 1
      BY <1>2, <2>1, <3>2, FS_AddElement DEF n
    <3>5. Forward' = Before(s, n, k)
      BY <1>3, <3>3, <3>4
    <3>6. <<k>> \o LRUAbstract!Dropped(s, k) = Before(s, n, k)
      <4>1. s \in Seq(Keys) /\ \A i \in 1..Len(s) : s[i] # k
        BY <1>1, <1>2, <2>1
      <4> QED  BY <1>1, <4>1, DroppedNone, PutBefore
    <3>7. /\ mortal' = ((mortal \cap LRUAbstract!ToSet(s)) \ {k}) \cup (IF ttl THEN {k} ELSE {})
          /\ expired' = (expired \cap LRUAbstract!ToSet(s)) \ {k}
      BY <1>1, <1>2, <2>1, <3>2
    <3> QED  BY <1>1, <3>1, <3>5, <3>6, <3>7 DEF LRUAbstract!Set, LRUAbstract!Held
  <2> QED  BY <2>2, <2>3
<1>11. ASSUME NEW k \in Keys, LRUDelete(k)
       PROVE  LRUAbstract!Delete(k)
  BY <1>1, <1>5, <1>11 DEF LRUDelete, LRUAbstract!Delete, LRUAbstract!Held
<1>12. ASSUME LRUClear
       PROVE  LRUAbstract!Clear
  <2>1. nodes' = {} /\ mortal' = {} /\ expired' = {} /\ list'.head = Nil /\ list'.tail = Nil
    BY <1>2, <1>12 DEF LRUClear, ListTyped
  <2>2. Cardinality(nodes') = 0
    BY <2>1, FS_EmptySet
  <2>3. Chained(<<>>, 0, list', nodes')
    BY <2>1 DEF Chained, At
  <2> QED  BY <1>3, <2>1, <2>2, <2>3 DEF LRUAbstract!Clear
<1>13. ASSUME NEW k \in Keys, LRUExpire(k)
       PROVE  LRUAbstract!Expire(k)
  BY <1>7, <1>13 DEF LRUExpire, LRUAbstract!Expire
<1>14. CASE UNCHANGED lruVars
  BY <1>7, <1>14 DEF lruVars, LRUAbstract!orderVars
<1> QED  BY <1>8, <1>9, <1>10, <1>11, <1>12, <1>13, <1>14 DEF LRUNext, LRUAbstract!OrderNext

\* The list with its pointers implements the order of recency: every Get, Set, eviction,
\* Delete and Clear does to the list what it does to the order (lru.go:78-232).
THEOREM ListImplementsOrder == LRUSpec => ImplementsOrder
<1>1. LRUInv => WalkTells
  BY WalksTell DEF WalkTells
<1>2. LRUInit => LRUAbstract!OrderInit
  <2> SUFFICES ASSUME LRUInit  PROVE LRUAbstract!OrderInit
    OBVIOUS
  <2>1. LRUInv /\ nodes = {} /\ mortal = {} /\ expired = {} /\ list.head = Nil /\ list.tail = Nil
    BY LRUInvInit DEF LRUInit, NoList
  <2>2. Cardinality(nodes) = 0
    BY <2>1, FS_EmptySet
  <2>3. IsOrder(<<>>)
    BY <2>1, <2>2 DEF IsOrder, Chained, At
  <2> QED  BY <2>1, <2>3, WalksTell DEF LRUAbstract!OrderInit
<1>3. LRUInv /\ WalkTells /\ LRUInv' /\ WalkTells' /\ [LRUNext]_lruVars => [LRUAbstract!OrderNext]_(LRUAbstract!orderVars)
  BY LRUSteps
<1> QED  BY <1>1, <1>2, <1>3, LRUInvInit, LRUInvKept, PTL DEF LRUSpec, ImplementsOrder, LRUAbstract!OrderSpec

-----------------------------------------------------------------------------
(* The sharded map.  There is a shard, and a key's hash names one. *)
LEMMA SomeShards == ShardCount \in Nat \ {0}
<1> DEFINE n == IF AskedShards < 0 THEN 0 ELSE AskedShards
           P == PowersOf2(AskedShards)
           B == {p \in P : AskedShards <= p}
<1>0. AskedShards \in Int /\ n \in Nat
  BY ShardAssumption
<1> HIDE DEF n
<1>1. ASSUME NEW i \in Nat
      PROVE  2^i \in Nat \ {0} /\ i <= 2^i
  <2> DEFINE S == 1..i
             Singles == [x \in S |-> {x}]
  <2>1. IsFiniteSet(S) /\ Cardinality(S) = i
    BY FS_Interval
  <2>2. IsFiniteSet(SUBSET S) /\ Cardinality(SUBSET S) = 2^i
    BY <2>1, FS_SUBSET
  <2>3. Singles \in Injection(S, SUBSET S)
    <3>1. Singles \in [S -> SUBSET S] /\ \A a, b \in S : Singles[a] = Singles[b] => a = b
      OBVIOUS
    <3> QED  BY <3>1 DEF Injection, IsInjective
  <2> HIDE DEF Singles
  <2>4. i <= 2^i
    BY <2>1, <2>2, <2>3, FS_Injection
  <2>5. 2^i \in Nat /\ 2^i # 0
    <3>1. S \in SUBSET S
      OBVIOUS
    <3> QED  BY <2>2, <3>1, FS_CardinalityType, FS_EmptySet
  <2> QED  BY <2>4, <2>5
<1>2. P \subseteq Nat \ {0} /\ 2^n \in P
  BY <1>0, <1>1 DEF PowersOf2, n
<1>3. 2^n \in Nat /\ n <= 2^n /\ AskedShards <= n
  BY <1>0, <1>1 DEF n
<1>4. PICK p \in B : \A q \in B : p <= q
  <2>1. B \subseteq Nat /\ B # {}
    BY <1>0, <1>2, <1>3
  <2> HIDE DEF B
  <2> QED  BY <2>1, LeastNatural
<1>5. p \in P /\ AskedShards <= p /\ \A q \in P : AskedShards <= q => p <= q
  BY <1>4
<1>6. ShardCount \in P
  <2> HIDE DEF P
  <2> QED  BY <1>5 DEF ShardCount, NextPowerOf2, P
<1> QED  BY <1>2, <1>6

LEMMA HashInShards == ASSUME hasher \in Hashers, NEW k \in MapKeys PROVE GetShard(k) \in Shards
<1>1. hasher[k] \in Nat /\ ShardCount \in Nat \ {0}
  BY ShardAssumption, SomeShards
<1>2. hasher[k] % ShardCount \in 0..(ShardCount - 1)
  BY <1>1
<1> QED  BY <1>1, <1>2 DEF GetShard, Shards

WalkPhases == {"idle", "rlock", "count", "visit", "fn", "stopped", "done"}
Walks == [at : 0..(ShardCount + 1), phase : WalkPhases,
          todo : SUBSET MapKeys, seen : SUBSET MapKeys, again : BOOLEAN,
          kept : SUBSET MapKeys, ever : SUBSET MapKeys]

MapShape ==
    /\ shards \in [Shards -> SUBSET MapKeys] /\ hasher \in Hashers /\ stray \in BOOLEAN
    /\ doing \in [MapProcs -> Calls({"set", "delete", "get"}) \cup {Idle}]
    /\ walk \in [Rangers -> Walks]
    /\ \A r \in Rangers :
         /\ doing[r] # Idle => walk[r].phase = "fn"
         /\ walk[r].phase \in {"rlock", "count", "visit", "fn"} => walk[r].at \in Shards

Placed == \A s \in Shards, k \in MapKeys : k \in shards[s] => s = GetShard(k)

\* A walk has seen the keys of the shards behind it that were kept, and of the one it is
\* in all but those it has still to visit, and none of the shards before it.
WalkRight(w) ==
    /\ ~w.again /\ w.seen \subseteq w.ever
    /\ w.phase = "done" => w.kept \subseteq w.seen
    /\ w.phase \in {"rlock", "count", "visit", "fn"} =>
         /\ w.kept \subseteq Present /\ Present \subseteq w.ever
         /\ \A k \in w.kept : GetShard(k) < w.at => k \in w.seen
    /\ w.phase \in {"rlock", "count"} => \A k \in w.seen : GetShard(k) < w.at
    /\ w.phase \in {"visit", "fn"} =>
         /\ w.todo \subseteq w.ever /\ w.todo \cap w.seen = {}
         /\ \A k \in w.seen : GetShard(k) <= w.at
         /\ \A k \in w.todo : GetShard(k) = w.at
         /\ \A k \in w.kept : GetShard(k) = w.at => k \in w.seen \cup w.todo

MapInv == MapShape /\ (stray \/ (Placed /\ \A r \in Rangers : WalkRight(walk[r])))

\* A walk that began sees the same when the shards and the hash are the same.
LEMMA SamePlaces ==
    ASSUME UNCHANGED <<shards, hasher>>
    PROVE  (Placed' <=> Placed) /\ Present' = Present /\ \A k : GetShard(k)' = GetShard(k)
  BY DEF Placed, Present, GetShard

LEMMA WalksOn ==
    ASSUME MapInv, NEW r \in Rangers, UNCHANGED <<shards, hasher, stray>>,
           walk' = [walk EXCEPT ![r] = walk'[r]],
           walk'[r] \in Walks,
           doing' \in [MapProcs -> Calls({"set", "delete", "get"}) \cup {Idle}],
           \A q \in Rangers \ {r} : doing'[q] = doing[q],
           doing'[r] # Idle => walk'[r].phase = "fn",
           walk'[r].phase \in {"rlock", "count", "visit", "fn"} => walk'[r].at \in Shards,
           ~stray => WalkRight(walk[r])'
    PROVE  MapInv'
<1>1. \A q \in Rangers \ {r} : walk'[q] = walk[q]
  BY DEF MapInv, MapShape
<1>2. MapShape'
  <2>1. walk' \in [Rangers -> Walks]
    BY DEF MapInv, MapShape
  <2>2. \A q \in Rangers :
          /\ doing'[q] # Idle => walk'[q].phase = "fn"
          /\ walk'[q].phase \in {"rlock", "count", "visit", "fn"} => walk'[q].at \in Shards
    BY <1>1 DEF MapInv, MapShape
  <2> QED  BY <2>1, <2>2 DEF MapInv, MapShape
<1>3. ASSUME ~stray, NEW q \in Rangers  PROVE WalkRight(walk[q])'
  <2>1. CASE q = r
    BY <1>3, <2>1
  <2>2. CASE q # r
    <3>1. WalkRight(walk[q]) /\ walk'[q] = walk[q]
      BY <1>1, <1>3, <2>2 DEF MapInv
    <3> QED  BY <3>1, SamePlaces DEF WalkRight
  <2> QED  BY <2>1, <2>2
<1> QED  BY <1>2, <1>3, SamePlaces DEF MapInv

\* A key put into its shard, or taken from it, by p.
LEMMA WalksMeet ==
    ASSUME MapInv, NEW p \in MapProcs, NEW k \in MapKeys, NEW there \in BOOLEAN,
           doing[p] # Idle, ~ReadLocked(GetShard(k)),
           shards' = [shards EXCEPT ![GetShard(k)] = IF there THEN @ \cup {k} ELSE @ \ {k}],
           doing' = [doing EXCEPT ![p] = Idle],
           Witness(p, k, there), UNCHANGED <<hasher, stray>>
    PROVE  MapInv'
<1> DEFINE s == GetShard(k)
<1>0. MapShape /\ s \in Shards
  BY HashInShards DEF MapInv, MapShape
<1> HIDE DEF s
<1>1. /\ \A r \in Rangers : walk'[r] =
            [walk[r] EXCEPT !.ever = IF there THEN @ \cup {k} ELSE @,
                            !.kept = IF there THEN @ ELSE @ \ {k},
                            !.phase = IF r = p THEN "visit" ELSE @]
      /\ DOMAIN walk' = Rangers
  BY DEF Witness
<1>2. \A r \in Rangers :
        LET v == walk'[r]  w == walk[r] IN
        /\ v \in Walks /\ w \in Walks
        /\ v.at = w.at /\ v.todo = w.todo /\ v.seen = w.seen /\ v.again = w.again
        /\ v.phase = (IF r = p THEN "visit" ELSE w.phase)
        /\ v.ever = (IF there THEN w.ever \cup {k} ELSE w.ever)
        /\ v.kept = (IF there THEN w.kept ELSE w.kept \ {k})
  <2> SUFFICES ASSUME NEW r \in Rangers
               PROVE  LET v == walk'[r]  w == walk[r] IN
                      /\ v \in Walks /\ w \in Walks
                      /\ v.at = w.at /\ v.todo = w.todo /\ v.seen = w.seen /\ v.again = w.again
                      /\ v.phase = (IF r = p THEN "visit" ELSE w.phase)
                      /\ v.ever = (IF there THEN w.ever \cup {k} ELSE w.ever)
                      /\ v.kept = (IF there THEN w.kept ELSE w.kept \ {k})
    OBVIOUS
  <2> DEFINE v == walk'[r]
             w == walk[r]
  <2>1. w \in Walks
    BY <1>0 DEF MapShape
  <2>2. v = [w EXCEPT !.ever = IF there THEN @ \cup {k} ELSE @,
                      !.kept = IF there THEN @ ELSE @ \ {k},
                      !.phase = IF r = p THEN "visit" ELSE @]
    BY <1>1
  <2> HIDE DEF v, w
  <2>3. /\ v.at = w.at /\ v.todo = w.todo /\ v.seen = w.seen /\ v.again = w.again
    BY <2>1, <2>2 DEF Walks
  <2>4. v.phase = (IF r = p THEN "visit" ELSE w.phase)
    BY <2>1, <2>2 DEF Walks
  <2>5. v.ever = (IF there THEN w.ever \cup {k} ELSE w.ever)
    BY <2>1, <2>2 DEF Walks
  <2>6. v.kept = (IF there THEN w.kept ELSE w.kept \ {k})
    BY <2>1, <2>2 DEF Walks
  <2>7. v \in Walks
    <3>1. v = [at |-> v.at, phase |-> v.phase, todo |-> v.todo, seen |-> v.seen, again |-> v.again,
               kept |-> v.kept, ever |-> v.ever]
      BY <2>1, <2>2 DEF Walks
    <3>2. v.phase \in WalkPhases /\ v.ever \in SUBSET MapKeys /\ v.kept \in SUBSET MapKeys
      BY <2>1, <2>4, <2>5, <2>6 DEF Walks, WalkPhases
    <3> QED  BY <2>1, <2>3, <3>1, <3>2 DEF Walks
  <2> QED  BY <2>1, <2>3, <2>4, <2>5, <2>6, <2>7 DEF v, w
<1>3. /\ shards' \in [Shards -> SUBSET MapKeys]
      /\ \A x \in Shards : shards'[x] = IF x = s THEN IF there THEN shards[x] \cup {k} ELSE shards[x] \ {k}
                                        ELSE shards[x]
  BY <1>0 DEF MapShape, s
<1>4. /\ doing' \in [MapProcs -> Calls({"set", "delete", "get"}) \cup {Idle}]
      /\ \A q \in MapProcs : doing'[q] = IF q = p THEN Idle ELSE doing[q]
  BY <1>0 DEF MapShape
<1>5. MapShape'
  <2>1. walk' \in [Rangers -> Walks]
    BY <1>1, <1>2 DEF Witness
  <2>2. \A r \in Rangers :
          /\ doing'[r] # Idle => walk'[r].phase = "fn"
          /\ walk'[r].phase \in {"rlock", "count", "visit", "fn"} => walk'[r].at \in Shards
    BY <1>0, <1>2, <1>4 DEF MapShape, MapProcs
  <2> QED  BY <1>0, <1>3, <1>4, <2>1, <2>2 DEF MapShape, Walks
<1>6. \A j : GetShard(j)' = GetShard(j)
  BY DEF GetShard
<1>7. ASSUME ~stray  PROVE Placed' /\ \A r \in Rangers : WalkRight(walk[r])'
  <2>1. Placed /\ \A r \in Rangers : WalkRight(walk[r])
    BY <1>7 DEF MapInv
  <2>2. Placed'
    BY <1>3, <1>6, <2>1 DEF Placed, s
  <2>3. Present' = IF there THEN Present \cup {k} ELSE Present \ {k}
    <3>1. CASE there
      BY <1>0, <1>3, <3>1 DEF Present
    <3>2. CASE ~there
      <4>1. \A x \in Shards : k \in shards[x] => x = s
        BY <2>1 DEF Placed, s
      <4>2. \A x \in Shards : shards'[x] = shards[x] \ {k}
        BY <1>3, <3>2, <4>1
      <4> QED  BY <3>2, <4>2 DEF Present
    <3> QED  BY <3>1, <3>2
  <2>4. ASSUME NEW r \in Rangers  PROVE WalkRight(walk[r])'
    <3> DEFINE w == walk[r]
               v == walk'[r]
    <3>1. WalkRight(w) /\ w \in Walks
      BY <1>0, <2>1 DEF MapShape
    <3>2. r = p => w.phase = "fn"
      BY <1>0 DEF MapShape
    <3>3. /\ v.at = w.at /\ v.todo = w.todo /\ v.seen = w.seen /\ v.again = w.again
          /\ v.phase = (IF r = p THEN "visit" ELSE w.phase)
          /\ v.ever = (IF there THEN w.ever \cup {k} ELSE w.ever)
          /\ v.kept = (IF there THEN w.kept ELSE w.kept \ {k})
      BY <1>2
    <3> HIDE DEF w, v
    <3>4. v.kept \subseteq w.kept /\ w.ever \subseteq v.ever
      BY <3>3
    <3>5. ~v.again /\ v.seen \subseteq v.ever
      BY <3>1, <3>3, <3>4 DEF WalkRight
    <3>6. v.phase = "done" => v.kept \subseteq v.seen
      BY <3>1, <3>3, <3>4 DEF WalkRight
    <3>7. v.phase \in {"rlock", "count", "visit", "fn"} =>
            /\ v.kept \subseteq Present' /\ Present' \subseteq v.ever
            /\ \A j \in v.kept : GetShard(j) < v.at => j \in v.seen
      <4> SUFFICES ASSUME v.phase \in {"rlock", "count", "visit", "fn"}
                   PROVE  /\ v.kept \subseteq Present' /\ Present' \subseteq v.ever
                          /\ \A j \in v.kept : GetShard(j) < v.at => j \in v.seen
        OBVIOUS
      <4>1. w.phase \in {"rlock", "count", "visit", "fn"}
        BY <3>2, <3>3
      <4>2. /\ w.kept \subseteq Present /\ Present \subseteq w.ever
            /\ \A j \in w.kept : GetShard(j) < w.at => j \in w.seen
        BY <3>1, <4>1 DEF WalkRight
      <4>3. v.kept \subseteq Present' /\ Present' \subseteq v.ever
        BY <2>3, <3>3, <4>2
      <4> QED  BY <3>3, <3>4, <4>2, <4>3
    <3>8. v.phase \in {"rlock", "count"} => \A j \in v.seen : GetShard(j) < v.at
      BY <3>1, <3>3 DEF WalkRight
    <3>9. v.phase \in {"visit", "fn"} =>
            /\ v.todo \subseteq v.ever /\ v.todo \cap v.seen = {}
            /\ \A j \in v.seen : GetShard(j) <= v.at
            /\ \A j \in v.todo : GetShard(j) = v.at
            /\ \A j \in v.kept : GetShard(j) = v.at => j \in v.seen \cup v.todo
      <4>1. v.phase \in {"visit", "fn"} => w.phase \in {"visit", "fn"}
        BY <3>2, <3>3
      <4> QED  BY <3>1, <3>3, <3>4, <4>1 DEF WalkRight
    <3> QED  BY <1>6, <3>5, <3>6, <3>7, <3>8, <3>9 DEF WalkRight, v
  <2> QED  BY <2>2, <2>4
<1> QED  BY <1>5, <1>7 DEF MapInv

LEMMA CallTyped == \A c \in Calls({"set", "delete", "get"}) :
    c # Idle /\ c.key \in MapKeys /\ c.op \in {"set", "delete", "get"}
  BY DEF Calls, Idle

LEMMA MapInvKept == MapInv /\ [MapNext]_mapVars => MapInv'
<1> SUFFICES ASSUME MapInv, [MapNext]_mapVars  PROVE MapInv'
  OBVIOUS
<1>0. MapShape /\ MapCallers \cap Rangers = {} /\ FnCalls \subseteq {"set", "delete", "get"}
  BY ShardAssumption DEF MapInv
<1>w. \A r \in Rangers : walk[r] \in Walks
  BY <1>0 DEF MapShape
<1>c. \A p \in MapProcs : doing[p].op \in {"set", "delete", "get"} => doing[p] # Idle /\ doing[p].key \in MapKeys
  BY <1>0, CallTyped DEF MapShape, Idle
<1>n. ShardCount \in Nat \ {0} /\ Shards = 1..ShardCount
  BY SomeShards DEF Shards
<1>1. ASSUME NEW p \in MapCallers, NEW c \in Calls({"set", "delete", "get"}), MapCall(p, c)
      PROVE  MapInv'
  <2>1. doing' = [doing EXCEPT ![p] = c] /\ UNCHANGED <<shards, hasher, walk, stray>>
    BY <1>1 DEF MapCall
  <2>2. /\ doing' \in [MapProcs -> Calls({"set", "delete", "get"}) \cup {Idle}]
        /\ \A r \in Rangers : doing'[r] = doing[r]
    BY <1>0, <2>1 DEF MapShape, MapProcs
  <2>3. MapShape'
    BY <1>0, <2>1, <2>2 DEF MapShape, Walks
  <2>4. ~stray => \A r \in Rangers : WalkRight(walk[r])'
    BY <2>1, SamePlaces DEF MapInv, WalkRight
  <2> QED  BY <2>1, <2>3, <2>4, SamePlaces DEF MapInv
<1>2. ASSUME NEW p \in MapProcs, MapSet(p)  PROVE MapInv'
  <2>1. doing[p].key \in MapKeys /\ doing[p] # Idle
    BY <1>2, <1>c DEF MapSet
  <2> QED  BY <1>2, <2>1, WalksMeet DEF MapSet
<1>3. ASSUME NEW p \in MapProcs, MapDelete(p)  PROVE MapInv'
  <2>1. doing[p].key \in MapKeys /\ doing[p] # Idle
    BY <1>3, <1>c DEF MapDelete
  <2> QED  BY <1>3, <2>1, WalksMeet DEF MapDelete
<1>4. ASSUME NEW p \in MapProcs, MapGet(p)  PROVE MapInv'
  <2>1. /\ doing' = [doing EXCEPT ![p] = Idle] /\ UNCHANGED <<shards, hasher, stray>>
        /\ walk' = [r \in Rangers |-> IF r = p THEN [walk[r] EXCEPT !.phase = "visit"] ELSE walk[r]]
        /\ doing[p] # Idle
    BY <1>4, <1>c DEF MapGet
  <2>2. /\ doing' \in [MapProcs -> Calls({"set", "delete", "get"}) \cup {Idle}]
        /\ \A q \in MapProcs : doing'[q] = IF q = p THEN Idle ELSE doing[q]
    BY <1>0, <2>1 DEF MapShape
  <2>3. ASSUME NEW r \in Rangers
        PROVE  /\ walk'[r] \in Walks /\ (doing'[r] # Idle => walk'[r].phase = "fn")
               /\ walk'[r].phase \in {"rlock", "count", "visit", "fn"} => walk'[r].at \in Shards
               /\ ~stray => WalkRight(walk[r])'
    <3>1. CASE r = p
      <4>1. walk[r].phase = "fn" /\ doing'[r] = Idle /\ walk[r] \in Walks
        BY <1>0, <2>1, <2>2, <3>1 DEF MapShape, MapProcs
      <4>2. /\ walk'[r] \in Walks
            /\ walk'[r].phase = "visit" /\ walk'[r].at = walk[r].at /\ walk'[r].todo = walk[r].todo
            /\ walk'[r].seen = walk[r].seen /\ walk'[r].again = walk[r].again
            /\ walk'[r].kept = walk[r].kept /\ walk'[r].ever = walk[r].ever
        BY <2>1, <3>1, <4>1 DEF Walks, WalkPhases
      <4>3. ~stray => WalkRight(walk[r])'
        BY <2>1, <4>1, <4>2, SamePlaces DEF MapInv, WalkRight
      <4> QED  BY <1>0, <4>1, <4>2, <4>3 DEF MapShape
    <3>2. CASE r # p
      <4>1. walk'[r] = walk[r] /\ doing'[r] = doing[r]
        BY <2>1, <2>2, <3>2 DEF MapProcs
      <4>2. ASSUME ~stray  PROVE WalkRight(walk[r])'
        <5>1. WalkRight(walk[r])
          BY <4>2 DEF MapInv
        <5>2. Present' = Present /\ \A k : GetShard(k)' = GetShard(k)
          BY <2>1, SamePlaces
        <5> QED  BY <4>1, <5>1, <5>2 DEF WalkRight
      <4> QED  BY <1>0, <1>w, <4>1, <4>2 DEF MapShape
    <3> QED  BY <3>1, <3>2
  <2>4. walk' \in [Rangers -> Walks]
    BY <2>1, <2>3
  <2>5. MapShape'
    BY <1>0, <2>1, <2>2, <2>3, <2>4 DEF MapShape, Walks
  <2> QED  BY <2>1, <2>3, <2>5, SamePlaces DEF MapInv
<1>5. ASSUME NEW r \in Rangers, RangeBegin(r)  PROVE MapInv'
  <2>1. PICK phase \in {"rlock", "count"} :
             walk' = [walk EXCEPT ![r] = [NoWalk EXCEPT !.at = 1, !.phase = phase, !.kept = Present, !.ever = Present]]
    BY <1>5 DEF RangeBegin, Walking
  <2>2. UNCHANGED <<shards, hasher, doing, stray>> /\ walk[r].phase = "idle" /\ Present \in SUBSET MapKeys
    BY <1>0, <1>5 DEF RangeBegin, MapShape, Present
  <2> DEFINE v == walk'[r]
  <2>3. /\ v = [NoWalk EXCEPT !.at = 1, !.phase = phase, !.kept = Present, !.ever = Present]
        /\ walk' = [walk EXCEPT ![r] = v]
    BY <1>0, <2>1 DEF MapShape
  <2>4. /\ v \in Walks /\ v.at = 1 /\ v.phase = phase /\ v.kept = Present /\ v.ever = Present
        /\ v.seen = {} /\ v.todo = {} /\ v.again = FALSE
    <3>1. v = [at |-> 1, phase |-> phase, todo |-> {}, seen |-> {}, again |-> FALSE,
               kept |-> Present, ever |-> Present]
      BY <2>3 DEF NoWalk
    <3>2. 1 \in 0..(ShardCount + 1) /\ phase \in WalkPhases
      BY <1>n DEF WalkPhases
    <3>3. v \in Walks
      BY <2>2, <3>1, <3>2 DEF Walks
    <3> QED  BY <3>1, <3>3
  <2>5. doing[r] = Idle /\ doing' \in [MapProcs -> Calls({"set", "delete", "get"}) \cup {Idle}]
    BY <1>0, <2>2 DEF MapShape
  <2>7. v.phase \in {"rlock", "count", "visit", "fn"} => v.at \in Shards
    BY <1>n, <2>4
  <2>6. WalkRight(walk[r])'
    <3>1. \A k \in MapKeys : GetShard(k) \in Shards
      BY <1>0, HashInShards DEF MapShape
    <3>2. \A k \in v.kept : ~(GetShard(k) < v.at)
      BY <1>n, <2>2, <2>4, <3>1
    <3> HIDE DEF v
    <3> QED  BY <1>n, <2>2, <2>4, <3>2, SamePlaces DEF WalkRight, v
  <2> QED  BY <2>2, <2>3, <2>4, <2>5, <2>6, <2>7, WalksOn
<1>6. ASSUME NEW r \in Rangers, LenShard(r)  PROVE MapInv'
  <2> DEFINE w == walk[r]
             v == walk'[r]
  <2>1. /\ UNCHANGED <<shards, hasher, doing, stray>> /\ w.phase = "count" /\ w \in Walks
        /\ v = [w EXCEPT !.seen = @ \cup shards[w.at], !.again = @ \/ w.seen \cap shards[w.at] # {},
                         !.at = @ + 1, !.phase = IF w.at = ShardCount THEN "done" ELSE @]
        /\ walk' = [walk EXCEPT ![r] = v]
    BY <1>0, <1>6 DEF LenShard, Walking, MapShape
  <2>2. doing[r] = Idle /\ doing' \in [MapProcs -> Calls({"set", "delete", "get"}) \cup {Idle}]
    BY <1>0, <2>1 DEF MapShape
  <2>3. w.at \in Shards /\ w.at + 1 \in 0..(ShardCount + 1) /\ shards[w.at] \subseteq MapKeys
    BY <1>0, <1>n, <2>1 DEF MapShape
  <2>4. /\ v \in Walks /\ v.at = w.at + 1 /\ v.phase = (IF w.at = ShardCount THEN "done" ELSE "count")
        /\ v.kept = w.kept /\ v.ever = w.ever /\ v.todo = w.todo
        /\ v.seen = w.seen \cup shards[w.at] /\ (v.again <=> w.again \/ w.seen \cap shards[w.at] # {})
    <3> DEFINE phase == IF w.at = ShardCount THEN "done" ELSE "count"
               again == w.again \/ w.seen \cap shards[w.at] # {}
    <3>1. v = [at |-> w.at + 1, phase |-> phase, todo |-> w.todo, seen |-> w.seen \cup shards[w.at],
                        again |-> again, kept |-> w.kept, ever |-> w.ever]
      BY <2>1 DEF Walks
    <3>2. /\ phase \in WalkPhases /\ again \in BOOLEAN /\ w.seen \cup shards[w.at] \in SUBSET MapKeys
          /\ w.todo \in SUBSET MapKeys /\ w.kept \in SUBSET MapKeys /\ w.ever \in SUBSET MapKeys
      BY <2>1, <2>3 DEF Walks, WalkPhases
    <3> HIDE DEF v, w, phase, again
    <3>3. v \in Walks /\ v.at = w.at + 1 /\ v.phase = phase /\ v.kept = w.kept /\ v.ever = w.ever
          /\ v.todo = w.todo /\ v.seen = w.seen \cup shards[w.at] /\ v.again = again
      <4> DEFINE at == w.at + 1
      <4>1. v = [at |-> at, phase |-> phase, todo |-> w.todo, seen |-> w.seen \cup shards[w.at],
                 again |-> again, kept |-> w.kept, ever |-> w.ever]
            /\ at \in 0..(ShardCount + 1)
        BY <2>3, <3>1
      <4> HIDE DEF at
      <4>2. v \in Walks
        BY <3>2, <4>1 DEF Walks
      <4> QED  BY <3>1, <4>2
    <3> QED  BY <3>3 DEF phase, again
  <2>5. v.phase \in {"rlock", "count", "visit", "fn"} => v.at \in Shards
    BY <1>n, <2>3, <2>4
  <2>6. ASSUME ~stray  PROVE WalkRight(walk[r])'
    <3>1. Placed /\ WalkRight(w)
      BY <2>6 DEF MapInv
    <3>2. \A k \in MapKeys : GetShard(k) \in Shards
      BY <1>0, HashInShards DEF MapShape
    <3>3. w.kept \cup w.seen \cup w.ever \subseteq MapKeys
      BY <2>1 DEF Walks
    <3> HIDE DEF w, v
    <3>4. \A k \in shards[w.at] : k \in MapKeys /\ GetShard(k) = w.at /\ k \in Present
      BY <2>3, <3>1 DEF Placed, Present
    <3>5. \A k \in w.seen : GetShard(k) < w.at
      BY <2>1, <3>1 DEF WalkRight
    <3>6. ~v.again
      BY <2>3, <2>4, <3>1, <3>2, <3>3, <3>4, <3>5, <1>n DEF WalkRight
    <3>7. /\ w.kept \subseteq Present /\ Present \subseteq w.ever /\ w.seen \subseteq w.ever
          /\ \A k \in w.kept : GetShard(k) < w.at => k \in w.seen
      BY <2>1, <3>1 DEF WalkRight
    <3>8. v.seen \subseteq v.ever
      BY <2>4, <3>4, <3>7
    <3>9. \A k \in w.kept : k \in Present /\ (GetShard(k) = w.at => k \in shards[w.at])
      BY <3>1, <3>3, <3>7 DEF Placed, Present
    <3>10. \A k \in v.kept : GetShard(k) < v.at => k \in v.seen
      <4> SUFFICES ASSUME NEW k \in w.kept, GetShard(k) < w.at + 1  PROVE k \in w.seen \cup shards[w.at]
        BY <2>4
      <4>1. GetShard(k) < w.at \/ GetShard(k) = w.at
        BY <1>n, <2>3, <3>2, <3>3
      <4> QED  BY <3>7, <3>9, <4>1
    <3>11. \A k \in v.seen : GetShard(k) < v.at
      <4> SUFFICES ASSUME NEW k \in v.seen  PROVE GetShard(k) < w.at + 1
        BY <2>4
      <4>1. k \in MapKeys /\ (GetShard(k) < w.at \/ GetShard(k) = w.at)
        BY <2>4, <3>3, <3>4, <3>5
      <4> QED  BY <1>n, <2>3, <3>2, <4>1
    <3>12. v.phase = "done" => v.kept \subseteq v.seen
      <4> SUFFICES ASSUME v.phase = "done", NEW k \in v.kept  PROVE k \in v.seen
        OBVIOUS
      <4>1. w.at = ShardCount /\ k \in MapKeys
        BY <2>4, <3>3
      <4>2. GetShard(k) < v.at
        BY <1>n, <2>4, <3>2, <4>1
      <4> QED  BY <3>10, <4>2
    <3>13. v.phase \in {"done", "count"}
      BY <2>4
    <3> QED  BY <2>1, <2>4, <3>6, <3>7, <3>8, <3>10, <3>11, <3>12, <3>13, SamePlaces DEF WalkRight, v
  <2> QED  BY <2>1, <2>2, <2>4, <2>5, <2>6, WalksOn
<1>7. ASSUME NEW r \in Rangers, RangeRLock(r)  PROVE MapInv'
  <2> DEFINE w == walk[r]
             v == walk'[r]
  <2>1. /\ UNCHANGED <<shards, hasher, doing, stray>> /\ w.phase = "rlock" /\ w \in Walks
        /\ v = [w EXCEPT !.todo = shards[w.at], !.phase = "visit"]
        /\ walk' = [walk EXCEPT ![r] = v]
    BY <1>0, <1>7 DEF RangeRLock, Walking, MapShape
  <2>2. doing[r] = Idle /\ doing' \in [MapProcs -> Calls({"set", "delete", "get"}) \cup {Idle}]
    BY <1>0, <2>1 DEF MapShape
  <2>3. w.at \in Shards /\ shards[w.at] \subseteq MapKeys
    BY <1>0, <1>n, <2>1 DEF MapShape
  <2>4. /\ v \in Walks /\ v.at = w.at /\ v.phase = "visit"
        /\ v.kept = w.kept /\ v.ever = w.ever /\ v.todo = shards[w.at]
        /\ v.seen = w.seen /\ v.again = w.again
    BY <2>1, <2>3 DEF Walks, WalkPhases
  <2>6. ASSUME ~stray  PROVE WalkRight(walk[r])'
    <3>1. Placed /\ WalkRight(w)
      BY <2>6 DEF MapInv
    <3>2. \A k \in MapKeys : GetShard(k) \in Shards
      BY <1>0, HashInShards DEF MapShape
    <3>3. w.kept \cup w.seen \cup w.ever \subseteq MapKeys
      BY <2>1 DEF Walks
    <3> HIDE DEF w, v
    <3>4. \A k \in shards[w.at] : k \in MapKeys /\ GetShard(k) = w.at /\ k \in Present
      BY <2>3, <3>1 DEF Placed, Present
    <3>5. \A k \in w.seen : GetShard(k) < w.at /\ GetShard(k) # w.at /\ GetShard(k) <= w.at
      BY <1>n, <2>1, <2>3, <3>1, <3>2, <3>3 DEF WalkRight
    <3>7. /\ w.kept \subseteq Present /\ Present \subseteq w.ever /\ w.seen \subseteq w.ever /\ ~w.again
          /\ \A k \in w.kept : GetShard(k) < w.at => k \in w.seen
      BY <2>1, <3>1 DEF WalkRight
    <3>8. v.todo \subseteq v.ever /\ v.todo \cap v.seen = {} /\ \A k \in v.todo : GetShard(k) = v.at
      BY <2>4, <3>4, <3>5, <3>7
    <3>9. \A k \in v.kept : GetShard(k) = v.at => k \in v.seen \cup v.todo
      <4>1. \A k \in w.kept : GetShard(k) = w.at => k \in shards[w.at]
        BY <3>1, <3>3, <3>7 DEF Placed, Present
      <4> QED  BY <2>4, <4>1
    <3> QED  BY <2>1, <2>4, <3>5, <3>7, <3>8, <3>9, SamePlaces DEF WalkRight, v
  <2> QED  BY <2>1, <2>2, <2>3, <2>4, <2>6, WalksOn
<1>8. ASSUME NEW r \in Rangers, NEW k \in MapKeys, RangeVisit(r, k)  PROVE MapInv'
  <2> DEFINE w == walk[r]
             v == walk'[r]
  <2>0. w \in Walks /\ w.phase = "visit" /\ doing[r] = Idle /\ r \in MapProcs /\ r \in Rangers
    BY <1>0, <1>w, <1>8 DEF RangeVisit, MapShape, MapProcs
  <2> DEFINE x == [w EXCEPT !.todo = @ \ {k}, !.seen = @ \cup {k}, !.again = @ \/ k \in w.seen]
  <2>e. \/ v = x /\ UNCHANGED doing
        \/ v = [x EXCEPT !.phase = "stopped"] /\ UNCHANGED doing
        \/ \E c \in Calls(FnCalls) : v = [x EXCEPT !.phase = "fn"] /\ doing' = [doing EXCEPT ![r] = c]
    <3>1. \A y : Walking(r, y) => v = y
      BY <1>0 DEF Walking, MapShape
    <3> HIDE DEF v
    <3> QED  BY <1>8, <3>1 DEF RangeVisit
  <2>f. /\ x \in Walks /\ x.phase = "visit" /\ x.at = w.at /\ x.kept = w.kept /\ x.ever = w.ever
        /\ x.todo = w.todo \ {k} /\ x.seen = w.seen \cup {k} /\ x.again = (w.again \/ k \in w.seen)
    <3> DEFINE again == w.again \/ k \in w.seen
    <3>0. x = [w EXCEPT !.todo = @ \ {k}, !.seen = @ \cup {k}, !.again = again]
      OBVIOUS
    <3> HIDE DEF x, w, again
    <3>1. x = [at |-> w.at, phase |-> w.phase, todo |-> w.todo \ {k}, seen |-> w.seen \cup {k},
                        again |-> again, kept |-> w.kept, ever |-> w.ever]
      BY <2>0, <3>0 DEF Walks
    <3>2. /\ w.at \in 0..(ShardCount + 1) /\ w.phase \in WalkPhases /\ again \in BOOLEAN
          /\ w.seen \cup {k} \in SUBSET MapKeys /\ w.todo \ {k} \in SUBSET MapKeys
          /\ w.kept \in SUBSET MapKeys /\ w.ever \in SUBSET MapKeys
      BY <2>0 DEF Walks, again
    <3>3. /\ x \in Walks /\ x.phase = w.phase /\ x.at = w.at /\ x.kept = w.kept /\ x.ever = w.ever
          /\ x.todo = w.todo \ {k} /\ x.seen = w.seen \cup {k} /\ x.again = again
      <4>1. x \in Walks
        BY <3>1, <3>2 DEF Walks
      <4> QED  BY <3>1, <4>1
    <3> QED  BY <2>0, <3>3 DEF again
  <2>g. ASSUME NEW phase \in WalkPhases, NEW y, y = [x EXCEPT !.phase = phase]
        PROVE  /\ y \in Walks /\ y.phase = phase /\ y.at = x.at /\ y.kept = x.kept /\ y.ever = x.ever
               /\ y.todo = x.todo /\ y.seen = x.seen /\ y.again = x.again
    <3> HIDE DEF x, w
    <3>1. y = [at |-> x.at, phase |-> phase, todo |-> x.todo, seen |-> x.seen,
                        again |-> x.again, kept |-> x.kept, ever |-> x.ever]
      BY <2>f, <2>g DEF Walks
    <3>2. /\ x.at \in 0..(ShardCount + 1) /\ x.again \in BOOLEAN /\ x.seen \in SUBSET MapKeys
          /\ x.todo \in SUBSET MapKeys /\ x.kept \in SUBSET MapKeys /\ x.ever \in SUBSET MapKeys
      BY <2>f DEF Walks
    <3>3. y \in Walks
      BY <3>1, <3>2 DEF Walks
    <3> QED  BY <3>1, <3>3
  <2>h. \E phase \in {"visit", "stopped", "fn"} : v = [x EXCEPT !.phase = phase]
    <3> HIDE DEF x, w, v
    <3>1. x = [x EXCEPT !.phase = "visit"]
      BY <2>f DEF Walks
    <3> QED  BY <2>e, <3>1
  <2>1. PICK phase \in {"visit", "stopped", "fn"} : v = [x EXCEPT !.phase = phase]
    BY <2>h
  <2> HIDE DEF x
  <2>2. /\ UNCHANGED <<shards, hasher, stray>> /\ w.phase = "visit" /\ w \in Walks /\ k \in w.todo
        /\ walk' = [walk EXCEPT ![r] = v]
    BY <1>0, <1>w, <1>8 DEF RangeVisit, Walking, MapShape
  <2>3. /\ doing' \in [MapProcs -> Calls({"set", "delete", "get"}) \cup {Idle}]
        /\ \A q \in Rangers \ {r} : doing'[q] = doing[q]
        /\ doing'[r] # Idle => v.phase = "fn"
    <3>1. Calls(FnCalls) \subseteq Calls({"set", "delete", "get"})
      BY <1>0 DEF Calls
    <3>2. doing \in [MapProcs -> Calls({"set", "delete", "get"}) \cup {Idle}]
      BY <1>0 DEF MapShape
    <3>3. CASE UNCHANGED doing
      BY <2>0, <3>2, <3>3
    <3>4. ASSUME NEW c \in Calls(FnCalls), v = [x EXCEPT !.phase = "fn"],
                 doing' = [doing EXCEPT ![r] = c]
          PROVE  /\ doing' \in [MapProcs -> Calls({"set", "delete", "get"}) \cup {Idle}]
                 /\ \A q \in Rangers \ {r} : doing'[q] = doing[q]
                 /\ doing'[r] # Idle => v.phase = "fn"
      <4>1. v.phase = "fn"
        BY <2>g, <3>4 DEF WalkPhases
      <4>2. \A q \in Rangers \ {r} : doing'[q] = doing[q]
        BY <3>2, <3>4 DEF MapProcs
      <4> QED  BY <3>1, <3>2, <3>4, <4>1, <4>2
    <3> QED  BY <2>e, <3>3, <3>4
  <2>4. /\ v \in Walks /\ v.at = w.at /\ v.phase = phase
        /\ v.kept = w.kept /\ v.ever = w.ever /\ v.todo = w.todo \ {k}
        /\ v.seen = w.seen \cup {k} /\ (v.again <=> w.again \/ k \in w.seen)
    <3>1. phase \in WalkPhases
      BY DEF WalkPhases
    <3> HIDE DEF v, w
    <3>2. /\ v \in Walks /\ v.phase = phase /\ v.at = x.at /\ v.kept = x.kept /\ v.ever = x.ever
          /\ v.todo = x.todo /\ v.seen = x.seen /\ v.again = x.again
      BY <2>1, <2>g, <3>1
    <3> QED  BY <2>f, <3>2
  <2>5. w.at \in Shards
    BY <1>0, <2>2 DEF MapShape
  <2>6. ASSUME ~stray  PROVE WalkRight(walk[r])'
    <3>1. WalkRight(w)
      BY <2>6 DEF MapInv
    <3> HIDE DEF w, v
    <3>2. /\ w.kept \subseteq Present /\ Present \subseteq w.ever /\ w.seen \subseteq w.ever /\ ~w.again
          /\ w.todo \subseteq w.ever /\ w.todo \cap w.seen = {}
          /\ \A j \in w.kept : GetShard(j) < w.at => j \in w.seen
          /\ \A j \in w.seen : GetShard(j) <= w.at
          /\ \A j \in w.todo : GetShard(j) = w.at
          /\ \A j \in w.kept : GetShard(j) = w.at => j \in w.seen \cup w.todo
      BY <2>2, <3>1 DEF WalkRight
    <3>3. GetShard(k) = w.at /\ GetShard(k) <= w.at /\ k \notin w.seen
      BY <1>n, <2>2, <2>5, <3>2
    <3>4. ~v.again /\ v.seen \subseteq v.ever /\ v.todo \subseteq v.ever /\ v.todo \cap v.seen = {}
      BY <2>2, <2>4, <3>2, <3>3
    <3>5. /\ \A j \in v.kept : GetShard(j) < v.at => j \in v.seen
          /\ \A j \in v.seen : GetShard(j) <= v.at
          /\ \A j \in v.todo : GetShard(j) = v.at
          /\ \A j \in v.kept : GetShard(j) = v.at => j \in v.seen \cup v.todo
      BY <2>4, <3>2, <3>3
    <3>6. v.phase \in {"visit", "stopped", "fn"}
      BY <2>4
    <3> QED  BY <2>2, <2>4, <3>2, <3>4, <3>5, <3>6, SamePlaces DEF WalkRight, v
  <2> QED  BY <2>2, <2>3, <2>4, <2>5, <2>6, WalksOn
<1>9. ASSUME NEW r \in Rangers, RangeRUnlock(r)  PROVE MapInv'
  <2> DEFINE w == walk[r]
             v == walk'[r]
  <2>1. /\ UNCHANGED <<shards, hasher, doing, stray>> /\ w.phase = "visit" /\ w \in Walks /\ w.todo = {}
        /\ v = IF w.at = ShardCount THEN [w EXCEPT !.at = 0, !.phase = "done"]
               ELSE [w EXCEPT !.at = @ + 1, !.phase = "rlock"]
        /\ walk' = [walk EXCEPT ![r] = v]
    BY <1>0, <1>9 DEF RangeRUnlock, Walking, MapShape
  <2>2. doing[r] = Idle /\ doing' \in [MapProcs -> Calls({"set", "delete", "get"}) \cup {Idle}]
    BY <1>0, <2>1 DEF MapShape
  <2>3. w.at \in Shards /\ (w.at # ShardCount => w.at + 1 \in Shards /\ w.at + 1 \in 0..(ShardCount + 1))
        /\ 0 \in 0..(ShardCount + 1)
    BY <1>0, <1>n, <2>1 DEF MapShape
  <2>4. /\ v \in Walks /\ v.kept = w.kept /\ v.ever = w.ever /\ v.todo = {}
        /\ v.seen = w.seen /\ v.again = w.again
        /\ v.phase = (IF w.at = ShardCount THEN "done" ELSE "rlock")
        /\ w.at # ShardCount => v.at = w.at + 1
    <3>1. \A at \in 0..(ShardCount + 1), phase \in WalkPhases : v = [w EXCEPT !.at = at, !.phase = phase] =>
            /\ v \in Walks /\ v.at = at /\ v.phase = phase /\ v.kept = w.kept /\ v.ever = w.ever
            /\ v.todo = w.todo /\ v.seen = w.seen /\ v.again = w.again
      <4> HIDE DEF v, w
      <4> SUFFICES ASSUME NEW at \in 0..(ShardCount + 1), NEW phase \in WalkPhases,
                          v = [w EXCEPT !.at = at, !.phase = phase]
                   PROVE  /\ v \in Walks /\ v.at = at /\ v.phase = phase /\ v.kept = w.kept /\ v.ever = w.ever
                          /\ v.todo = w.todo /\ v.seen = w.seen /\ v.again = w.again
        OBVIOUS
      <4>1. v = [at |-> at, phase |-> phase, todo |-> w.todo, seen |-> w.seen,
                        again |-> w.again, kept |-> w.kept, ever |-> w.ever]
        BY <2>1 DEF Walks
      <4>2. /\ w.again \in BOOLEAN /\ w.seen \in SUBSET MapKeys /\ w.todo \in SUBSET MapKeys
            /\ w.kept \in SUBSET MapKeys /\ w.ever \in SUBSET MapKeys
        BY <2>1 DEF Walks
      <4>3. v \in Walks
        BY <4>1, <4>2 DEF Walks
      <4> QED  BY <4>1, <4>3
    <3> HIDE DEF v, w
    <3>2. CASE w.at = ShardCount
      BY <2>1, <2>3, <3>1, <3>2 DEF WalkPhases
    <3>3. CASE w.at # ShardCount
      BY <2>1, <2>3, <3>1, <3>3 DEF WalkPhases
    <3> QED  BY <3>2, <3>3
  <2>6. ASSUME ~stray  PROVE WalkRight(walk[r])'
    <3>1. WalkRight(w)
      BY <2>6 DEF MapInv
    <3>2. \A k \in w.kept \cup w.seen : GetShard(k) \in Shards
      BY <1>0, <2>1, HashInShards DEF MapShape, Walks
    <3> HIDE DEF w, v
    <3>3. /\ w.kept \subseteq Present /\ Present \subseteq w.ever /\ w.seen \subseteq w.ever /\ ~w.again
          /\ \A j \in w.kept : GetShard(j) < w.at => j \in w.seen
          /\ \A j \in w.seen : GetShard(j) <= w.at
          /\ \A j \in w.kept : GetShard(j) = w.at => j \in w.seen
      BY <2>1, <3>1 DEF WalkRight
    <3>4. \A j \in w.kept : GetShard(j) < w.at + 1 => j \in w.seen
      BY <1>n, <2>3, <3>2, <3>3
    <3>5. \A j \in w.seen : GetShard(j) < w.at + 1
      BY <1>n, <2>3, <3>2, <3>3
    <3>6. CASE w.at = ShardCount
      <4>1. \A j \in w.kept : GetShard(j) < w.at + 1
        BY <1>n, <3>2, <3>6
      <4> QED  BY <2>4, <3>3, <3>4, <3>6, <4>1 DEF WalkRight, v
    <3>7. CASE w.at # ShardCount
      BY <2>1, <2>4, <3>3, <3>4, <3>5, <3>7, SamePlaces DEF WalkRight, v
    <3> QED  BY <3>6, <3>7
  <2>7. v.phase \in {"rlock", "count", "visit", "fn"} => v.at \in Shards
    BY <2>3, <2>4
  <2> QED  BY <2>1, <2>2, <2>4, <2>6, <2>7, WalksOn
<1>10. ASSUME NEW h \in Hashers, SetWithHasher(h)  PROVE MapInv'
  <2>1. /\ UNCHANGED <<shards, doing, walk>> /\ hasher' = h /\ stray' \in BOOLEAN
        /\ \A r \in Rangers : walk[r].phase \in {"idle", "stopped", "done"}
        /\ ~stray' => ~stray /\ Present = {}
    BY <1>0, <1>10 DEF SetWithHasher, MapShape
  <2>2. MapShape'
    BY <1>0, <2>1 DEF MapShape, Walks
  <2>3. ASSUME ~stray'  PROVE Placed' /\ \A r \in Rangers : WalkRight(walk[r])'
    <3>1. \A s \in Shards : shards[s] = {}
      BY <2>1, <2>3 DEF Present
    <3>2. Placed'
      BY <2>1, <3>1 DEF Placed
    <3>3. \A r \in Rangers : WalkRight(walk[r])
      BY <2>1, <2>3 DEF MapInv
    <3> QED  BY <2>1, <3>2, <3>3 DEF WalkRight
  <2> QED  BY <2>2, <2>3 DEF MapInv
<1>11. CASE UNCHANGED mapVars
  <2>1. UNCHANGED <<shards, hasher, doing, walk, stray>>
    BY <1>11 DEF mapVars
  <2>2. MapShape' /\ (~stray => \A r \in Rangers : WalkRight(walk[r])')
    BY <1>0, <2>1, SamePlaces DEF MapInv, MapShape, WalkRight, Walks
  <2> QED  BY <2>1, <2>2, SamePlaces DEF MapInv
<1> QED  BY <1>1, <1>2, <1>3, <1>4, <1>5, <1>6, <1>7, <1>8, <1>9, <1>10, <1>11
            DEF MapNext, MapStep, RangeStep

LEMMA MapInvInit == MapInit => MapInv
<1> SUFFICES ASSUME MapInit  PROVE MapInv
  OBVIOUS
<1>1. /\ shards = [s \in Shards |-> {}] /\ hasher \in Hashers /\ stray = FALSE
      /\ doing = [p \in MapProcs |-> Idle] /\ walk = [r \in Rangers |-> NoWalk]
  BY DEF MapInit
<1>2. NoWalk \in Walks /\ NoWalk.phase = "idle" /\ ~NoWalk.again /\ NoWalk.seen = {}
  BY SomeShards DEF NoWalk, Walks, WalkPhases
<1>3. MapShape
  BY <1>1, <1>2 DEF MapShape, MapProcs
<1>4. \A r \in Rangers : WalkRight(walk[r])
  BY <1>1, <1>2 DEF WalkRight
<1>5. Placed
  BY <1>1 DEF Placed
<1> QED  BY <1>3, <1>4, <1>5 DEF MapInv

LEMMA WalksSee == MapInv => MapTypeOK /\ RangeSees
<1> SUFFICES ASSUME MapInv  PROVE MapTypeOK /\ RangeSees
  OBVIOUS
<1>1. \A r \in Rangers : /\ walk[r].phase \in WalkPhases /\ walk[r].at \in 0..(ShardCount + 1)
                         /\ walk[r].todo \cup walk[r].seen \cup walk[r].kept \cup walk[r].ever \subseteq MapKeys
  BY DEF MapInv, MapShape, Walks
<1>2. MapTypeOK
  BY <1>1 DEF MapInv, MapShape, MapTypeOK, Placed, WalkPhases
<1> QED  BY <1>2 DEF MapInv, RangeSees, WalkRight

\* The keys of a sharded map are in its shards, those of their hashes unless the hash was
\* changed (sharded_map.go:106-147, 187-189).
THEOREM MapTypes == MapSpec => []MapTypeOK
<1> QED  BY WalksSee, MapInvInit, MapInvKept, PTL DEF MapSpec

\* A walk that locks one shard after the other meets each key that is there all the time
\* once, and none that never was, for any hash and any calls meanwhile, its own included
\* (sharded_map.go:150-173).
THEOREM WalksSeeAll == MapSpec => []RangeSees
<1> QED  BY WalksSee, MapInvInit, MapInvKept, PTL DEF MapSpec

-----------------------------------------------------------------------------
(* The map whose entries expire.  What a user that is in Get has read, and what a user  *)
(* that is to delete will find.                                                         *)
UserFinds(u) == LET k == use[u].key IN
    /\ use[u].op = "get" =>
         entries[k] = Missing \/ entries[k].until <= use[u].until \/ u \in entries[k].during
    /\ use[u].op = "purge" =>
         entries[k] = Missing \/ Expired(entries[k].until, tick) \/ u \in entries[k].during

TTLInv == TTLTypeOK /\ \A u \in Users : UserFinds(u)

\* An entry is what a Get that is under way can tell.
LEMMA EntryParts ==
    ASSUME TTLInv
    PROVE  /\ \A k \in TTLKeys : entries[k] # Missing =>
                entries[k].until \in 0..(LastTick + Forever) /\ entries[k].during \in SUBSET Users
           /\ \A k \in TTLKeys, ttl \in Lifetimes :
                /\ Entry(k, ttl) \in TTLEntries /\ Entry(k, ttl) # Missing
                /\ \A u \in Users : use[u].op \in {"get", "purge"} /\ use[u].key = k => u \in Entry(k, ttl).during
           /\ \A u \in Users : use[u] # NoUse => use[u].key \in TTLKeys /\ use[u].until \in 0..(LastTick + Forever)
                                 /\ use[u].op \in {"get", "purge", "delete"}
           /\ \A u \in Users : use[u].op \in {"get", "purge", "delete"} => use[u] # NoUse
           /\ NoUse.op = "none"
           /\ tick \in Nat /\ LastTick \in Nat /\ Forever \in Nat
<1>0. TTLTypeOK /\ tick \in 0..LastTick /\ LastTick \in Nat /\ Forever \in Nat /\ Forever > LastTick
  BY TTLAssumption DEF TTLInv, TTLTypeOK
<1>1. \A e \in TTLEntries : e # Missing
  BY TTLAssumption, <1>0 DEF TTLEntries
<1>2. ASSUME NEW k \in TTLKeys, entries[k] # Missing
      PROVE  entries[k].until \in 0..(LastTick + Forever) /\ entries[k].during \in SUBSET Users
  BY <1>0, <1>2 DEF TTLTypeOK, TTLEntries
<1>3. ASSUME NEW k \in TTLKeys, NEW ttl \in Lifetimes
      PROVE  /\ Entry(k, ttl) \in TTLEntries
             /\ \A u \in Users : use[u].op \in {"get", "purge"} /\ use[u].key = k => u \in Entry(k, ttl).during
  <2>1. ttl \in 0..Forever
    BY <1>0, TTLAssumption DEF Lifetimes
  <2>2. tick + ttl \in 0..(LastTick + Forever)
    BY <1>0, <2>1
  <2> QED  BY <2>2 DEF Entry, TTLEntries, Getting
<1>4. NoUse.op = "none"
  BY DEF NoUse
<1>5. \A u \in Users : use[u] # NoUse =>
        /\ use[u].key \in TTLKeys /\ use[u].until \in 0..(LastTick + Forever)
        /\ use[u].op \in {"get", "purge", "delete"}
  BY <1>0 DEF TTLTypeOK
<1> QED  BY <1>0, <1>1, <1>2, <1>3, <1>4, <1>5

\* A call that stores an entry, or extends one.
LEMMA TTLPuts ==
    ASSUME TTLInv, NEW k \in TTLKeys, NEW ttl \in Lifetimes,
           Put(k, Entry(k, ttl)), UNCHANGED <<tick, use, sweep, loop>>
    PROVE  TTLInv' /\ EntryLasts
<1>1. /\ entries' = [entries EXCEPT ![k] = Entry(k, ttl)] /\ entries \in [TTLKeys -> TTLEntries \cup {Missing}]
      /\ tick' = tick /\ use' = use /\ sweep' = sweep /\ loop' = loop
  BY DEF Put, TTLInv, TTLTypeOK
<1>2. TTLTypeOK'
  BY <1>1, EntryParts DEF TTLInv, TTLTypeOK
<1>3. ASSUME NEW u \in Users  PROVE UserFinds(u)'
  <2>1. CASE use[u].op \notin {"get", "purge"}
    BY <1>1, <2>1 DEF UserFinds
  <2>2. CASE use[u].op \in {"get", "purge"}
    <3>1. use[u].key \in TTLKeys /\ UserFinds(u)
      BY <2>2, EntryParts DEF TTLInv
    <3>2. CASE use[u].key = k
      <4>1. entries'[k] = Entry(k, ttl) /\ u \in Entry(k, ttl).during
        BY <1>1, <2>2, <3>2, EntryParts
      <4> QED  BY <1>1, <3>2, <4>1 DEF UserFinds
    <3>3. CASE use[u].key # k
      <4>1. entries'[use[u].key] = entries[use[u].key]
        BY <1>1, <3>1, <3>3
      <4> QED  BY <1>1, <3>1, <4>1 DEF UserFinds
    <3> QED  BY <3>2, <3>3
  <2> QED  BY <2>1, <2>2
<1>4. EntryLasts
  <2>1. \A j \in TTLKeys : entries'[j] = entries[j] \/ entries'[j] # Missing
    BY <1>1, EntryParts
  <2> QED  BY <2>1 DEF EntryLasts, Live
<1> QED  BY <1>2, <1>3, <1>4 DEF TTLInv

\* A call of another user leaves what a user finds, if it takes at most what it had found.
LEMMA TTLFinds ==
    ASSUME TTLInv, NEW u \in Users, use'[u] = use[u], tick' = tick,
           \A k \in TTLKeys : entries'[k] \in {entries[k], Missing}
    PROVE  UserFinds(u)'
<1>1. CASE use[u].op \notin {"get", "purge"}
  BY <1>1 DEF UserFinds
<1>2. CASE use[u].op \in {"get", "purge"}
  <2>1. use[u].key \in TTLKeys /\ UserFinds(u)
    BY <1>2, EntryParts DEF TTLInv
  <2>2. entries'[use[u].key] \in {entries[use[u].key], Missing}
    BY <2>1
  <2> QED  BY <2>1, <2>2 DEF UserFinds, Expired
<1> QED  BY <1>1, <1>2

LEMMA TTLInvKept == TTLInv /\ [TTLNext]_ttlVars => TTLInv' /\ [EntryLasts]_ttlVars
<1> SUFFICES ASSUME TTLInv, [TTLNext]_ttlVars
             PROVE  TTLInv' /\ (EntryLasts \/ UNCHANGED ttlVars)
  OBVIOUS
<1>0. TTLTypeOK /\ TTLAssumption /\ \A u \in Users : UserFinds(u)
  BY TTLAssumption DEF TTLInv
<1>s. ASSUME entries' = entries  PROVE EntryLasts
  BY <1>s DEF EntryLasts, Live
<1>1. CASE TTLTick
  <2>1. tick' = tick + 1 /\ tick' \in 0..LastTick /\ UNCHANGED <<entries, use, sweep, loop>> /\ tick \in Nat
    BY <1>0, <1>1 DEF TTLTick, TTLTypeOK, TTLAssumption
  <2>2. TTLTypeOK'
    BY <1>0, <2>1 DEF TTLTypeOK
  <2>3. ASSUME NEW u \in Users  PROVE UserFinds(u)'
    <3>1. CASE use[u].op \notin {"get", "purge"}
      BY <2>1, <3>1 DEF UserFinds
    <3>2. CASE use[u].op \in {"get", "purge"}
      <4>1. use[u].key \in TTLKeys /\ UserFinds(u)
        BY <1>0, <3>2, EntryParts
      <4>2. entries[use[u].key] = Missing \/ entries[use[u].key].until \in Nat
        BY <4>1, EntryParts
      <4> QED  BY <2>1, <4>1, <4>2 DEF UserFinds, Expired
    <3> QED  BY <3>1, <3>2
  <2> QED  BY <1>s, <2>1, <2>2, <2>3 DEF TTLInv
<1>2. ASSUME NEW k \in TTLKeys, NEW ttl \in Lifetimes, TTLSet(k, ttl) \/ Touch(k, ttl) \/ GetOrSet(k, ttl)
      PROVE  TTLInv' /\ EntryLasts
  BY <1>2, TTLPuts DEF TTLSet, Touch, GetOrSet
<1>3. ASSUME NEW u \in Users, NEW c, Uses(u, c),
             c \in {NoUse} \cup [op : {"delete", "get", "purge"}, key : TTLKeys, until : 0..(LastTick + Forever)],
             c.op = "get" => entries[c.key] = Missing \/ entries[c.key].until <= c.until \/ u \in entries[c.key].during,
             c.op = "purge" => entries[c.key] = Missing \/ Expired(entries[c.key].until, tick) \/ u \in entries[c.key].during
      PROVE  TTLInv' /\ EntryLasts
  <2>1. use' = [use EXCEPT ![u] = c] /\ UNCHANGED <<tick, entries, sweep, loop>>
    BY <1>3 DEF Uses
  <2>2. TTLTypeOK' /\ use'[u] = c /\ \A v \in Users \ {u} : use'[v] = use[v]
    BY <1>0, <1>3, <2>1 DEF TTLTypeOK
  <2>3. UserFinds(u)'
    BY <1>3, <2>1, <2>2 DEF UserFinds
  <2>4. ASSUME NEW v \in Users \ {u}  PROVE UserFinds(v)'
    BY <2>1, <2>2, TTLFinds
  <2> QED  BY <1>s, <2>1, <2>2, <2>3, <2>4 DEF TTLInv
<1>4. ASSUME NEW u \in Users, NEW k \in TTLKeys, DeleteCall(u, k)
      PROVE  TTLInv' /\ EntryLasts
  <2>1. Call("delete", k, 0) \in [op : {"delete", "get", "purge"}, key : TTLKeys, until : 0..(LastTick + Forever)]
        /\ Call("delete", k, 0).op = "delete"
    BY EntryParts DEF Call
  <2> QED  BY <1>3, <1>4, <2>1 DEF DeleteCall
<1>5. ASSUME NEW u \in Users, NEW k \in TTLKeys, GetRead(u, k)
      PROVE  TTLInv' /\ EntryLasts
  <2> DEFINE c == Call("get", k, entries[k].until)
  <2>1. entries[k] # Missing /\ entries[k].until \in 0..(LastTick + Forever) /\ Uses(u, c)
    BY <1>5, EntryParts DEF GetRead
  <2>2. /\ c \in [op : {"delete", "get", "purge"}, key : TTLKeys, until : 0..(LastTick + Forever)]
        /\ c.op = "get" /\ c.key = k /\ c.until = entries[k].until
    BY <2>1 DEF Call
  <2>3. entries[c.key].until <= c.until
    BY <2>1, <2>2, EntryParts
  <2> HIDE DEF c
  <2> QED  BY <1>3, <2>1, <2>2, <2>3
<1>6. ASSUME NEW u \in Users, GetChecks(u)
      PROVE  TTLInv' /\ EntryLasts
  <2>1. use[u].op = "get" /\ use[u].key \in TTLKeys /\ use[u].until \in Nat /\ UserFinds(u) /\ tick \in Nat
        /\ LastTick \in Nat /\ Forever \in Nat
    BY <1>0, <1>6, EntryParts DEF GetChecks
  <2>2. CASE Expired(use[u].until, tick)
    <3> DEFINE c == Call("purge", use[u].key, 0)
    <3>1. /\ c \in [op : {"delete", "get", "purge"}, key : TTLKeys, until : 0..(LastTick + Forever)]
          /\ c.op = "purge" /\ c.key = use[u].key
      BY <2>1 DEF Call
    <3>2. Uses(u, c)
      BY <1>6, <2>2 DEF GetChecks
    <3>3. entries[c.key] = Missing \/ entries[c.key].until \in Nat
      BY <2>1, <3>1, EntryParts
    <3>4. entries[c.key] = Missing \/ Expired(entries[c.key].until, tick) \/ u \in entries[c.key].during
      BY <2>1, <2>2, <3>1, <3>3 DEF UserFinds, Expired
    <3> HIDE DEF c
    <3> QED  BY <1>3, <3>1, <3>2, <3>4
  <2>3. CASE ~Expired(use[u].until, tick)
    <3>1. Uses(u, NoUse) /\ NoUse.op = "none"
      BY <1>6, <2>3, EntryParts DEF GetChecks
    <3> QED  BY <1>3, <3>1
  <2> QED  BY <2>2, <2>3
<1>7. ASSUME NEW u \in Users, TTLDelete(u)
      PROVE  TTLInv' /\ EntryLasts
  <2> DEFINE k == use[u].key
  <2>1. /\ use[u].op \in {"delete", "purge"} /\ k \in TTLKeys /\ UserFinds(u)
        /\ entries' = [entries EXCEPT ![k] = Missing] /\ use' = [use EXCEPT ![u] = NoUse]
        /\ UNCHANGED <<tick, sweep, loop>>
    BY <1>0, <1>7, EntryParts DEF TTLDelete, Put
  <2>2. /\ TTLTypeOK' /\ use'[u] = NoUse /\ \A v \in Users \ {u} : use'[v] = use[v]
        /\ \A j \in TTLKeys : entries'[j] = IF j = k THEN Missing ELSE entries[j]
    BY <1>0, <2>1 DEF TTLTypeOK
  <2>3. ASSUME NEW v \in Users \ {u}  PROVE UserFinds(v)'
    BY <2>1, <2>2, TTLFinds
  <2>4. UserFinds(u)'
    BY <2>2, EntryParts DEF UserFinds
  <2>5. EntryLasts
    <3> SUFFICES ASSUME NEW j \in TTLKeys, Live(j), entries'[j] = Missing
                 PROVE  \E v \in Users : /\ use[v].op = "delete" \/ (use[v].op = "purge" /\ v \in entries[j].during)
                                         /\ use[v].key = j /\ use'[v] = NoUse
      BY DEF EntryLasts
    <3>1. j = k
      BY <2>2 DEF Live
    <3>2. use[u].op = "delete" \/ (use[u].op = "purge" /\ u \in entries[j].during)
      BY <2>1, <3>1 DEF Live, UserFinds
    <3> QED  BY <2>2, <3>1, <3>2
  <2> QED  BY <2>2, <2>3, <2>4, <2>5 DEF TTLInv
<1>8. CASE SweepBegin
  <2>1. sweep' = [at |-> tick, keys |-> TTLKeys] /\ UNCHANGED <<tick, entries, use, loop>> /\ tick \in 0..tick
    BY <1>8, EntryParts DEF SweepBegin
  <2>2. TTLTypeOK'
    BY <1>0, <2>1 DEF TTLTypeOK
  <2>3. \A u \in Users : UserFinds(u)'
    BY <2>1, TTLFinds
  <2> QED  BY <1>s, <2>1, <2>2, <2>3 DEF TTLInv
<1>9. ASSUME NEW k \in TTLKeys, SweepShard(k)
      PROVE  TTLInv' /\ EntryLasts
  <2>1. /\ UNCHANGED <<tick, use, loop>> /\ sweep.at \in 0..tick /\ tick \in Nat
        /\ sweep \in [at : 0..tick, keys : SUBSET TTLKeys]
    BY <1>0, <1>9, EntryParts DEF SweepShard, TTLTypeOK
  <2>2. sweep' \in [at : 0..tick, keys : SUBSET TTLKeys]
    BY <1>9, <2>1 DEF SweepShard, NoSweep
  <2>3. /\ entries' \in [TTLKeys -> TTLEntries \cup {Missing}]
        /\ \A j \in TTLKeys : entries'[j] = IF j = k /\ entries[k] # Missing /\ Sweeps(k) THEN Missing ELSE entries[j]
    BY <1>0, <1>9 DEF SweepShard, TTLTypeOK
  <2>4. TTLTypeOK'
    BY <1>0, <2>1, <2>2, <2>3 DEF TTLTypeOK
  <2>5. \A u \in Users : UserFinds(u)'
    BY <2>1, <2>3, TTLFinds
  <2>6. ASSUME NEW j \in TTLKeys, Live(j)  PROVE entries'[j] # Missing
    <3>1. entries[j] # Missing /\ entries[j].until \in Nat /\ ~(tick > entries[j].until)
      BY <2>6, EntryParts DEF Live, Expired
    <3>2. j = k => ~Sweeps(k)
      BY <2>1, <3>1 DEF Sweeps, Expired
    <3> QED  BY <2>3, <3>1, <3>2
  <2> QED  BY <2>4, <2>5, <2>6 DEF TTLInv, EntryLasts
<1>10. CASE TTLClose \/ LoopEnds
  <2>1. UNCHANGED <<tick, entries, use, sweep>> /\ loop' \in {"on", "stopping", "off"}
    BY <1>10 DEF TTLClose, LoopEnds
  <2>2. TTLTypeOK'
    BY <1>0, <2>1 DEF TTLTypeOK
  <2>3. \A u \in Users : UserFinds(u)'
    BY <2>1, TTLFinds
  <2> QED  BY <1>s, <2>1, <2>2, <2>3 DEF TTLInv
<1>11. CASE UNCHANGED ttlVars
  <2>1. UNCHANGED <<tick, entries, use, sweep, loop>>
    BY <1>11 DEF ttlVars
  <2>2. TTLTypeOK' /\ \A u \in Users : UserFinds(u)'
    BY <1>0, <2>1, TTLFinds DEF TTLTypeOK
  <2> QED  BY <1>11, <2>2 DEF TTLInv
<1> QED  BY <1>1, <1>2, <1>4, <1>5, <1>6, <1>7, <1>8, <1>9, <1>10, <1>11 DEF TTLNext

LEMMA TTLInvInit == TTLInit => TTLInv
<1> SUFFICES ASSUME TTLInit  PROVE TTLInv
  OBVIOUS
<1>1. tick = 0 /\ 0 \in 0..LastTick /\ 0 \in 0..0
  BY TTLAssumption DEF TTLInit
<1>2. TTLTypeOK
  BY <1>1 DEF TTLInit, TTLTypeOK, NoSweep
<1>3. \A u \in Users : UserFinds(u)
  BY DEF TTLInit, UserFinds, NoUse
<1> QED  BY <1>2, <1>3 DEF TTLInv

\* An entry is valid until a time of the clock, and the cleanup goes by a time that was
\* (ttl_map.go:106-119, 224-235).
THEOREM TTLTypes == TTLSpec => []TTLTypeOK
<1>1. TTLInv => TTLTypeOK
  BY DEF TTLInv
<1> QED  BY <1>1, TTLInvInit, TTLInvKept, PTL DEF TTLSpec

\* An entry that is alive goes by a Delete, or by a Get that began before it was stored,
\* and never by the cleanup (ttl_map.go:84-99, 116, 224-235).
THEOREM EntriesStay == TTLSpec => EntriesLast
<1> QED  BY TTLInvInit, TTLInvKept, PTL DEF TTLSpec, EntriesLast

-----------------------------------------------------------------------------
\* A behaviour of the structures put together is one of each of them, so that what was
\* proved of one holds there: a step of another leaves it as it is.
THEOREM PartsBehave ==
    Spec => /\ LRUSpec /\ CacheSpec /\ RateSpec /\ CronSpec /\ QueueSpec
            /\ MapSpec /\ TTLSpec /\ RetrySpec /\ PoolSpec
<1>1. Init => /\ LRUInit /\ CacheInit /\ RateInit /\ CronInit /\ QueueInit
              /\ MapInit /\ TTLInit /\ RetryInit /\ PoolInit
  BY DEF Init
<1>2. [Next]_allVars => /\ [LRUNext]_lruVars /\ [CacheNext]_cacheVars /\ [RateNext]_rateVars
                        /\ [CronNext]_cronVars /\ [QueueNext]_queueVars /\ [MapNext]_mapVars
                        /\ [TTLNext]_ttlVars /\ [RetryNext]_retryVars /\ [PoolNext]_poolVars
  BY DEF Next, allVars, Only, InLRU, InAside, InRate, InCron, InQueue, InMap, InTTL, InRetry, InPool
<1> QED  BY <1>1, <1>2, PTL DEF Spec, LRUSpec, CacheSpec, RateSpec, CronSpec, QueueSpec,
                                MapSpec, TTLSpec, RetrySpec, PoolSpec

\* What is in a map all the time is seen, and stays until somebody removes it, whatever
\* the other structures do (sharded_map.go:150-173, ttl_map.go:84-99, 224-235).
THEOREM MapsAreKept == Spec => MapsKeep
<1>1. Init => MapInv /\ TTLInv
  BY MapInvInit, TTLInvInit DEF Init
<1>2. MapInv /\ TTLInv /\ [Next]_allVars => MapInv' /\ TTLInv' /\ EntryLasts
  <2> SUFFICES ASSUME MapInv, TTLInv, [Next]_allVars
               PROVE  MapInv' /\ TTLInv' /\ EntryLasts
    OBVIOUS
  <2>1. [MapNext]_mapVars /\ [TTLNext]_ttlVars
    BY DEF Next, allVars, Only, InLRU, InAside, InRate, InCron, InQueue, InMap, InTTL, InRetry, InPool
  <2>2. MapInv' /\ TTLInv' /\ [EntryLasts]_ttlVars
    BY <2>1, MapInvKept, TTLInvKept
  <2>3. UNCHANGED ttlVars => EntryLasts
    BY DEF ttlVars, EntryLasts, Live
  <2> QED  BY <2>2, <2>3
<1>3. MapInv => RangeSees
  BY WalksSee
<1> QED  BY <1>1, <1>2, <1>3, PTL DEF Spec, MapsKeep

\* The list of LRUCache does what the order of recency says and the heap what the order of
\* priority says, whatever the other structures do (lru.go:147-232, priority_queue.go:77-151).
THEOREM PromisesAreKept == Spec => Implements
<1> QED  BY PartsBehave, ListImplementsOrder, HeapImplementsOrder, PTL DEF Implements

\* Type correctness of the structures together.
THEOREM StructureTypes == Spec => []TypeOK
<1>1. RetryInv => RetryTypeOK
  BY DEF RetryInv
<1>2. RetrySpec => []RetryTypeOK
  BY <1>1, RetryInvariant, PTL DEF RetrySpec
<1> QED  BY <1>2, PartsBehave, LRUTypes, CacheTypes, LimiterTypes, CronTypes, QueueTypes,
            MapTypes, TTLTypes, PoolTypes, PTL DEF TypeOK
=============================================================================
