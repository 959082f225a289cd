------------------------------ MODULE LRUOrder ------------------------------
(***************************************************************************)
(* What stage2/05-cache/cache/lru.go promises: at most Capacity keys, kept *)
(* from the most to the least recently used, of which the last one makes   *)
(* room for a new key.                                                     *)
(***************************************************************************)
EXTENDS Integers, SequencesExt

CONSTANTS
    Keys,
    Capacity   \* c.capacity

VARIABLES
    order,     \* the keys, most recently used first
    mortal,    \* the keys stored with a time to live
    expired    \* those of them whose time is over

orderVars == <<order, mortal, expired>>

OrderInit == order = <<>> /\ mortal = {} /\ expired = {}

Held == ToSet(order)

\* The keys of s without k, which is among them once at most.
Dropped(s, k) == IF k \in ToSet(s) THEN RemoveAt(s, CHOOSE i \in DOMAIN s : s[i] = k) ELSE s
ToFront(k) == <<k>> \o Dropped(order, k)

\* A hit makes the key the most recently used one; an expired key is dropped.
Get(k) ==
    /\ k \in Held
    /\ order' = IF k \in expired THEN Dropped(order, k) ELSE ToFront(k)
    /\ mortal' = mortal \ (expired \cap {k})
    /\ expired' = expired \ {k}

\* A new key takes the place of the least recently used one when there is no room.
Set(k, ttl) ==
    LET kept == IF k \in Held \/ Len(order) < Capacity THEN order ELSE Front(order) IN
    /\ order' = <<k>> \o Dropped(kept, k)
    /\ mortal' = ((mortal \cap ToSet(kept)) \ {k}) \cup (IF ttl THEN {k} ELSE {})
    /\ expired' = (expired \cap ToSet(kept)) \ {k}

Delete(k) ==
    /\ k \in Held
    /\ order' = Dropped(order, k)
    /\ mortal' = mortal \ {k} /\ expired' = expired \ {k}

Clear == order' = <<>> /\ mortal' = {} /\ expired' = {}

Expire(k) == k \in mortal \ expired /\ expired' = expired \cup {k} /\ UNCHANGED <<order, mortal>>

OrderNext ==
    \/ \E k \in Keys : Get(k)
    \/ \E k \in Keys, ttl \in BOOLEAN : Set(k, ttl)
    \/ \E k \in Keys : Delete(k)
    \/ Clear
    \/ \E k \in Keys : Expire(k)

OrderSpec == OrderInit /\ [][OrderNext]_orderVars
=============================================================================
