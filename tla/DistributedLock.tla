-------------------------- MODULE DistributedLock --------------------------
(***************************************************************************)
(* stage2/07-task-scheduler/scheduler/waiter.go, DistributedLock: a lease  *)
(* per key, taken over once it has expired.  Every method is one critical  *)
(* section of dl.mu.  A holder does not look at the map: what it knows is  *)
(* when the lease it was given ends.                                       *)
(***************************************************************************)
EXTENDS Integers

CONSTANTS
    Holders,   \* the names goroutines lock under
    Keys,      \* what is locked
    TTLs,      \* times to live
    MaxTime,   \* bound: the clock stops there
    Free       \* the key is not in dl.locks

ASSUME LockAssumption == TTLs \subseteq Nat /\ MaxTime \in Nat /\ Free \notin Holders

VARIABLES
    now,      \* time.Now()
    holder,   \* dl.locks[key].holder, or Free
    expires,  \* dl.locks[key].expiresAt
    lease     \* when the lease a holder was last given ends; 0 once it released it

lockVars == <<now, holder, expires, lease>>

LockInit ==
    /\ now = 1
    /\ holder = [k \in Keys |-> Free]
    /\ expires = [k \in Keys |-> 0]
    /\ lease = [k \in Keys |-> [h \in Holders |-> 0]]

Tick == now < MaxTime /\ now' = now + 1 /\ UNCHANGED <<holder, expires, lease>>

\* The lease of k now belongs to h and ends at time t.
Grant(k, h, t) ==
    /\ holder' = [holder EXCEPT ![k] = h]
    /\ expires' = [expires EXCEPT ![k] = t]
    /\ lease' = [lease EXCEPT ![k][h] = t]
    /\ UNCHANGED now

\* Faulty variant: a lease of another holder that still runs does not block.
BlockedNever(k, h) == FALSE
\* info.expiresAt.After(now) && info.holder != holder
Blocked(k, h) == holder[k] \notin {Free, h} /\ expires[k] > now

\* Acquire when it returns true: a free lock, one's own, or an expired one.
LockAcquire(k, h) == ~Blocked(k, h) /\ \E ttl \in TTLs : Grant(k, h, now + ttl)

\* Release: whoever is named in the map is gone; a holder that lost the lock to
\* another one changes nothing.
LockRelease(k, h) ==
    /\ lease' = [lease EXCEPT ![k][h] = 0]
    /\ holder' = IF holder[k] = h THEN [holder EXCEPT ![k] = Free] ELSE holder
    /\ UNCHANGED <<now, expires>>

\* Faulty variant: the holder is not compared.
OwnedByAnyone(k, h) == holder[k] # Free
Owned(k, h) == holder[k] = h

\* Extend when it returns true: the lease may have expired meanwhile.
LockExtend(k, h) == Owned(k, h) /\ \E ttl \in TTLs : Grant(k, h, now + ttl)

LockNext ==
    \/ Tick
    \/ \E k \in Keys, h \in Holders : LockAcquire(k, h)
    \/ \E k \in Keys, h \in Holders : LockRelease(k, h)
    \/ \E k \in Keys, h \in Holders : LockExtend(k, h)

LockSpec == LockInit /\ [][LockNext]_lockVars

-----------------------------------------------------------------------------
LockTypeOK ==
    /\ now \in Nat
    /\ holder \in [Keys -> Holders \cup {Free}]
    /\ expires \in [Keys -> Nat]
    /\ lease \in [Keys -> [Holders -> Nat]]

\* A lease that has not ended is the one the map records.
LeaseRecorded == \A k \in Keys, h \in Holders :
    lease[k][h] > now => holder[k] = h /\ expires[k] = lease[k][h]

\* Two holders never both have a lease on a key that has not ended: late
\* releases, extensions of expired leases and take-overs included.
LeaseExclusive == \A k \in Keys, h, g \in Holders :
    lease[k][h] > now /\ lease[k][g] > now => h = g
=============================================================================
