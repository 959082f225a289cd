---------------------------- MODULE RateLimiters ----------------------------
(***************************************************************************)
(* stage1/01-concurrent-counter/ratelimiter: token bucket, leaky bucket,   *)
(* sliding-window log and sliding-window counter; `kind` says which one    *)
(* the behaviour is about.  Every call is one critical section of its      *)
(* mutex.  Time goes by in ticks, and the amounts in the buckets, floats   *)
(* in the code, are counted exactly, in parts of which a request has Unit. *)
(***************************************************************************)
EXTENDS Integers, Sequences

CONSTANTS
    Burst,    \* maxTokens of the token bucket, capacity of the leaky one
    Unit, Rate,  \* Rate / Unit requests are refilled, or leak, in a tick
    Limit,       \* limit of the sliding windows
    Window,      \* their window, in ticks
    MaxAsk,      \* bound: n of AllowN
    MaxTime      \* bound on the clock

ASSUME RateAssumption ==
    /\ {Burst, Limit, MaxAsk, MaxTime, Rate} \subseteq Nat
    /\ {Unit, Window} \subseteq Nat \ {0}

Kinds == {"token", "leaky", "log", "counter"}

VARIABLES
    kind,       \* which limiter
    now,        \* time.Now()
    level,      \* tokens, or remaining, which counts what is in the leaky bucket
    last,       \* lastRefill, lastLeakTime
    stamps,     \* timestamps of the log
    fixed,      \* windowStart, currentCount and previousCount of the counter
    sum,        \* requests granted so far (history)
    before      \* requests granted before a tick (history)

rateVars == <<kind, now, level, last, stamps, fixed, sum, before>>

RateInit ==
    /\ kind \in Kinds
    /\ now = 0 /\ last = 0
    /\ level = IF kind = "token" THEN Burst * Unit ELSE 0
    /\ stamps = <<>>
    /\ fixed = [start |-> 0, current |-> 0, previous |-> 0]
    /\ sum = 0 /\ before = [t \in 0..MaxTime |-> 0]

RateTick ==
    /\ now < MaxTime
    /\ now' = now + 1
    /\ before' = [before EXCEPT ![now + 1] = sum]
    /\ UNCHANGED <<kind, level, last, stamps, fixed, sum>>

-----------------------------------------------------------------------------
\* Faulty variant: the bucket is not capped.
RefilledUncapped == level + Rate * (now - last)
\* refill
Refilled == LET sofar == level + Rate * (now - last) IN
            IF sofar > Burst * Unit THEN Burst * Unit ELSE sofar

\* leak
Leaked == LET left == level - Rate * (now - last) IN IF left < 0 THEN 0 ELSE left

\* cleanup: the log is cut before the first stamp that is younger than the window.
Old(i) == stamps[i] <= now - Window
ValidIndex == CHOOSE i \in 1..(Len(stamps) + 1) :
    (\A j \in 1..(i - 1) : Old(j)) /\ (i <= Len(stamps) => ~Old(i))
Recent == SubSeq(stamps, ValidIndex, Len(stamps))

\* Faulty variant: after a long pause the old window still counts as the previous one.
AdvancedAlways ==
    IF now - fixed.start < Window THEN fixed
    ELSE [start |-> now, current |-> 0, previous |-> fixed.current]
\* advanceWindow
Advanced ==
    CASE now - fixed.start < Window -> fixed
      [] now - fixed.start \in Window..(2 * Window - 1) ->
           [start |-> fixed.start + Window, current |-> 0, previous |-> fixed.current]
      [] OTHER -> [start |-> now, current |-> 0, previous |-> 0]

\* The weighted count of the counter, times Window.
Weighted == Advanced.previous * (Window - (now - Advanced.start)) + Advanced.current * Window

\* What the limiter answers to AllowN(n) now; the counter has only Allow.
Admits(n) ==
    CASE kind = "token" -> Refilled >= n * Unit
      [] kind = "leaky" -> Leaked + n * Unit <= Burst * Unit
      [] kind = "log" -> Len(Recent) + n <= Limit
      [] kind = "counter" -> n = 0 \/ Weighted < Limit * Window

-----------------------------------------------------------------------------
Granted(n) == sum' = sum + n
Given(n) == IF Admits(n) THEN n ELSE 0

\* Allow, AllowN and, with n = 0, Tokens.
AllowTokens(n) ==
    /\ kind = "token"
    /\ level' = Refilled - Given(n) * Unit /\ last' = now
    /\ Granted(Given(n))
    /\ UNCHANGED <<kind, now, stamps, fixed, before>>

\* Allow, AllowN and, with n = 0, Remaining.
AllowLeaky(n) ==
    /\ kind = "leaky"
    /\ level' = Leaked + Given(n) * Unit /\ last' = now
    /\ Granted(Given(n))
    /\ UNCHANGED <<kind, now, stamps, fixed, before>>

\* Allow, AllowN and, with n = 0, Count.
AllowLog(n) ==
    /\ kind = "log"
    /\ stamps' = Recent \o [i \in 1..Given(n) |-> now]
    /\ Granted(Given(n))
    /\ UNCHANGED <<kind, now, level, last, fixed, before>>

\* Allow
AllowCounter ==
    /\ kind = "counter"
    /\ fixed' = [Advanced EXCEPT !.current = @ + Given(1)]
    /\ Granted(Given(1))
    /\ UNCHANGED <<kind, now, level, last, stamps, before>>

RateNext ==
    \/ \E n \in 0..MaxAsk : AllowTokens(n)
    \/ \E n \in 0..MaxAsk : AllowLeaky(n)
    \/ \E n \in 0..MaxAsk : AllowLog(n)
    \/ AllowCounter
    \/ RateTick

RateSpec == RateInit /\ [][RateNext]_rateVars

-----------------------------------------------------------------------------
RateTypeOK ==
    /\ kind \in Kinds /\ now \in 0..MaxTime /\ last \in 0..now
    /\ level \in 0..(Burst * Unit)
    /\ stamps \in Seq(0..now) /\ Len(stamps) <= Limit
    /\ fixed.start \in 0..now /\ {fixed.current, fixed.previous} \subseteq 0..Limit
    /\ sum \in Nat /\ before \in [0..MaxTime -> 0..sum]

\* The requests granted from tick s up to now.
Since(s) == sum - before[s]

\* What a limiter of this kind can have granted from tick s up to now: a bucket its
\* burst and what the time since s was worth, the log its limit in a window, the
\* counter, which weights whole windows, up to twice the limit.
Fits(s, granted) ==
    CASE kind \in {"token", "leaky"} -> granted * Unit <= Burst * Unit + Rate * (now - s)
      [] kind = "log" -> now - s < Window => granted <= Limit
      [] kind = "counter" -> now - s < Window => granted <= 2 * Limit

\* No interval sees more than that, wherever it begins and ends, whatever pauses and
\* refused calls lie between (token_bucket.go:91-105, leaky_bucket.go:92-106,
\* sliding_window.go:96-116, 161-196).
RateBounded == \A s \in 0..now : Fits(s, Since(s))

\* A request is refused only when granting it would break the bound; the counter, which
\* is approximate, refuses only when the last two windows had the limit.
RefusalsDue == \A n \in 0..MaxAsk : ~Admits(n) =>
    \E s \in 0..now : IF kind = "counter" THEN now - s < 2 * Window /\ Since(s) >= Limit
                      ELSE ~Fits(s, Since(s) + n)
=============================================================================
