------------------------------- MODULE Retry -------------------------------
(***************************************************************************)
(* stage1/03-web-crawler/crawler/retry.go: one call of RetryWithBackoff.   *)
(* Its context may be done at any moment, and the function it is given     *)
(* succeeds, or fails with an error that may be retried or one that not.   *)
(* How long a backoff lasts is left out.                                   *)
(***************************************************************************)
EXTENDS Integers

CONSTANT RetryCounts   \* what config.MaxRetries may be

ASSUME RetryAssumption == RetryCounts \subseteq Int

VARIABLES
    allowed,   \* config.MaxRetries
    attempt,   \* the loop variable
    stage,     \* where the call is
    ctxOver,   \* ctx is done
    calls,     \* how often fn was called (history)
    late       \* how often it was called when ctx was done (history)

retryVars == <<allowed, attempt, stage, ctxOver, calls, late>>

RetryInit ==
    /\ allowed \in RetryCounts
    /\ attempt = 0 /\ stage = "loop" /\ ctxOver = FALSE
    /\ calls = 0 /\ late = 0

RetryCtxDone ==
    /\ ~ctxOver /\ ctxOver' = TRUE
    /\ UNCHANGED <<allowed, attempt, stage, calls, late>>

\* Faulty variant: the context is not tested at the top of the loop.
RetryLoopBlind ==
    /\ stage = "loop"
    /\ stage' = IF attempt > allowed THEN "exhausted" ELSE "call"
    /\ UNCHANGED <<allowed, attempt, ctxOver, calls, late>>
\* The loop's condition, and the test of ctx.
RetryLoop ==
    /\ stage = "loop"
    /\ stage' = CASE attempt > allowed -> "exhausted"
                  [] attempt <= allowed /\ ctxOver -> "cancelled"
                  [] OTHER -> "call"
    /\ UNCHANGED <<allowed, attempt, ctxOver, calls, late>>

\* fn is called.
RetryCall ==
    /\ stage = "call" /\ stage' = "fn"
    /\ calls' = calls + 1
    /\ late' = IF ctxOver THEN late + 1 ELSE late
    /\ UNCHANGED <<allowed, attempt, ctxOver>>

\* fn returns: without an error, with one that is not to be retried, or with another;
\* there is no backoff after the last attempt.
RetryFnReturns ==
    /\ stage = "fn"
    /\ stage' \in {"succeeded", "refused", IF attempt = allowed THEN "exhausted" ELSE "backoff"}
    /\ UNCHANGED <<allowed, attempt, ctxOver, calls, late>>

\* The select of the backoff, which may choose the timer although ctx is done.
RetryBackoff ==
    /\ stage = "backoff"
    /\ \/ ctxOver /\ stage' = "cancelled" /\ UNCHANGED attempt
       \/ stage' = "loop" /\ attempt' = attempt + 1
    /\ UNCHANGED <<allowed, ctxOver, calls, late>>

RetryNext == RetryCtxDone \/ RetryLoop \/ RetryCall \/ RetryFnReturns \/ RetryBackoff

RetrySpec == RetryInit /\ [][RetryNext]_retryVars

-----------------------------------------------------------------------------
RetryTypeOK ==
    /\ allowed \in RetryCounts /\ attempt \in Nat /\ ctxOver \in BOOLEAN
    /\ stage \in {"loop", "call", "fn", "backoff", "succeeded", "refused", "exhausted", "cancelled"}
    /\ calls \in Nat /\ late \in 0..calls

\* fn is called MaxRetries + 1 times at the most, and all of them before the call gives
\* up; once ctx is done at most one more call of it begins, however the select of the
\* backoff chooses (retry.go:76-110).
RetryBounded ==
    /\ calls <= IF allowed < 0 THEN 0 ELSE allowed + 1
    /\ stage = "exhausted" => calls = IF allowed < 0 THEN 0 ELSE allowed + 1
    /\ late <= 1
=============================================================================
