--------------------------- MODULE RequestLimits ---------------------------
(***************************************************************************)
(* stage3/09-http-server/server: a request on its way through the chain    *)
(* of server.go, RecoveryMiddleware around MaxConcurrencyMiddleware around *)
(* TimeoutMiddleware around a handler.  The timeout runs the handler in a  *)
(* goroutine of its own and answers itself when the deadline comes first;  *)
(* the handler goes on then, unnoticed, and its slot is given to others.   *)
(***************************************************************************)
EXTENDS Integers, FiniteSets

CONSTANTS
    Requests,
    Limit        \* of MaxConcurrencyMiddleware

ASSUME LimitAssumption == Limit \in Nat \ {0}

VARIABLES
    slots,       \* len(sem)
    request,     \* where the goroutine of a request is
    handler,     \* where the goroutine of its handler is
    panicChan,   \* the requests whose panicChan holds the handler's panic
    expired,     \* the requests whose context is done
    answer       \* the status written for a request

serveVars == <<slots, request, handler, panicChan, expired, answer>>

ServeInit ==
    /\ slots = 0 /\ panicChan = {} /\ expired = {}
    /\ request = [r \in Requests |-> "new"]
    /\ handler = [r \in Requests |-> "none"]
    /\ answer = [r \in Requests |-> "none"]

RequestAt(r, label) == request' = [request EXCEPT ![r] = label]
HandlerAt(r, label) == handler' = [handler EXCEPT ![r] = label]
Answer(r, status) == answer' = [answer EXCEPT ![r] = status]

\* case sem <- struct{}{}; the handler's goroutine starts.
Admit(r) ==
    /\ request[r] = "new"
    /\ slots < Limit
    /\ slots' = slots + 1
    /\ RequestAt(r, "select") /\ HandlerAt(r, "running")
    /\ UNCHANGED <<panicChan, expired, answer>>

Reject(r) ==
    /\ request[r] = "new"
    /\ slots = Limit
    /\ RequestAt(r, "end") /\ Answer(r, "tooMany")
    /\ UNCHANGED <<slots, handler, panicChan, expired>>

\* The handler's goroutine: ServeHTTP returns or panics, the panic is put into
\* panicChan, and done is closed.
HandlerReturns(r) ==
    /\ handler[r] = "running"
    /\ HandlerAt(r, "done")
    /\ UNCHANGED <<slots, request, panicChan, expired, answer>>

HandlerPanics(r) ==
    /\ handler[r] = "running"
    /\ panicChan' = panicChan \cup {r}
    /\ HandlerAt(r, "recovered")
    /\ UNCHANGED <<slots, request, expired, answer>>

HandlerCloses(r) ==
    /\ handler[r] = "recovered"
    /\ HandlerAt(r, "done")
    /\ UNCHANGED <<slots, request, panicChan, expired, answer>>

\* The deadline passes, or the client goes away.
Expire(r) ==
    /\ request[r] = "select"
    /\ expired' = expired \cup {r}
    /\ UNCHANGED <<slots, request, handler, panicChan, answer>>

\* The select, which chooses at random among the cases that are ready.
TakePanic(r) ==
    /\ request[r] = "select"
    /\ r \in panicChan
    /\ panicChan' = panicChan \ {r}
    /\ RequestAt(r, "unwind")
    /\ UNCHANGED <<slots, handler, expired, answer>>

CopyAnswer(r) ==
    /\ request[r] = "select"
    /\ handler[r] = "done"
    /\ RequestAt(r, "leave") /\ Answer(r, "handlers")
    /\ UNCHANGED <<slots, handler, panicChan, expired>>

\* Faulty variant: the timeout waits for the handler before it answers.
AnswerTimeoutJoins(r) ==
    /\ request[r] = "select" /\ r \in expired /\ handler[r] = "done"
    /\ RequestAt(r, "leave") /\ Answer(r, "timedOut")
    /\ UNCHANGED <<slots, handler, panicChan, expired>>
AnswerTimeout(r) ==
    /\ request[r] = "select"
    /\ r \in expired
    /\ RequestAt(r, "leave") /\ Answer(r, "timedOut")
    /\ UNCHANGED <<slots, handler, panicChan, expired>>

\* The deferred <-sem, when the middleware returns and when a panic goes through it.
ReturnSlot(r) ==
    /\ request[r] \in {"leave", "unwind"}
    /\ slots > 0
    /\ slots' = slots - 1
    /\ RequestAt(r, IF request[r] = "leave" THEN "end" ELSE "recover")
    /\ UNCHANGED <<handler, panicChan, expired, answer>>

\* RecoveryMiddleware, outside the limit.
Recover(r) ==
    /\ request[r] = "recover"
    /\ RequestAt(r, "end") /\ Answer(r, "internalError")
    /\ UNCHANGED <<slots, handler, panicChan, expired>>

ServeStep(r) ==
    \/ TakePanic(r) \/ CopyAnswer(r) \/ AnswerTimeout(r) \/ ReturnSlot(r) \/ Recover(r)

ServeNext ==
    \/ \E r \in Requests : Admit(r)
    \/ \E r \in Requests : Reject(r)
    \/ \E r \in Requests : HandlerReturns(r)
    \/ \E r \in Requests : HandlerPanics(r)
    \/ \E r \in Requests : HandlerCloses(r)
    \/ \E r \in Requests : Expire(r)
    \/ \E r \in Requests : ServeStep(r)

ServeSpec == ServeInit /\ [][ServeNext]_serveVars

-----------------------------------------------------------------------------
\* Every slot in use is a request's that is being served, and nothing else.
ServeTypeOK ==
    /\ request \in [Requests -> {"new", "select", "leave", "unwind", "recover", "end"}]
    /\ handler \in [Requests -> {"none", "running", "recovered", "done"}]
    /\ answer \in [Requests -> {"none", "tooMany", "handlers", "timedOut", "internalError"}]
    /\ panicChan \subseteq Requests /\ expired \subseteq Requests
    /\ slots = Cardinality({r \in Requests : request[r] \in {"select", "leave", "unwind"}})
    /\ slots <= Limit

\* Every admitted request is answered and gives its slot back, though its handler
\* may never return (timeout.go:41-70, concurrency.go:17-22).
RequestsAnswered == \A r \in Requests :
    request[r] = "select" ~> request[r] = "end" /\ answer[r] # "none"

\* "RecoveryMiddleware recovers from panics and returns 500" (middleware.go:41): what a
\* handler wrote before it panicked is not sent as its answer.
PanicsRecovered == \A r \in Requests : answer[r] = "handlers" => r \notin panicChan
=============================================================================
