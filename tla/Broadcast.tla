----------------------------- MODULE Broadcast -----------------------------
(***************************************************************************)
(* stage1/04-pubsub/pubsub/fanout.go, Broadcast: the goroutine run takes   *)
(* messages from an unbuffered channel and offers each to every output,    *)
(* dropping it where there is no room.  What a message says is left out.   *)
(***************************************************************************)
EXTENDS Integers

CONSTANTS
    Senders,     \* goroutines that call Send
    Listeners,   \* goroutines that call Subscribe
    BClosers,    \* goroutines that call Close
    OutputSize,  \* capacity of an output
    MaxSends     \* bound: messages run takes

ASSUME BroadcastAssumption == OutputSize \in Nat \ {0} /\ MaxSends \in Nat

VARIABLES
    taken,        \* how many messages run has taken
    runAt,        \* "select", "deliver" or "exit"
    toDo,         \* the outputs the current message has not been offered to
    outputs,      \* b.outputs, by whose they are
    output,       \* how many messages each output buffers
    outputClosed, \* the outputs that are closed
    inputClosed,  \* b.input is closed
    stopped,      \* b.ctx is done
    sender,       \* where Send is
    bcloser       \* where Close is

broadcastVars == <<taken, runAt, toDo, outputs, output, outputClosed, inputClosed, stopped, sender, bcloser>>

BroadcastInit ==
    /\ taken = 0 /\ runAt = "select" /\ toDo = {}
    /\ outputs = {} /\ outputClosed = {} /\ output = [l \in Listeners |-> 0]
    /\ inputClosed = FALSE /\ stopped = FALSE
    /\ sender = [s \in Senders |-> "out"]
    /\ bcloser = [c \in BClosers |-> "out"]

SenderAt(s, label) == sender' = [sender EXCEPT ![s] = label]
BCloserAt(c, label) == bcloser' = [bcloser EXCEPT ![c] = label]

CallSend(s) ==
    /\ sender[s] = "out"
    /\ SenderAt(s, "select")
    /\ UNCHANGED <<taken, runAt, toDo, outputs, output, outputClosed, inputClosed, stopped, bcloser>>

\* b.input <- msg meets <-b.input; run locks b.mu for reading and starts to deliver.
Exchange(s) ==
    /\ sender[s] = "select" /\ runAt = "select" /\ ~inputClosed
    /\ taken < MaxSends
    /\ taken' = taken + 1
    /\ runAt' = "deliver" /\ toDo' = outputs
    /\ SenderAt(s, "out")
    /\ UNCHANGED <<outputs, output, outputClosed, inputClosed, stopped, bcloser>>

\* case <-b.ctx.Done(); or the send, on a channel closed by then, panics.
SendStops(s) ==
    /\ sender[s] = "select"
    /\ \/ stopped /\ SenderAt(s, "out")
       \/ inputClosed /\ SenderAt(s, "panicked")
    /\ UNCHANGED <<taken, runAt, toDo, outputs, output, outputClosed, inputClosed, stopped, bcloser>>

\* The non-blocking send to one output; after the last b.mu is unlocked.
Deliver ==
    /\ runAt = "deliver"
    /\ \/ \E l \in toDo :
            /\ toDo' = toDo \ {l}
            /\ IF l \in outputClosed THEN runAt' = "panicked" /\ UNCHANGED output
               ELSE /\ UNCHANGED runAt
                    /\ output' = IF output[l] < OutputSize
                                 THEN [output EXCEPT ![l] = @ + 1] ELSE output
       \/ toDo = {} /\ runAt' = "select" /\ UNCHANGED <<toDo, output>>
    /\ UNCHANGED <<taken, outputs, outputClosed, inputClosed, stopped, sender, bcloser>>

RunExits ==
    /\ runAt = "select"
    /\ stopped \/ inputClosed
    /\ runAt' = "exit"
    /\ UNCHANGED <<taken, toDo, outputs, output, outputClosed, inputClosed, stopped, sender, bcloser>>

\* Subscribe, which needs b.mu for writing.
AddOutput(l) ==
    /\ runAt # "deliver"
    /\ l \notin outputs \cup outputClosed
    /\ outputs' = outputs \cup {l}
    /\ UNCHANGED <<taken, runAt, toDo, output, outputClosed, inputClosed, stopped, sender, bcloser>>

Listen(l) ==
    /\ output[l] > 0
    /\ output' = [output EXCEPT ![l] = @ - 1]
    /\ UNCHANGED <<taken, runAt, toDo, outputs, outputClosed, inputClosed, stopped, sender, bcloser>>

-----------------------------------------------------------------------------
\* Close: b.cancel(), close(b.input), b.wg.Wait(), and the outputs under b.mu.
CancelInput(c) ==
    /\ bcloser[c] = "out"
    /\ stopped' = TRUE
    /\ BCloserAt(c, "close")
    /\ UNCHANGED <<taken, runAt, toDo, outputs, output, outputClosed, inputClosed, sender>>

CloseInput(c) ==
    /\ bcloser[c] = "close"
    /\ inputClosed' = TRUE
    /\ BCloserAt(c, IF inputClosed THEN "panicked" ELSE "wait")
    /\ UNCHANGED <<taken, runAt, toDo, outputs, output, outputClosed, stopped, sender>>

\* Faulty variant: Close does not wait for run, nor for b.mu.
CloseOutputsEarly(c) ==
    /\ bcloser[c] = "wait"
    /\ outputClosed' = outputClosed \cup outputs /\ outputs' = {}
    /\ BCloserAt(c, "returned")
    /\ UNCHANGED <<taken, runAt, toDo, output, inputClosed, stopped, sender>>
CloseOutputs(c) ==
    /\ bcloser[c] = "wait"
    /\ runAt = "exit"
    /\ outputClosed' = outputClosed \cup outputs /\ outputs' = {}
    /\ BCloserAt(c, "returned")
    /\ UNCHANGED <<taken, runAt, toDo, output, inputClosed, stopped, sender>>

BroadcastNext ==
    \/ \E s \in Senders : CallSend(s)
    \/ \E s \in Senders : Exchange(s)
    \/ \E s \in Senders : SendStops(s)
    \/ Deliver
    \/ RunExits
    \/ \E l \in Listeners : AddOutput(l)
    \/ \E l \in Listeners : Listen(l)
    \/ \E c \in BClosers : CancelInput(c)
    \/ \E c \in BClosers : CloseInput(c)
    \/ \E c \in BClosers : CloseOutputs(c)

BroadcastSpec == BroadcastInit /\ [][BroadcastNext]_broadcastVars

BroadcastTypeOK ==
    /\ taken \in 0..MaxSends /\ runAt \in {"select", "deliver", "exit", "panicked"}
    /\ toDo \subseteq Listeners /\ outputs \subseteq Listeners /\ outputClosed \subseteq Listeners
    /\ output \in [Listeners -> 0..OutputSize]
    /\ {inputClosed, stopped} \subseteq BOOLEAN
    /\ sender \in [Senders -> {"out", "select", "panicked"}]
    /\ bcloser \in [BClosers -> {"out", "close", "wait", "returned", "panicked"}]
    /\ runAt = "deliver" => toDo \subseteq outputs

\* The goroutine run never sends to a closed output.
RunNeverPanics == runAt # "panicked"
=============================================================================
