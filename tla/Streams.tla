------------------------------ MODULE Streams ------------------------------
(***************************************************************************)
(* stage1/04-pubsub/pubsub/fanout.go, the generic functions, composed: a   *)
(* producer feeds FanOut, whose every output goes through a pipelineStage, *)
(* and FanIn merges the stages.  All channels are unbuffered: a send and   *)
(* its receive are one step of two goroutines.  A stage and the goroutine  *)
(* multiplex that reads from it have the same loop: take, or stop when the *)
(* input is closed or ctx is done; give, or stop when ctx is done.         *)
(***************************************************************************)
EXTENDS Integers, Sequences, FiniteSets

CONSTANTS
    NumOutputs,    \* outputs of FanOut, numbered
    NumMessages    \* bound: messages the producer sends

ASSUME StreamsAssumption == NumOutputs \in Nat \ {0} /\ NumMessages \in Nat

Branches == 1..NumOutputs

VARIABLES
    sent,         \* how many messages the producer has sent; then it closes the input
    fan, current, \* FanOut: "take", the output it gives to, or "exit"; and its message
    stage, held,  \* the pipeline stages: "take", "give", "exit"; and their messages
    mux, muxed,   \* the goroutines of FanIn, likewise
    outDone,      \* FanIn has closed its output
    ended,        \* ctx is done
    got           \* what the consumer has received, by branch

streamVars == <<sent, fan, current, stage, held, mux, muxed, outDone, ended, got>>

StreamsInit ==
    /\ sent = 0 /\ fan = 0 /\ current = 0
    /\ stage = [b \in Branches |-> "take"] /\ held = [b \in Branches |-> 0]
    /\ mux = [b \in Branches |-> "take"] /\ muxed = [b \in Branches |-> 0]
    /\ outDone = FALSE /\ ended = FALSE
    /\ got = [b \in Branches |-> <<>>]

Exit == NumOutputs + 1     \* fan: 0 takes, b in Branches gives to output b
InputClosed == sent = NumMessages

CancelStreams == ~ended /\ ended' = TRUE
    /\ UNCHANGED <<sent, fan, current, stage, held, mux, muxed, outDone, got>>

-----------------------------------------------------------------------------
FanTake ==
    /\ fan = 0 /\ ~InputClosed
    /\ sent' = sent + 1 /\ current' = sent + 1
    /\ fan' = 1
    /\ UNCHANGED <<stage, held, mux, muxed, outDone, ended, got>>

\* out <- msg for one output after the other, whichever is slow.
FanGive(b) ==
    /\ fan = b /\ stage[b] = "take"
    /\ fan' = IF b = NumOutputs THEN 0 ELSE b + 1
    /\ held' = [held EXCEPT ![b] = current]
    /\ stage' = [stage EXCEPT ![b] = "give"]
    /\ UNCHANGED <<sent, current, mux, muxed, outDone, ended, got>>

\* Faulty variant: while it gives, FanOut does not watch ctx.
FanStopTaking ==
    /\ fan = 0 /\ (InputClosed \/ ended) /\ fan' = Exit
    /\ UNCHANGED <<sent, current, stage, held, mux, muxed, outDone, ended, got>>
\* The outputs are closed when FanOut returns.
FanStop ==
    /\ \/ fan = 0 /\ (InputClosed \/ ended)
       \/ fan \in Branches /\ ended
    /\ fan' = Exit
    /\ UNCHANGED <<sent, current, stage, held, mux, muxed, outDone, ended, got>>

\* A stage transforms what it took and gives it to the multiplexer.
StageGive(b) ==
    /\ stage[b] = "give" /\ mux[b] = "take"
    /\ stage' = [stage EXCEPT ![b] = "take"]
    /\ mux' = [mux EXCEPT ![b] = "give"] /\ muxed' = [muxed EXCEPT ![b] = held[b]]
    /\ UNCHANGED <<sent, fan, current, held, outDone, ended, got>>

StageStop(b) ==
    /\ \/ stage[b] = "take" /\ (fan = Exit \/ ended)
       \/ stage[b] = "give" /\ ended
    /\ stage' = [stage EXCEPT ![b] = "exit"]
    /\ UNCHANGED <<sent, fan, current, held, mux, muxed, outDone, ended, got>>

\* output <- msg meets the consumer.
MuxGive(b) ==
    /\ mux[b] = "give"
    /\ mux' = [mux EXCEPT ![b] = IF outDone THEN "panicked" ELSE "take"]
    /\ got' = IF outDone THEN got ELSE [got EXCEPT ![b] = Append(@, muxed[b])]
    /\ UNCHANGED <<sent, fan, current, stage, held, muxed, outDone, ended>>

MuxStop(b) ==
    /\ \/ mux[b] = "take" /\ (stage[b] = "exit" \/ ended)
       \/ mux[b] = "give" /\ ended
    /\ mux' = [mux EXCEPT ![b] = "exit"]
    /\ UNCHANGED <<sent, fan, current, stage, held, muxed, outDone, ended, got>>

\* Faulty variant: the output is closed when the first input is done.
CloseMergedEarly ==
    /\ ~outDone /\ (\E b \in Branches : mux[b] = "exit") /\ outDone' = TRUE
    /\ UNCHANGED <<sent, fan, current, stage, held, mux, muxed, ended, got>>
\* wg.Wait() and close(output)
CloseMerged ==
    /\ ~outDone
    /\ \A b \in Branches : mux[b] = "exit"
    /\ outDone' = TRUE
    /\ UNCHANGED <<sent, fan, current, stage, held, mux, muxed, ended, got>>

-----------------------------------------------------------------------------
StreamStep ==
    \/ FanTake
    \/ \E b \in Branches : FanGive(b)
    \/ FanStop
    \/ \E b \in Branches : StageGive(b)
    \/ \E b \in Branches : StageStop(b)
    \/ \E b \in Branches : MuxStop(b)
    \/ CloseMerged

StreamsNext ==
    \/ StreamStep
    \/ \E b \in Branches : MuxGive(b)
    \/ CancelStreams

\* Goroutines that can go on do; the consumer may stop reading.
StreamsFairness == WF_streamVars(StreamStep)

StreamsSpec == StreamsInit /\ [][StreamsNext]_streamVars

StreamsTypeOK ==
    /\ sent \in 0..NumMessages /\ current \in 0..NumMessages /\ fan \in 0..Exit
    /\ stage \in [Branches -> {"take", "give", "exit"}]
    /\ mux \in [Branches -> {"take", "give", "exit", "panicked"}]
    /\ held \in [Branches -> 0..NumMessages] /\ muxed \in [Branches -> 0..NumMessages]
    /\ {outDone, ended} \subseteq BOOLEAN
    /\ \A b \in Branches : got[b] \in Seq(1..NumMessages)

\* What the consumer has received over one branch is what was sent so far, in order
\* and without gaps; and when the merged channel is closed without a cancellation
\* it has received all of it over every branch (fanout.go:65-66, 119-120).
StreamsComplete == \A b \in Branches :
    /\ got[b] = [i \in 1..Len(got[b]) |-> i]
    /\ outDone /\ ~ended => Len(got[b]) = sent

\* Once ctx is done every goroutine ends and the merged channel is closed, though
\* the consumer has stopped reading (fanout.go:91-108, 133-161, 182-200).
StreamsEnd == ended ~>
    outDone /\ fan = Exit /\ \A b \in Branches : stage[b] = "exit" /\ mux[b] = "exit"
=============================================================================
