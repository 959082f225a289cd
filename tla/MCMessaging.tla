---------------------------- MODULE MCMessaging ----------------------------
\* The messaging project for TLC: a behaviour is one of Broker, of Broadcast or
\* of Streams.
EXTENDS Broker, Broadcast, Streams

CONSTANTS s1, s2, t1, p1, p2, l1, l2, c1, c2

TwoSubscribers == {s1, s2}
OneTopic == {t1}
TwoPublishers == {p1, p2}
TwoListeners == {l1, l2}
TwoClosers == {c1, c2}

VARIABLE part   \* which of the three this behaviour is about
allVars == <<part, brokerVars, broadcastVars, streamVars>>

Init ==
    /\ part \in {"broker", "broadcast", "streams"}
    /\ BrokerInit /\ BroadcastInit /\ StreamsInit

Only(p, A, others) == part = p /\ A /\ UNCHANGED <<part, others>>
InBroker(A) == Only("broker", A, <<broadcastVars, streamVars>>)
InBroadcast(A) == Only("broadcast", A, <<brokerVars, streamVars>>)
InStreams(A) == Only("streams", A, <<brokerVars, broadcastVars>>)

Next == InBroker(BrokerNext) \/ InBroadcast(BroadcastNext) \/ InStreams(StreamsNext)
Spec == Init /\ [][Next]_allVars

\* Goroutines that have begun go on when they can.
FairSpec ==
    /\ Spec
    /\ WF_allVars(InStreams(StreamStep))
    /\ WF_allVars(InBroadcast(Deliver)) /\ WF_allVars(InBroadcast(RunExits))
    /\ \A s \in Senders : WF_allVars(InBroadcast(SendStops(s)))
    /\ \A c \in BClosers :
         WF_allVars(InBroadcast(CloseInput(c))) /\ WF_allVars(InBroadcast(CloseOutputs(c)))

TypeOK == BrokerTypeOK /\ BroadcastTypeOK /\ StreamsTypeOK

\* No goroutine of the project sends to a closed channel of its own accord.
ClosedSafely == BrokerClosesSafely /\ RunNeverPanics

\* A Close of Broadcast that has begun returns, or panics because it is the second
\* one; a Send that finds it closed ends (fanout.go:259-266, 283-294); and
\* cancelled streams end.
MessagingEnds ==
    /\ \A c \in BClosers : bcloser[c] \in {"close", "wait"} ~> bcloser[c] \in {"returned", "panicked"}
    /\ \A s \in Senders : stopped /\ sender[s] = "select" ~> sender[s] # "select"
    /\ StreamsEnd
=============================================================================
