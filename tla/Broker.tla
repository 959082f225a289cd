------------------------------- MODULE Broker -------------------------------
(***************************************************************************)
(* stage1/04-pubsub/pubsub/broker.go: subscribers with a mailbox each,     *)
(* registered with a broker under topics.  A publisher holds b.mu for      *)
(* reading while it sends to one subscriber after the other; everything    *)
(* else the broker does holds b.mu for writing and is one step.  A         *)
(* subscriber's own Subscribe, Unsubscribe and Close do not take b.mu.     *)
(***************************************************************************)
EXTENDS Integers, SequencesExt

CONSTANTS
    Subscribers,   \* one *Subscriber for every id
    Topics,
    Publishers,    \* goroutines that call Publish
    MailboxSize,   \* capacity of s.messages
    MaxPublishes,  \* bound: calls of Publish by one publisher
    MaxListed      \* bound: entries in the list of one topic

ASSUME BrokerAssumption ==
    MailboxSize \in Nat \ {0} /\ MaxPublishes \in Nat /\ MaxListed \in Nat

VARIABLES
    registered,     \* b.subscribers
    listed,         \* b.topics
    interest,       \* s.topics
    mailbox,        \* how many messages s.messages buffers
    shut,           \* s.closed
    brokerClosed,   \* b.closed
    calls,          \* how often a publisher has called Publish
    publish,        \* where Publish is: "out", "check" or "send" for the first of `todo`
    topic,          \* the topic of the call
    todo,           \* the ids Publish has still to send to
    direct,         \* topics a subscriber set or dropped without the broker since
                    \* the broker last did (history)
    again,          \* topics a subscriber was listed under once more since it was last
                    \* not listed (history)
    selfClosed      \* subscribers that closed themselves (history)

brokerVars == <<registered, listed, interest, mailbox, shut, brokerClosed, calls, publish, topic, todo,
                direct, again, selfClosed>>
\* What a call of Publish does not touch, mailboxes apart.
directory == <<registered, listed, interest, shut, brokerClosed, direct, again, selfClosed>>
publishing == <<calls, publish, topic, todo>>

BrokerInit ==
    /\ registered = {} /\ shut = {} /\ selfClosed = {} /\ brokerClosed = FALSE
    /\ listed = [t \in Topics |-> <<>>]
    /\ interest = [s \in Subscribers |-> {}] /\ direct = interest /\ again = interest
    /\ mailbox = [s \in Subscribers |-> 0]
    /\ calls = [p \in Publishers |-> 0]
    /\ publish = [p \in Publishers |-> "out"]
    /\ topic \in [Publishers -> Topics] /\ todo = [p \in Publishers |-> <<>>]

PublishAt(p, label) == publish' = [publish EXCEPT ![p] = label]

\* b.mu.Lock(): nobody holds b.mu for reading.
WriteLock == \A p \in Publishers : publish[p] \in {"out", "panicked"}

-----------------------------------------------------------------------------
Listed(s, t) == s \in Range(listed[t])

\* Faulty variant: only a subscriber that is new to the broker is listed.
SubscribeOnce(s, t) ==
    /\ WriteLock
    /\ Len(listed[t]) < MaxListed
    /\ registered' = registered \cup {s}
    /\ interest' = [interest EXCEPT ![s] = @ \cup {t}]
    /\ listed' = IF s \in registered THEN listed ELSE [listed EXCEPT ![t] = Append(@, s)]
    /\ direct' = [direct EXCEPT ![s] = @ \ {t}]
    /\ UNCHANGED <<mailbox, shut, brokerClosed, again, selfClosed, publishing>>
\* A subscriber that subscribes again to a topic is listed once more.
Subscribe(s, t) ==
    /\ WriteLock
    /\ Len(listed[t]) < MaxListed
    /\ registered' = registered \cup {s}
    /\ interest' = [interest EXCEPT ![s] = @ \cup {t}]
    /\ listed' = [listed EXCEPT ![t] = Append(@, s)]
    /\ direct' = [direct EXCEPT ![s] = @ \ {t}]
    /\ again' = IF Listed(s, t) THEN [again EXCEPT ![s] = @ \cup {t}] ELSE again
    /\ UNCHANGED <<mailbox, shut, brokerClosed, selfClosed, publishing>>

\* Faulty variant: b.mu is not locked.
UnsubscribeUnlocked(s, t) ==
    /\ interest' = [interest EXCEPT ![s] = @ \ {t}]
    /\ listed' = [listed EXCEPT ![t] = RemoveFirst(@, s)]
    /\ direct' = [direct EXCEPT ![s] = @ \ {t}]
    /\ again' = IF Listed(s, t)' THEN again ELSE [again EXCEPT ![s] = @ \ {t}]
    /\ UNCHANGED <<registered, mailbox, shut, brokerClosed, selfClosed, publishing>>
\* Only the first entry is taken out of the list.
Unsubscribe(s, t) ==
    /\ WriteLock
    /\ interest' = [interest EXCEPT ![s] = @ \ {t}]
    /\ listed' = [listed EXCEPT ![t] = RemoveFirst(@, s)]
    /\ direct' = [direct EXCEPT ![s] = @ \ {t}]
    /\ again' = IF Listed(s, t)' THEN again ELSE [again EXCEPT ![s] = @ \ {t}]
    /\ UNCHANGED <<registered, mailbox, shut, brokerClosed, selfClosed, publishing>>

\* The subscriber's own Subscribe and Unsubscribe: the broker does not hear of them.
SubscribeAlone(s, t) ==
    /\ interest' = [interest EXCEPT ![s] = @ \cup {t}]
    /\ direct' = [direct EXCEPT ![s] = @ \cup {t}]
    /\ UNCHANGED <<registered, listed, mailbox, shut, brokerClosed, again, selfClosed, publishing>>
UnsubscribeAlone(s, t) ==
    /\ interest' = [interest EXCEPT ![s] = @ \ {t}]
    /\ direct' = [direct EXCEPT ![s] = @ \cup {t}]
    /\ UNCHANGED <<registered, listed, mailbox, shut, brokerClosed, again, selfClosed, publishing>>

\* Faulty variant: the subscriber is closed without b.mu.
RemoveSubscriberUnlocked(s) ==
    /\ listed' = [t \in Topics |-> RemoveFirst(listed[t], s)]
    /\ registered' = registered \ {s}
    /\ shut' = shut \cup {s}
    /\ UNCHANGED <<interest, mailbox, brokerClosed, direct, again, selfClosed, publishing>>
RemoveSubscriber(s) ==
    /\ WriteLock
    /\ listed' = [t \in Topics |-> RemoveFirst(listed[t], s)]
    /\ registered' = registered \ {s}
    /\ shut' = shut \cup {s}
    /\ UNCHANGED <<interest, mailbox, brokerClosed, direct, again, selfClosed, publishing>>

CloseBroker ==
    /\ WriteLock
    /\ brokerClosed' = TRUE
    /\ shut' = shut \cup registered
    /\ registered' = {}
    /\ listed' = [t \in Topics |-> <<>>]
    /\ UNCHANGED <<interest, mailbox, direct, again, selfClosed, publishing>>

\* Subscriber.Close, called by the subscriber's owner.
CloseSubscriber(s) ==
    /\ s \notin shut
    /\ shut' = shut \cup {s}
    /\ selfClosed' = selfClosed \cup {s}
    /\ UNCHANGED <<registered, listed, interest, mailbox, brokerClosed, direct, again, publishing>>

-----------------------------------------------------------------------------
\* Publish begins: b.mu.RLock() and the test of b.closed.
Publish(p, t) ==
    /\ publish[p] = "out"
    /\ calls[p] < MaxPublishes
    /\ calls' = [calls EXCEPT ![p] = @ + 1]
    /\ topic' = [topic EXCEPT ![p] = t]
    /\ IF brokerClosed \/ listed[t] = <<>>
       THEN UNCHANGED <<publish, todo>>
       ELSE PublishAt(p, "check") /\ todo' = [todo EXCEPT ![p] = listed[t]]
    /\ UNCHANGED <<directory, mailbox>>

\* On to the next subscriber, or b.mu.RUnlock() and return.
NextSubscriber(p) ==
    /\ todo' = [todo EXCEPT ![p] = Tail(@)]
    /\ PublishAt(p, IF Len(todo[p]) = 1 THEN "out" ELSE "check")

\* The subscriber is looked up, and send tests s.closed under s.mu.
SendCheck(p) ==
    /\ publish[p] = "check"
    /\ IF Head(todo[p]) \in registered \ shut
       THEN PublishAt(p, "send") /\ UNCHANGED todo
       ELSE NextSubscriber(p)
    /\ UNCHANGED <<directory, mailbox, calls, topic>>

\* Faulty variant: nothing keeps a message from a full mailbox.
SendUnbounded(p) ==
    /\ publish[p] = "send" /\ Head(todo[p]) \notin shut
    /\ NextSubscriber(p)
    /\ mailbox' = [mailbox EXCEPT ![Head(todo[p])] = @ + 1]
    /\ UNCHANGED <<directory, calls, topic>>
\* The select of send, without s.mu: the message is buffered, dropped when there is
\* no room, and a send on a channel closed meanwhile panics (b.mu is unlocked by
\* the deferred call).
Send(p) ==
    /\ publish[p] = "send"
    /\ LET s == Head(todo[p]) IN
         IF s \in shut
         THEN PublishAt(p, "panicked") /\ todo' = [todo EXCEPT ![p] = <<>>] /\ UNCHANGED mailbox
         ELSE /\ NextSubscriber(p)
              /\ mailbox' = IF mailbox[s] < MailboxSize
                            THEN [mailbox EXCEPT ![s] = @ + 1] ELSE mailbox
    /\ UNCHANGED <<directory, calls, topic>>

ReadMailbox(s) ==
    /\ mailbox[s] > 0
    /\ mailbox' = [mailbox EXCEPT ![s] = @ - 1]
    /\ UNCHANGED <<directory, publishing>>

-----------------------------------------------------------------------------
BrokerNext ==
    \/ \E s \in Subscribers, t \in Topics : Subscribe(s, t)
    \/ \E s \in Subscribers, t \in Topics : Unsubscribe(s, t)
    \/ \E s \in Subscribers, t \in Topics : SubscribeAlone(s, t)
    \/ \E s \in Subscribers, t \in Topics : UnsubscribeAlone(s, t)
    \/ \E s \in Subscribers : RemoveSubscriber(s)
    \/ CloseBroker
    \/ \E s \in Subscribers : CloseSubscriber(s)
    \/ \E p \in Publishers, t \in Topics : Publish(p, t)
    \/ \E p \in Publishers : SendCheck(p)
    \/ \E p \in Publishers : Send(p)
    \/ \E s \in Subscribers : ReadMailbox(s)

BrokerSpec == BrokerInit /\ [][BrokerNext]_brokerVars

BrokerTypeOK ==
    /\ registered \subseteq Subscribers /\ shut \subseteq Subscribers /\ selfClosed \subseteq shut
    /\ \A t \in Topics : listed[t] \in Seq(Subscribers)
    /\ {interest, direct, again} \subseteq [Subscribers -> SUBSET Topics] /\ brokerClosed \in BOOLEAN
    /\ mailbox \in [Subscribers -> 0..MailboxSize]
    /\ calls \in [Publishers -> 0..MaxPublishes] /\ topic \in [Publishers -> Topics]
    /\ publish \in [Publishers -> {"out", "check", "send", "panicked"}]
    /\ \A p \in Publishers : todo[p] \in Seq(Subscribers) /\ (todo[p] # <<>> <=> publish[p] \in {"check", "send"})

\* While it is open, a subscriber that only the broker sets the topics of is listed under
\* every topic it is interested in; and what it is still listed under without interest is
\* what it had subscribed to once more while it was listed (broker.go:132-209).
SubscriptionsServed == \A s \in Subscribers \ shut : \A t \in Topics \ direct[s] :
    /\ t \in interest[s] => Listed(s, t)
    /\ Listed(s, t) => t \in interest[s] \/ t \in again[s]

\* Whom a publisher has still to send to is the rest of the list of its topic as it is
\* now: nobody who left is sent to and nobody is passed over, although Unsubscribe shifts
\* that list in place (broker.go:157, 166, 177).
PublishFollowsList == \A p \in Publishers : LET list == listed[topic[p]] IN
    /\ Len(todo[p]) <= Len(list)
    /\ \A k \in 1..Len(todo[p]) : todo[p][k] = list[Len(list) - Len(todo[p]) + k]

\* A publisher panics only if some subscriber closed itself: what the broker closes
\* it closes while nobody publishes (broker.go:96-113, 166, 190, 213).
BrokerClosesSafely == (\E p \in Publishers : publish[p] = "panicked") => selfClosed # {}

=============================================================================
