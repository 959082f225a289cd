\* Broker with duplicate subscriptions, removals and closes against two publishers;
\* Broadcast closed while messages are sent; FanOut, Pipeline and FanIn cancelled.
SPECIFICATION FairSpec
CHECK_DEADLOCK FALSE
CONSTANTS
    s1 = s1  s2 = s2  t1 = t1  p1 = p1  p2 = p2
    l1 = l1  l2 = l2  c1 = c1  c2 = c2
    Subscribers <- TwoSubscribers
    Topics <- OneTopic
    Publishers <- TwoPublishers
    MailboxSize = 1
    MaxPublishes = 1
    MaxListed = 3
    Senders <- TwoPublishers
    Listeners <- TwoListeners
    BClosers <- TwoClosers
    OutputSize = 2
    MaxSends = 3
    NumOutputs = 2
    NumMessages = 3
INVARIANTS
    TypeOK
    SubscriptionsServed
    PublishFollowsList
    ClosedSafely
    StreamsComplete
PROPERTY MessagingEnds
