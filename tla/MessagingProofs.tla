-------------------------- MODULE MessagingProofs --------------------------
(***************************************************************************)
(* Theorems of the publish/subscribe broker, of Broadcast and of FanOut,   *)
(* Pipeline and FanIn composed, for any numbers of subscribers, topics,    *)
(* publishers, listeners, branches and messages.  Each has an inductive    *)
(* invariant of its own; a behaviour of MCMessaging keeps all three.       *)
(***************************************************************************)
EXTENDS MCMessaging, FiniteSetTheorems, WellFoundedInduction, TLAPS

\* A nonempty set of naturals has a least element: the intervals 1..n are well-founded.
LEMMA LeastNatural ==
    ASSUME NEW B, B \subseteq Nat, B # {}
    PROVE  \E m \in B : \A k \in B : m <= k
<1> DEFINE T == {1..n : n \in B}
           R == StrictSubsetOrdering(Nat)
<1>1. T \subseteq FiniteSubsetsOf(Nat)
  <2>1. ASSUME NEW n \in B
        PROVE  1..n \subseteq Nat /\ IsFiniteSet(1..n)
    BY <2>1, FS_Interval
  <2> QED  BY <2>1 DEF FiniteSubsetsOf
<1>2. PICK t \in T : \A u \in T : <<u, t>> \notin R
  <2>1. IsWellFoundedOn(R, FiniteSubsetsOf(Nat))
    BY FS_StrictSubsetOrderingWellFounded
  <2>2. T # {}
    OBVIOUS
  <2> HIDE DEF T, R
  <2> QED  BY <1>1, <2>1, <2>2, WFMin
<1>3. PICK m \in B : t = 1..m
  BY <1>2
<1>4. ASSUME NEW k \in B, k < m
      PROVE  FALSE
  <2>1. m \notin 1..k /\ m \in 1..m /\ 1..k \subseteq 1..m /\ 1..m \subseteq Nat
    BY <1>4
  <2>2. <<1..k, t>> \in R
    BY <1>3, <2>1, Zenon DEF StrictSubsetOrdering
  <2> QED  BY <1>2, <2>2
<1> QED  BY <1>4

\* RemoveFirst takes one entry out, of the element that was asked for, if there is any.
LEMMA RemoveFirstShape ==
    ASSUME NEW S, NEW s \in Seq(S), NEW e
    PROVE  /\ RemoveFirst(s, e) \in Seq(S)
           /\ \/ RemoveFirst(s, e) = s /\ \A i \in DOMAIN s : s[i] # e
              \/ \E k \in DOMAIN s :
                   /\ s[k] = e /\ Len(RemoveFirst(s, e)) = Len(s) - 1
                   /\ \A i \in 1..(Len(s) - 1) : RemoveFirst(s, e)[i] = s[IF i < k THEN i ELSE i + 1]
<1> DEFINE I == {i \in 1..Len(s) : s[i] = e}
           k == Min(I)
           r == RemoveAt(s, k)
<1>1. CASE ~ \E i \in 1..Len(s) : s[i] = e
  BY <1>1 DEF RemoveFirst
<1>2. CASE \E i \in 1..Len(s) : s[i] = e
  <2>1. I # {} /\ I \subseteq Nat
    BY <1>2
  <2>2. k \in I
    BY <2>1, LeastNatural DEF Min
  <2>3. RemoveFirst(s, e) = r
    BY <1>2, <2>1 DEF RemoveFirst, SelectInSeq
  <2>4. k \in 1..Len(s) /\ s[k] = e
    BY <2>2
  <2> HIDE DEF k, I
  <2> DEFINE a == SubSeq(s, 1, k-1)
             b == SubSeq(s, k+1, Len(s))
  <2>a. a \in Seq(S) /\ Len(a) = k-1 /\ \A i \in 1..(k-1) : a[i] = s[i]
    BY <2>4
  <2>b. b \in Seq(S) /\ Len(b) = Len(s) - k /\ \A i \in 1..(Len(s)-k) : b[i] = s[k+i]
    BY <2>4
  <2>c. r = a \o b
    BY DEF RemoveAt
  <2> HIDE DEF a, b, r
  <2>d. /\ r \in Seq(S) /\ Len(r) = Len(a) + Len(b)
        /\ \A i \in 1..Len(a) : r[i] = a[i]
        /\ \A i \in 1..Len(b) : r[Len(a) + i] = b[i]
    <3>1. r \in Seq(S) /\ Len(r) = Len(a) + Len(b)
      BY <2>a, <2>b, <2>c
    <3>2. \A i \in 1..Len(a) : r[i] = a[i]
      BY <2>a, <2>b, <2>c
    <3>3. \A i \in 1..Len(b) : r[Len(a) + i] = b[i]
      BY <2>a, <2>b, <2>c
    <3> QED  BY <3>1, <3>2, <3>3
  <2>e. Len(s) \in Nat /\ Len(r) = Len(s) - 1
    BY <2>4, <2>a, <2>b, <2>d
  <2>5. ASSUME NEW i \in 1..(Len(s) - 1)
        PROVE  r[i] = s[IF i < k THEN i ELSE i + 1]
    <3>1. CASE i < k
      <4>1. i \in 1..(k-1)
        BY <2>4, <2>5, <3>1
      <4> QED  BY <2>a, <2>d, <3>1, <4>1
    <3>2. CASE ~(i < k)
      <4>1. i-k+1 \in 1..(Len(s)-k) /\ (k-1) + (i-k+1) = i /\ k + (i-k+1) = i + 1
        BY SMTT(30), <2>4, <2>5, <2>e, <3>2
      <4>2. r[i] = b[i-k+1] /\ b[i-k+1] = s[i+1]
        <5> DEFINE j == i-k+1
        <5>1. j \in 1..Len(b) /\ Len(a) + j = i /\ k + j = i + 1 /\ j \in 1..(Len(s)-k)
          BY <2>a, <2>b, <4>1
        <5> HIDE DEF j
        <5>2. r[Len(a) + j] = b[j] /\ b[j] = s[k + j]
          BY <2>b, <2>d, <5>1
        <5>3. r[i] = b[j] /\ b[j] = s[i+1]
          BY <5>1, <5>2
        <5> QED  BY <5>3 DEF j
      <4> QED  BY <3>2, <4>2
    <3> QED  BY <3>1, <3>2
  <2>6. k \in DOMAIN s
    BY <2>4
  <2> QED  BY <2>3, <2>4, <2>5, <2>6, <2>d, <2>e
<1> QED  BY <1>1, <1>2

\* An element that a sequence has no more than once.
Once(e, s) == \A i, j \in DOMAIN s : s[i] = e /\ s[j] = e => i = j

\* The others stay, as often as they were there; the only entry of the element is gone.
LEMMA RemoveFirstElements ==
    ASSUME NEW S, NEW s \in Seq(S), NEW e, NEW x \in S
    PROVE  /\ x # e => (x \in Range(RemoveFirst(s, e)) <=> x \in Range(s))
           /\ Once(x, s) => Once(x, RemoveFirst(s, e))
           /\ Once(e, s) => e \notin Range(RemoveFirst(s, e))
<1> DEFINE r == RemoveFirst(s, e)
<1>0. r \in Seq(S) /\ Len(s) \in Nat /\ DOMAIN s = 1..Len(s) /\ DOMAIN r = 1..Len(r)
  BY RemoveFirstShape
<1>1. CASE r = s /\ \A i \in DOMAIN s : s[i] # e
  <2> HIDE DEF r
  <2>1. e \notin Range(r)
    BY <1>1 DEF Range
  <2> QED  BY <1>1, <2>1 DEF r
<1>2. ASSUME NEW k \in DOMAIN s, s[k] = e, Len(r) = Len(s) - 1,
             \A i \in 1..(Len(s) - 1) : r[i] = s[IF i < k THEN i ELSE i + 1]
      PROVE  /\ x # e => (x \in Range(r) <=> x \in Range(s))
             /\ Once(x, s) => Once(x, r)
             /\ Once(e, s) => e \notin Range(r)
  <2> HIDE DEF r
  <2> DEFINE old(i) == IF i < k THEN i ELSE i + 1
  <2>1. /\ DOMAIN r = 1..(Len(s) - 1)
        /\ \A i \in DOMAIN r : old(i) \in DOMAIN s /\ old(i) # k /\ r[i] = s[old(i)]
        /\ \A i, j \in DOMAIN r : old(i) = old(j) => i = j
    BY <1>0, <1>2
  <2>2. ASSUME NEW j \in DOMAIN s, j # k
        PROVE  \E i \in DOMAIN r : old(i) = j
    <3>1. CASE j < k
      BY <1>0, <1>2, <2>1, <2>2, <3>1
    <3>2. CASE j > k
      <4>1. j-1 \in DOMAIN r /\ old(j-1) = j
        BY <1>0, <1>2, <2>1, <2>2, <3>2
      <4> QED  BY <4>1
    <3> QED  BY <1>0, <2>2, <3>1, <3>2
  <2> HIDE DEF old
  <2>3. x # e => (x \in Range(r) <=> x \in Range(s))
    <3>1. ASSUME x # e, NEW j \in DOMAIN s, s[j] = x
          PROVE  \E i \in DOMAIN r : r[i] = x
      BY <1>2, <2>1, <2>2, <3>1
    <3> QED  BY <2>1, <3>1 DEF Range
  <2>4. Once(x, s) => Once(x, r)
    BY <2>1 DEF Once
  <2>5. Once(e, s) => e \notin Range(r)
    BY <1>2, <2>1 DEF Once, Range
  <2> QED  BY <2>3, <2>4, <2>5
<1>3. (r = s /\ \A i \in DOMAIN s : s[i] # e) \/ \E k \in DOMAIN s :
        /\ s[k] = e /\ Len(r) = Len(s) - 1
        /\ \A i \in 1..(Len(s) - 1) : r[i] = s[IF i < k THEN i ELSE i + 1]
  BY RemoveFirstShape
<1> QED  BY <1>1, <1>2, <1>3

LEMMA AppendElements ==
    ASSUME NEW S, NEW s \in Seq(S), NEW e \in S
    PROVE  /\ Append(s, e) \in Seq(S) /\ Len(Append(s, e)) = Len(s) + 1 /\ Len(s) \in Nat
           /\ DOMAIN s = 1..Len(s) /\ DOMAIN Append(s, e) = 1..(Len(s) + 1)
           /\ \A i \in DOMAIN s : Append(s, e)[i] = s[i] /\ s[i] \in S
           /\ Append(s, e)[Len(s) + 1] = e
OBVIOUS

\* The new entry is there, once if it is new; the others are as they were.
LEMMA AppendOnce ==
    ASSUME NEW S, NEW s \in Seq(S), NEW e \in S, NEW x \in S
    PROVE  /\ e \in Range(Append(s, e)) /\ (e \notin Range(s) => Once(e, Append(s, e)))
           /\ x # e => (x \in Range(Append(s, e)) <=> x \in Range(s)) /\ (Once(x, s) => Once(x, Append(s, e)))
<1> DEFINE r == Append(s, e)
<1>1. /\ Len(s) \in Nat /\ DOMAIN s = 1..Len(s) /\ DOMAIN r = 1..(Len(s) + 1)
      /\ r[Len(s) + 1] = e /\ \A i \in DOMAIN s : r[i] = s[i]
  BY AppendElements
<1> HIDE DEF r
<1>2. \A i \in DOMAIN r : i = Len(s) + 1 \/ i \in DOMAIN s
  BY <1>1
<1>3. e \in Range(r) /\ (e \notin Range(s) => Once(e, r))
  BY <1>1, <1>2 DEF Range, Once
<1>4. x # e => (x \in Range(r) <=> x \in Range(s)) /\ (Once(x, s) => Once(x, r))
  BY <1>1, <1>2 DEF Range, Once
<1> QED  BY <1>3, <1>4 DEF r

LEMMA EmptyHasLengthZero ==
    ASSUME NEW S, NEW s \in Seq(S)
    PROVE  s = <<>> <=> Len(s) = 0
OBVIOUS

LEMMA TailElements ==
    ASSUME NEW S, NEW s \in Seq(S), s # <<>>
    PROVE  /\ Head(s) \in S /\ Tail(s) \in Seq(S) /\ Len(s) \in Nat \ {0} /\ Len(Tail(s)) = Len(s) - 1
           /\ Tail(s) = <<>> <=> Len(s) = 1
           /\ \A i \in DOMAIN Tail(s) : i \in Nat /\ i + 1 \in DOMAIN s /\ Tail(s)[i] = s[i+1]
<1>1. Tail(s) \in Seq(S) /\ Len(s) \in Nat \ {0} /\ Len(Tail(s)) = Len(s) - 1
  OBVIOUS
<1>2. Tail(s) = <<>> <=> Len(Tail(s)) = 0
  BY <1>1, EmptyHasLengthZero
<1> QED  BY <1>1, <1>2

-----------------------------------------------------------------------------
(* Broker.  What the type invariant leaves out of the shape of the variables. *)
BrokerShape ==
    /\ listed \in [Topics -> Seq(Subscribers)]
    /\ todo \in [Publishers -> Seq(Subscribers)]

\* An open subscriber that the broker does not know is not listed, and who has not
\* subscribed once more is listed once.
Directory(s, t) == s \notin shut =>
    /\ s \notin registered => ~Listed(s, t)
    /\ t \notin again[s] => Once(s, listed[t])
    /\ t \notin direct[s] => /\ t \in interest[s] => Listed(s, t)
                             /\ Listed(s, t) => t \in interest[s] \/ t \in again[s]
DirectoryKept == \A s \in Subscribers, t \in Topics : Directory(s, t)

\* A subscriber that is shut between the test and the send has shut itself.
ShutItself ==
    /\ \A p \in Publishers : publish[p] = "send" /\ Head(todo[p]) \in shut => Head(todo[p]) \in selfClosed
    /\ BrokerClosesSafely

BrokerInv == BrokerTypeOK /\ BrokerShape /\ DirectoryKept /\ PublishFollowsList /\ ShutItself

\* What Publish does to its list when it goes on.
LEMMA NextSubscriberShape ==
    ASSUME BrokerTypeOK, BrokerShape, NEW p \in Publishers, publish[p] \in {"check", "send"}, NextSubscriber(p)
    PROVE  /\ todo' \in [Publishers -> Seq(Subscribers)] /\ todo'[p] = Tail(todo[p]) /\ todo[p] # <<>>
           /\ \A q \in Publishers : q # p => todo'[q] = todo[q] /\ publish'[q] = publish[q]
           /\ publish'[p] \in {"out", "check"} /\ (todo'[p] # <<>> <=> publish'[p] = "check")
           /\ publish' \in [Publishers -> {"out", "check", "send", "panicked"}]
<1>1. todo[p] \in Seq(Subscribers) /\ todo[p] # <<>>
  BY DEF BrokerTypeOK, BrokerShape
<1>2. Tail(todo[p]) \in Seq(Subscribers) /\ (Tail(todo[p]) # <<>> <=> Len(todo[p]) # 1)
  BY <1>1, TailElements
<1>3. todo' = [todo EXCEPT ![p] = Tail(todo[p])]
       /\ publish' = [publish EXCEPT ![p] = IF Len(todo[p]) = 1 THEN "out" ELSE "check"]
  BY DEF NextSubscriber, PublishAt
<1>5. todo \in [Publishers -> Seq(Subscribers)] /\ publish \in [Publishers -> {"out", "check", "send", "panicked"}]
  BY DEF BrokerTypeOK, BrokerShape
<1> QED  BY <1>1, <1>2, <1>3, <1>5

\* A call of Publish begins with the list of its topic and goes through it from the front.
PublishMoves(p) ==
    /\ \A q \in Publishers : q # p => todo'[q] = todo[q] /\ publish'[q] = publish[q] /\ topic'[q] = topic[q]
    /\ publish'[p] \in {"out", "check", "send", "panicked"}
    /\ todo'[p] # <<>> <=> publish'[p] \in {"check", "send"}
    /\ \/ todo'[p] = <<>> /\ topic'[p] \in Topics
       \/ todo'[p] = listed[topic'[p]] /\ topic'[p] \in Topics
       \/ todo'[p] \in {todo[p], Tail(todo[p])} /\ todo[p] # <<>> /\ topic'[p] = topic[p]
    /\ DOMAIN todo' = Publishers /\ DOMAIN publish' = Publishers /\ DOMAIN topic' = Publishers

LEMMA PublishSteps ==
    ASSUME BrokerTypeOK, BrokerShape, NEW p \in Publishers,
           (\E t \in Topics : Publish(p, t)) \/ SendCheck(p) \/ Send(p)
    PROVE  /\ PublishMoves(p) /\ UNCHANGED directory
           /\ mailbox' \in [Subscribers -> 0..MailboxSize] /\ calls' \in [Publishers -> 0..MaxPublishes]
<1> USE BrokerAssumption DEF BrokerTypeOK, BrokerShape, PublishMoves
<1>1. ASSUME NEW t \in Topics, Publish(p, t)
      PROVE  /\ PublishMoves(p) /\ UNCHANGED <<directory, mailbox>>
             /\ calls' \in [Publishers -> 0..MaxPublishes]
  <2>1. calls' \in [Publishers -> 0..MaxPublishes] /\ UNCHANGED <<directory, mailbox>>
    BY <1>1 DEF Publish
  <2>2. topic' = [topic EXCEPT ![p] = t] /\ publish[p] = "out" /\ todo[p] = <<>>
    BY <1>1 DEF Publish
  <2>3. CASE UNCHANGED <<publish, todo>>
    BY <2>1, <2>2, <2>3
  <2>4. CASE listed[t] # <<>> /\ PublishAt(p, "check") /\ todo' = [todo EXCEPT ![p] = listed[t]]
    BY <2>1, <2>2, <2>4 DEF PublishAt
  <2> QED  BY <1>1, <2>3, <2>4 DEF Publish
<1>2. ASSUME NextSubscriber(p), publish[p] \in {"check", "send"}, UNCHANGED topic
      PROVE  PublishMoves(p)
  BY <1>2, NextSubscriberShape
<1>3. CASE SendCheck(p)
  <2>1. UNCHANGED <<directory, mailbox, calls, topic>> /\ publish[p] = "check"
    BY <1>3 DEF SendCheck
  <2>2. CASE PublishAt(p, "send") /\ UNCHANGED todo
    BY <2>1, <2>2 DEF PublishAt
  <2>3. CASE NextSubscriber(p)
    BY <1>2, <2>1, <2>3
  <2>4. PublishMoves(p)
    BY <1>3, <2>2, <2>3 DEF SendCheck
  <2> QED  BY <2>1, <2>4
<1>4. CASE Send(p)
  <2>1. UNCHANGED <<directory, calls, topic>> /\ publish[p] = "send"
    BY <1>4 DEF Send
  <2>2. ASSUME PublishAt(p, "panicked"), todo' = [todo EXCEPT ![p] = <<>>] PROVE PublishMoves(p)
    BY <2>1, <2>2 DEF PublishAt
  <2>3. ASSUME NextSubscriber(p) PROVE PublishMoves(p)
    <3>1. publish[p] \in {"check", "send"} /\ topic' = topic
      BY <2>1
    <3> HIDE DEF BrokerTypeOK, BrokerShape, PublishMoves
    <3> QED  BY <1>2, <2>3, <3>1
  <2>4. PublishMoves(p)
    BY <1>4, <2>2, <2>3 DEF Send
  <2>5. mailbox' \in [Subscribers -> 0..MailboxSize]
    <3>1. \/ mailbox' = mailbox
          \/ \E s \in Subscribers : mailbox[s] < MailboxSize /\ mailbox' = [mailbox EXCEPT ![s] = @ + 1]
      <4>1. Head(todo[p]) \in Subscribers
        BY <2>1, TailElements
      <4> QED  BY <1>4, <4>1 DEF Send
    <3>2. ASSUME NEW s \in Subscribers, mailbox[s] < MailboxSize, mailbox' = [mailbox EXCEPT ![s] = @ + 1]
          PROVE  mailbox' \in [Subscribers -> 0..MailboxSize]
      <4>1. mailbox \in [Subscribers -> 0..MailboxSize] /\ mailbox[s] + 1 \in 0..MailboxSize
        BY <3>2
      <4> QED  BY <3>2, <4>1
    <3> QED  BY <3>1, <3>2
  <2> QED  BY <2>1, <2>4, <2>5
<1> QED  BY <1>1, <1>3, <1>4

LEMMA BrokerTypeNext ==
    ASSUME BrokerTypeOK, BrokerShape, BrokerNext
    PROVE  BrokerTypeOK' /\ BrokerShape'
<1> DEFINE Goal == BrokerTypeOK' /\ BrokerShape'
<1> USE BrokerAssumption DEF BrokerTypeOK, BrokerShape
<1>1. ASSUME NEW s \in Subscribers, NEW t \in Topics, Subscribe(s, t)
      PROVE  Goal
  <2>1. {interest', direct', again'} \subseteq [Subscribers -> SUBSET Topics]
    BY <1>1 DEF Subscribe
  <2> QED  BY <1>1, <2>1 DEF Subscribe, publishing
<1>2. ASSUME NEW s \in Subscribers, NEW t \in Topics, Unsubscribe(s, t)
      PROVE  Goal
  <2>1. {interest', direct', again'} \subseteq [Subscribers -> SUBSET Topics]
    BY <1>2 DEF Unsubscribe
  <2>2. listed' \in [Topics -> Seq(Subscribers)]
    BY <1>2, RemoveFirstShape DEF Unsubscribe
  <2> QED  BY <1>2, <2>1, <2>2 DEF Unsubscribe, publishing
<1>3. ASSUME NEW s \in Subscribers, NEW t \in Topics, SubscribeAlone(s, t) \/ UnsubscribeAlone(s, t)
      PROVE  Goal
  <2>1. {interest', direct', again'} \subseteq [Subscribers -> SUBSET Topics]
    <3>1. CASE SubscribeAlone(s, t)
      BY <3>1 DEF SubscribeAlone
    <3>2. CASE UnsubscribeAlone(s, t)
      BY <3>2 DEF UnsubscribeAlone
    <3> QED  BY <1>3, <3>1, <3>2
  <2> QED  BY <1>3, <2>1 DEF SubscribeAlone, UnsubscribeAlone, publishing
<1>4. ASSUME NEW s \in Subscribers, RemoveSubscriber(s)
      PROVE  Goal
  <2>1. listed' \in [Topics -> Seq(Subscribers)]
    BY <1>4, RemoveFirstShape DEF RemoveSubscriber
  <2> QED  BY <1>4, <2>1 DEF RemoveSubscriber, publishing
<1>5. CASE CloseBroker
  BY <1>5 DEF CloseBroker, publishing
<1>6. ASSUME NEW s \in Subscribers, CloseSubscriber(s)
      PROVE  Goal
  BY <1>6 DEF CloseSubscriber, publishing
<1>7. ASSUME NEW p \in Publishers, (\E t \in Topics : Publish(p, t)) \/ SendCheck(p) \/ Send(p)
      PROVE  Goal
  <2>1. /\ PublishMoves(p) /\ UNCHANGED directory
        /\ mailbox' \in [Subscribers -> 0..MailboxSize] /\ calls' \in [Publishers -> 0..MaxPublishes]
    BY <1>7, PublishSteps
  <2>2. ASSUME NEW q \in Publishers
        PROVE  /\ todo'[q] \in Seq(Subscribers) /\ topic'[q] \in Topics
               /\ publish'[q] \in {"out", "check", "send", "panicked"}
               /\ todo'[q] # <<>> <=> publish'[q] \in {"check", "send"}
    <3>1. CASE q = p
      <4>1. todo[p] \in Seq(Subscribers) /\ (todo[p] # <<>> => Tail(todo[p]) \in Seq(Subscribers))
        BY TailElements
      <4>0. topic[p] \in Topics /\ \A t \in Topics : listed[t] \in Seq(Subscribers)
        OBVIOUS
      <4>2. topic'[p] \in Topics /\ todo'[p] \in Seq(Subscribers)
        <5> HIDE DEF BrokerTypeOK, BrokerShape
        <5>1. CASE todo'[p] = <<>> /\ topic'[p] \in Topics
          BY <5>1
        <5>2. CASE todo'[p] = listed[topic'[p]] /\ topic'[p] \in Topics
          BY <4>0, <5>2
        <5>3. CASE todo'[p] \in {todo[p], Tail(todo[p])} /\ todo[p] # <<>> /\ topic'[p] = topic[p]
          BY <4>0, <4>1, <5>3
        <5> QED  BY <2>1, <5>1, <5>2, <5>3 DEF PublishMoves
      <4> QED  BY <2>1, <3>1, <4>2 DEF PublishMoves
    <3>2. CASE q # p
      BY <2>1, <3>2 DEF PublishMoves
    <3> QED  BY <3>1, <3>2
  <2>3. publish' \in [Publishers -> {"out", "check", "send", "panicked"}] /\ topic' \in [Publishers -> Topics]
    <3>1. publish' = [q \in Publishers |-> publish'[q]] /\ topic' = [q \in Publishers |-> topic'[q]]
      BY <1>7, <2>1 DEF PublishMoves, Publish, SendCheck, Send, NextSubscriber, PublishAt
    <3> QED  BY <2>2, <3>1, Zenon
  <2>4. todo' \in [Publishers -> Seq(Subscribers)]
    <3>1. todo' = [q \in Publishers |-> todo'[q]]
      BY <1>7, <2>1 DEF PublishMoves, Publish, SendCheck, Send, NextSubscriber, PublishAt
    <3> QED  BY <2>2, <3>1, Zenon
  <2> QED  BY <2>1, <2>2, <2>3, <2>4 DEF directory
<1>8. ASSUME NEW s \in Subscribers, ReadMailbox(s)
      PROVE  Goal
  BY <1>8 DEF ReadMailbox, directory, publishing
<1> QED  BY <1>1, <1>2, <1>3, <1>4, <1>5, <1>6, <1>7, <1>8 DEF BrokerNext

\* A subscriber and a topic are told apart from the others by their own entries alone.
LEMMA DirectoryApart ==
    ASSUME NEW x \in Subscribers, NEW u \in Topics, Directory(x, u),
           x \in shut => x \in shut', x \in registered => x \in registered',
           u \in interest'[x] <=> u \in interest[x], u \in direct'[x] <=> u \in direct[x],
           u \in again'[x] <=> u \in again[x], Listed(x, u)' <=> Listed(x, u),
           Once(x, listed[u]) => Once(x, listed'[u])
    PROVE  Directory(x, u)'
BY DEF Directory

LEMMA DirectoryNext ==
    ASSUME BrokerTypeOK, BrokerShape, DirectoryKept, BrokerNext
    PROVE  DirectoryKept'
<1> SUFFICES ASSUME NEW x \in Subscribers, NEW u \in Topics
             PROVE  Directory(x, u)'
  BY DEF DirectoryKept
<1>0. /\ Directory(x, u) /\ listed[u] \in Seq(Subscribers)
      /\ {interest, direct, again} \subseteq [Subscribers -> SUBSET Topics]
      /\ listed \in [Topics -> Seq(Subscribers)]
  BY DEF DirectoryKept, BrokerTypeOK, BrokerShape
<1>1. ASSUME NEW s \in Subscribers, NEW t \in Topics, Subscribe(s, t)
      PROVE  Directory(x, u)'
  <2>1. /\ shut' = shut /\ registered' = registered \cup {s}
        /\ interest' = [interest EXCEPT ![s] = interest[s] \cup {t}]
        /\ direct' = [direct EXCEPT ![s] = direct[s] \ {t}]
        /\ listed' = [listed EXCEPT ![t] = Append(listed[t], s)]
        /\ again' = IF Listed(s, t) THEN [again EXCEPT ![s] = again[s] \cup {t}] ELSE again
    BY <1>1 DEF Subscribe
  <2>2. listed'[u] = IF u = t THEN Append(listed[u], s) ELSE listed[u]
    BY <1>0, <2>1
  <2>3. CASE x = s /\ u = t
    <3>1. s \in Range(listed'[t]) /\ (s \notin Range(listed[t]) => Once(s, listed'[t]))
      <4>1. listed[t] \in Seq(Subscribers) /\ listed'[t] = Append(listed[t], s)
        BY <1>0, <2>2, <2>3
      <4> QED  BY <4>1, AppendOnce
    <3>2. s \in registered' /\ t \in interest'[s] /\ (Listed(s, t) => t \in again'[s])
      BY <1>0, <2>1
    <3> QED  BY <2>3, <3>1, <3>2 DEF Directory, Listed
  <2>4. CASE ~(x = s /\ u = t)
    <3>1. /\ u \in interest'[x] <=> u \in interest[x]
          /\ u \in direct'[x] <=> u \in direct[x]
          /\ u \in again'[x] <=> u \in again[x]
      BY <1>0, <2>1, <2>4
    <3>2. (Listed(x, u)' <=> Listed(x, u)) /\ (Once(x, listed[u]) => Once(x, listed'[u]))
      BY <1>0, <2>2, <2>4, AppendOnce DEF Listed
    <3> QED  BY <1>0, <2>1, <3>1, <3>2, DirectoryApart
  <2> QED  BY <2>3, <2>4
<1>2. ASSUME NEW s \in Subscribers, NEW t \in Topics, Unsubscribe(s, t)
      PROVE  Directory(x, u)'
  <2>1. /\ shut' = shut /\ registered' = registered
        /\ interest' = [interest EXCEPT ![s] = interest[s] \ {t}]
        /\ direct' = [direct EXCEPT ![s] = direct[s] \ {t}]
        /\ listed' = [listed EXCEPT ![t] = RemoveFirst(listed[t], s)]
        /\ again' = IF Listed(s, t)' THEN again ELSE [again EXCEPT ![s] = again[s] \ {t}]
    BY <1>2 DEF Unsubscribe
  <2>2. listed'[u] = IF u = t THEN RemoveFirst(listed[u], s) ELSE listed[u]
    BY <1>0, <2>1
  <2>3. CASE x = s /\ u = t
    <3>1. /\ Once(s, listed[t]) => ~Listed(s, t)' /\ Once(s, listed'[t])
          /\ ~Listed(s, t)' => Once(s, listed'[t])
      BY <1>0, <2>2, <2>3, RemoveFirstElements DEF Listed, Range, Once
    <3>2. ~Listed(s, t) => ~Listed(s, t)'
      <4>1. ~Listed(s, t) => Once(s, listed[t])
        BY DEF Listed, Range, Once
      <4> QED  BY <3>1, <4>1
    <3>3. t \notin interest'[s] /\ (t \in again'[s] <=> t \in again[s] /\ Listed(s, t)')
      BY <1>0, <2>1
    <3> QED  BY <1>0, <2>1, <2>3, <3>1, <3>2, <3>3 DEF Directory
  <2>4. CASE ~(x = s /\ u = t)
    <3>1. /\ u \in interest'[x] <=> u \in interest[x]
          /\ u \in direct'[x] <=> u \in direct[x]
          /\ u \in again'[x] <=> u \in again[x]
      BY <1>0, <2>1, <2>4
    <3>2. (Listed(x, u)' <=> Listed(x, u)) /\ (Once(x, listed[u]) => Once(x, listed'[u]))
      BY <1>0, <2>2, <2>4, RemoveFirstElements DEF Listed
    <3> QED  BY <1>0, <2>1, <3>1, <3>2, DirectoryApart
  <2> QED  BY <2>3, <2>4
<1>3. ASSUME NEW s \in Subscribers, NEW t \in Topics, SubscribeAlone(s, t) \/ UnsubscribeAlone(s, t)
      PROVE  Directory(x, u)'
  <2>1. UNCHANGED <<registered, listed, shut, again>>
    BY <1>3 DEF SubscribeAlone, UnsubscribeAlone
  <2>2. \/ u \in direct'[x]
        \/ (u \in interest'[x] <=> u \in interest[x]) /\ (u \in direct'[x] <=> u \in direct[x])
    BY <1>0, <1>3 DEF SubscribeAlone, UnsubscribeAlone
  <2> QED  BY <1>0, <2>1, <2>2 DEF Directory, Listed
<1>4. ASSUME NEW s \in Subscribers, RemoveSubscriber(s)
      PROVE  Directory(x, u)'
  <2>1. /\ UNCHANGED <<interest, direct, again>> /\ shut' = shut \cup {s} /\ registered' = registered \ {s}
        /\ listed'[u] = RemoveFirst(listed[u], s)
    BY <1>4 DEF RemoveSubscriber
  <2>2. CASE x = s
    BY <2>1, <2>2 DEF Directory
  <2>3. CASE x # s
    <3>1. (Listed(x, u)' <=> Listed(x, u)) /\ (Once(x, listed[u]) => Once(x, listed'[u]))
      BY <1>0, <2>1, <2>3, RemoveFirstElements DEF Listed
    <3> QED  BY <1>0, <2>1, <2>3, <3>1, DirectoryApart
  <2> QED  BY <2>2, <2>3
<1>5. CASE CloseBroker
  <2>1. /\ UNCHANGED <<interest, direct, again>> /\ shut' = shut \cup registered /\ listed'[u] = <<>>
    BY <1>5 DEF CloseBroker
  <2>2. ~Listed(x, u)' /\ Once(x, listed'[u])
    BY <2>1 DEF Listed, Range, Once
  <2> QED  BY <1>0, <2>1, <2>2 DEF Directory
<1>6. ASSUME NEW s \in Subscribers, CloseSubscriber(s)
      PROVE  Directory(x, u)'
  BY <1>0, <1>6 DEF CloseSubscriber, Directory, Listed
<1>7. CASE UNCHANGED directory
  BY <1>0, <1>7 DEF directory, Directory, Listed
<1> QED  BY <1>1, <1>2, <1>3, <1>4, <1>5, <1>6, <1>7, PublishSteps DEF BrokerNext, ReadMailbox

LEMMA FollowsNext ==
    ASSUME BrokerTypeOK, BrokerShape, PublishFollowsList, BrokerNext
    PROVE  PublishFollowsList'
<1> DEFINE Follows(l, d) == /\ Len(d) <= Len(l)
                            /\ \A k \in 1..Len(d) : d[k] = l[Len(l) - Len(d) + k]
<1>0. \A p \in Publishers : /\ todo[p] \in Seq(Subscribers) /\ topic[p] \in Topics
                            /\ listed[topic[p]] \in Seq(Subscribers) /\ Follows(listed[topic[p]], todo[p])
  BY DEF BrokerTypeOK, BrokerShape, PublishFollowsList
<1>1. ASSUME NEW l \in Seq(Subscribers)
      PROVE  Follows(l, <<>>) /\ Follows(l, l)
  BY <1>1
<1>2. ASSUME NEW l \in Seq(Subscribers), NEW d \in Seq(Subscribers), d # <<>>, Follows(l, d)
      PROVE  Follows(l, Tail(d))
  <2>1. /\ Len(l) \in Nat /\ Len(d) \in Nat \ {0} /\ Len(Tail(d)) = Len(d) - 1
        /\ \A i \in 1..(Len(d) - 1) : i + 1 \in 1..Len(d) /\ Tail(d)[i] = d[i+1]
    BY <1>2
  <2>2. ASSUME NEW k \in 1..(Len(d) - 1)
        PROVE  Tail(d)[k] = l[Len(l) - (Len(d) - 1) + k]
    <3>1. Len(l) - Len(d) + (k + 1) = Len(l) - (Len(d) - 1) + k
      BY <2>1
    <3> QED  BY <1>2, <2>1, <3>1
  <2> QED  BY <1>2, <2>1, <2>2
<1>3. ASSUME WriteLock, UNCHANGED publishing, BrokerShape'
      PROVE  PublishFollowsList'
  <2>1. \A p \in Publishers : todo'[p] = <<>> /\ listed'[topic'[p]] \in Seq(Subscribers)
    <3>1. \A p \in Publishers : todo[p] = <<>> /\ topic[p] \in Topics
      BY <1>3 DEF WriteLock, BrokerTypeOK
    <3>2. todo' = todo /\ topic' = topic /\ \A t \in Topics : listed'[t] \in Seq(Subscribers)
      BY <1>3 DEF publishing, BrokerShape
    <3> QED  BY <3>1, <3>2
  <2> HIDE DEF Follows
  <2>2. \A p \in Publishers : Follows(listed'[topic'[p]], todo'[p])
    BY <1>1, <2>1
  <2> QED  BY <2>2 DEF Follows, PublishFollowsList
<1>4. CASE UNCHANGED <<listed, topic, todo>>
  BY <1>0, <1>4 DEF PublishFollowsList
<1>5. ASSUME NEW p \in Publishers, PublishMoves(p), UNCHANGED listed
      PROVE  PublishFollowsList'
  <2> HIDE DEF Follows
  <2>1. Follows(listed[topic'[p]], todo'[p])
    <3>1. CASE todo'[p] = <<>> /\ topic'[p] \in Topics
      BY <1>1, <3>1 DEF BrokerShape
    <3>2. CASE todo'[p] = listed[topic'[p]] /\ topic'[p] \in Topics
      BY <1>1, <3>2 DEF BrokerShape
    <3>3. CASE todo'[p] \in {todo[p], Tail(todo[p])} /\ todo[p] # <<>> /\ topic'[p] = topic[p]
      BY <1>0, <1>2, <3>3
    <3> QED  BY <1>5, <3>1, <3>2, <3>3 DEF PublishMoves
  <2>2. \A q \in Publishers : q # p => todo'[q] = todo[q] /\ topic'[q] = topic[q]
    BY <1>5 DEF PublishMoves
  <2>3. \A q \in Publishers : Follows(listed'[topic'[q]], todo'[q])
    BY <1>0, <1>5, <2>1, <2>2
  <2> QED  BY <2>3 DEF Follows, PublishFollowsList
<1>6. CASE \E p \in Publishers : (\E t \in Topics : Publish(p, t)) \/ SendCheck(p) \/ Send(p)
  BY <1>5, <1>6, PublishSteps DEF directory
<1>7. BrokerShape'
  BY BrokerTypeNext
<1> QED  BY <1>3, <1>4, <1>6, <1>7
         DEF BrokerNext, Subscribe, Unsubscribe, SubscribeAlone, UnsubscribeAlone, RemoveSubscriber,
             CloseBroker, CloseSubscriber, ReadMailbox, directory, publishing

LEMMA ShutNext ==
    ASSUME BrokerInv, BrokerNext
    PROVE  ShutItself'
<1> USE DEF BrokerInv, BrokerTypeOK, BrokerShape, ShutItself, BrokerClosesSafely
<1>1. CASE UNCHANGED <<shut, publish, todo, selfClosed>>
  BY <1>1
<1>2. CASE WriteLock /\ UNCHANGED <<publish, selfClosed>>
  BY <1>2 DEF WriteLock
<1>3. ASSUME NEW s \in Subscribers, CloseSubscriber(s)
      PROVE  ShutItself'
  BY <1>3 DEF CloseSubscriber, publishing
<1>4. ASSUME NEW p \in Publishers, NEW t \in Topics, Publish(p, t)
      PROVE  ShutItself'
  BY <1>4 DEF Publish, PublishAt, directory
<1>5. ASSUME NEW p \in Publishers, SendCheck(p)
      PROVE  ShutItself'
  <2>1. CASE Head(todo[p]) \in registered \ shut
    BY <1>5, <2>1 DEF SendCheck, PublishAt, directory
  <2>2. CASE Head(todo[p]) \notin registered \ shut
    BY <1>5, <2>2, NextSubscriberShape DEF SendCheck, directory
  <2> QED  BY <2>1, <2>2
<1>6. ASSUME NEW p \in Publishers, Send(p)
      PROVE  ShutItself'
  <2>1. CASE Head(todo[p]) \in shut
    BY <1>6, <2>1 DEF Send, PublishAt, directory
  <2>2. CASE Head(todo[p]) \notin shut
    BY <1>6, <2>2, NextSubscriberShape DEF Send, directory
  <2> QED  BY <2>1, <2>2
<1> QED  BY <1>1, <1>2, <1>3, <1>4, <1>5, <1>6
         DEF BrokerNext, Subscribe, Unsubscribe, SubscribeAlone, UnsubscribeAlone, RemoveSubscriber,
             CloseBroker, ReadMailbox, directory, publishing

LEMMA BrokerInvInit ==
    ASSUME BrokerInit
    PROVE  BrokerInv
<1> USE BrokerAssumption DEF BrokerInit
<1>1. \A S : <<>> \in Seq(S) /\ Len(<<>>) = 0 /\ DOMAIN <<>> = {}
  OBVIOUS
<1>2. BrokerTypeOK
  <2>1. /\ registered \subseteq Subscribers /\ shut \subseteq Subscribers /\ selfClosed \subseteq shut
        /\ \A t \in Topics : listed[t] \in Seq(Subscribers)
        /\ brokerClosed \in BOOLEAN
    BY <1>1
  <2>2. {interest, direct, again} \subseteq [Subscribers -> SUBSET Topics]
    OBVIOUS
  <2>3. /\ calls \in [Publishers -> 0..MaxPublishes] /\ topic \in [Publishers -> Topics]
        /\ publish \in [Publishers -> {"out", "check", "send", "panicked"}]
        /\ mailbox \in [Subscribers -> 0..MailboxSize]
    OBVIOUS
  <2>4. \A p \in Publishers : todo[p] \in Seq(Subscribers) /\ (todo[p] # <<>> <=> publish[p] \in {"check", "send"})
    BY <1>1
  <2> QED  BY <2>1, <2>2, <2>3, <2>4 DEF BrokerTypeOK
<1>3. BrokerShape
  BY <1>1 DEF BrokerShape
<1>4. DirectoryKept
  <2>1. ASSUME NEW s \in Subscribers, NEW t \in Topics
        PROVE  Directory(s, t)
    <3>1. listed[t] = <<>> /\ t \notin interest[s]
      OBVIOUS
    <3>2. ~Listed(s, t) /\ Once(s, listed[t])
      BY <1>1, <3>1 DEF Listed, Range, Once
    <3> QED  BY <3>1, <3>2 DEF Directory
  <2> QED  BY <2>1 DEF DirectoryKept
<1>5. PublishFollowsList
  <2>1. ASSUME NEW p \in Publishers
        PROVE  todo[p] = <<>> /\ listed[topic[p]] = <<>>
    OBVIOUS
  <2> QED  BY <1>1, <2>1 DEF PublishFollowsList
<1>6. ShutItself
  BY DEF ShutItself, BrokerClosesSafely
<1> QED  BY <1>2, <1>3, <1>4, <1>5, <1>6 DEF BrokerInv

LEMMA BrokerInvNext ==
    ASSUME BrokerInv, [BrokerNext]_brokerVars
    PROVE  BrokerInv'
<1>1. CASE BrokerNext
  BY <1>1, BrokerTypeNext, DirectoryNext, FollowsNext, ShutNext DEF BrokerInv
<1>2. CASE UNCHANGED brokerVars
  BY <1>2 DEF brokerVars, BrokerInv, BrokerTypeOK, BrokerShape, DirectoryKept, Directory, Once, Listed,
     PublishFollowsList, ShutItself, BrokerClosesSafely
<1> QED  BY <1>1, <1>2

-----------------------------------------------------------------------------
(* Broadcast.  Close takes the outputs away from run when it has ended. *)
BroadcastInv == BroadcastTypeOK /\ outputs \cap outputClosed = {} /\ RunNeverPanics

LEMMA BroadcastInvInit ==
    ASSUME BroadcastInit
    PROVE  BroadcastInv
<1> USE BroadcastAssumption DEF BroadcastInit
<1>1. {inputClosed, stopped} \subseteq BOOLEAN
  OBVIOUS
<1>2. taken \in 0..MaxSends /\ runAt = "select" /\ output \in [Listeners -> 0..OutputSize]
  OBVIOUS
<1> QED  BY <1>1, <1>2 DEF BroadcastInv, BroadcastTypeOK, RunNeverPanics

LEMMA BroadcastInvNext ==
    ASSUME BroadcastInv, [BroadcastNext]_broadcastVars
    PROVE  BroadcastInv'
<1> USE BroadcastAssumption DEF BroadcastInv, BroadcastTypeOK, RunNeverPanics
<1>1. ASSUME NEW s \in Senders, CallSend(s)
      PROVE  BroadcastInv'
  BY <1>1 DEF CallSend, SenderAt
<1>2. ASSUME NEW s \in Senders, Exchange(s)
      PROVE  BroadcastInv'
  BY <1>2 DEF Exchange, SenderAt
<1>3. ASSUME NEW s \in Senders, SendStops(s)
      PROVE  BroadcastInv'
  BY <1>3 DEF SendStops, SenderAt
<1>4. CASE Deliver
  <2>1. output' \in [Listeners -> 0..OutputSize]
    <3>1. ASSUME NEW l \in toDo
          PROVE  output[l] < OutputSize => [output EXCEPT ![l] = @ + 1] \in [Listeners -> 0..OutputSize]
      OBVIOUS
    <3> QED  BY <1>4, <3>1 DEF Deliver
  <2> QED  BY <1>4, <2>1 DEF Deliver
<1>5. CASE RunExits
  BY <1>5 DEF RunExits
<1>6. ASSUME NEW l \in Listeners, AddOutput(l)
      PROVE  BroadcastInv'
  BY <1>6 DEF AddOutput
<1>7. ASSUME NEW l \in Listeners, Listen(l)
      PROVE  BroadcastInv'
  BY <1>7 DEF Listen
<1>8. ASSUME NEW c \in BClosers, CancelInput(c)
      PROVE  BroadcastInv'
  BY <1>8 DEF CancelInput, BCloserAt
<1>9. ASSUME NEW c \in BClosers, CloseInput(c)
      PROVE  BroadcastInv'
  BY <1>9 DEF CloseInput, BCloserAt
<1>10. ASSUME NEW c \in BClosers, CloseOutputs(c)
       PROVE  BroadcastInv'
  BY <1>10 DEF CloseOutputs, BCloserAt
<1>11. CASE UNCHANGED broadcastVars
  BY <1>11 DEF broadcastVars
<1> QED  BY <1>1, <1>2, <1>3, <1>4, <1>5, <1>6, <1>7, <1>8, <1>9, <1>10, <1>11 DEF BroadcastNext

-----------------------------------------------------------------------------
(* Streams.  A message given to branch b is with the consumer, with the goroutine  *)
(* multiplex, or with the stage.                                                   *)
InMux(b) == IF mux[b] = "give" THEN 1 ELSE 0
InStage(b) == IF stage[b] = "give" THEN 1 ELSE 0
Passed(b) == Len(got[b]) + InMux(b) + InStage(b)
Through(b) == mux[b] \notin {"exit", "panicked"} /\ stage[b] # "exit"

\* How many messages FanOut has given to b.
Given(b) == IF fan \in Branches /\ fan <= b THEN sent - 1 ELSE sent

CarriedOver(b) ==
    /\ mux[b] = "give" => muxed[b] = Len(got[b]) + 1
    /\ stage[b] = "give" /\ mux[b] \notin {"exit", "panicked"} => held[b] = Len(got[b]) + InMux(b) + 1
    /\ fan # Exit /\ Through(b) => Passed(b) = Given(b)

\* A branch ends from the front, if nobody cancels.
EndsInTurn(b) == ~ended =>
    /\ Passed(b) = Given(b)
    /\ mux[b] = "exit" => stage[b] = "exit"
    /\ stage[b] = "exit" => fan = Exit

Counted == \A b \in Branches : got[b] = [i \in 1..Len(got[b]) |-> i]
Carried == \A b \in Branches : CarriedOver(b) /\ EndsInTurn(b)
Ordered ==
    /\ fan \in Branches => current = sent /\ sent # 0
    /\ outDone => \A b \in Branches : mux[b] = "exit"

StreamsInv == StreamsTypeOK /\ got \in [Branches -> Seq(1..NumMessages)] /\ Counted /\ Carried /\ Ordered


LEMMA StreamsInvInit ==
    ASSUME StreamsInit
    PROVE  StreamsInv
<1> USE StreamsAssumption DEF StreamsInit, Branches, Exit
<1>1. /\ got \in [Branches -> Seq(1..NumMessages)]
      /\ \A b \in Branches : got[b] = <<>> /\ Len(got[b]) = 0 /\ stage[b] = "take" /\ mux[b] = "take"
  OBVIOUS
<1>2. StreamsTypeOK
  <2>1. {outDone, ended} \subseteq BOOLEAN
    OBVIOUS
  <2>2. /\ stage \in [Branches -> {"take", "give", "exit"}]
        /\ mux \in [Branches -> {"take", "give", "exit", "panicked"}]
        /\ held \in [Branches -> 0..NumMessages] /\ muxed \in [Branches -> 0..NumMessages]
        /\ sent \in 0..NumMessages /\ current \in 0..NumMessages /\ fan \in 0..Exit
    OBVIOUS
  <2> QED  BY <1>1, <2>1, <2>2 DEF StreamsTypeOK
<1>3. \A b \in Branches : got[b] = [i \in 1..Len(got[b]) |-> i]
  BY <1>1
<1>4. \A b \in Branches : Passed(b) = 0 /\ Given(b) = 0
  BY <1>1 DEF Passed, Given, InMux, InStage
<1>5. Carried
  BY <1>1, <1>4 DEF Carried, CarriedOver, EndsInTurn
<1>6. Ordered
  BY <1>1 DEF Ordered
<1> QED  BY <1>2, <1>3, <1>5, <1>6, <1>1 DEF StreamsInv, Counted

LEMMA StreamsTypeNext ==
    ASSUME StreamsInv, StreamsNext
    PROVE  StreamsTypeOK' /\ got' \in [Branches -> Seq(1..NumMessages)]
<1> DEFINE Goal == StreamsTypeOK' /\ got' \in [Branches -> Seq(1..NumMessages)]
<1>0. StreamsTypeOK /\ got \in [Branches -> Seq(1..NumMessages)]
  BY DEF StreamsInv
<1> USE StreamsAssumption DEF StreamsTypeOK, Exit, Branches
<1>1. CASE FanTake
  BY SMTT(30), <1>0, <1>1 DEF FanTake, InputClosed
<1>2. ASSUME NEW b \in Branches, FanGive(b)
      PROVE  Goal
  BY SMTT(30), <1>0, <1>2 DEF FanGive
<1>3. CASE FanStop
  BY <1>0, <1>3 DEF FanStop
<1>4. ASSUME NEW b \in Branches, StageGive(b)
      PROVE  Goal
  BY <1>0, <1>4 DEF StageGive
<1>5. ASSUME NEW b \in Branches, StageStop(b)
      PROVE  Goal
  BY <1>0, <1>5 DEF StageStop
<1>6. ASSUME NEW b \in Branches, MuxStop(b)
      PROVE  Goal
  BY <1>0, <1>6 DEF MuxStop
<1>7. CASE CloseMerged
  BY <1>0, <1>7 DEF CloseMerged
<1>8. ASSUME NEW b \in Branches, MuxGive(b)
      PROVE  Goal
  <2>1. mux' \in [Branches -> {"take", "give", "exit", "panicked"}]
    BY <1>0, <1>8 DEF MuxGive
  <2>2. muxed[b] \in 1..NumMessages
    BY <1>0, <1>8 DEF MuxGive, StreamsInv, Carried, CarriedOver, Ordered
  <2>3. got' \in [Branches -> Seq(1..NumMessages)]
    BY <1>0, <1>8, <2>2 DEF MuxGive
  <2> QED  BY <1>0, <1>8, <2>1, <2>3 DEF MuxGive
<1>9. CASE CancelStreams
  BY <1>0, <1>9 DEF CancelStreams
<1> QED  BY <1>1, <1>2, <1>3, <1>4, <1>5, <1>6, <1>7, <1>8, <1>9 DEF StreamsNext, StreamStep

\* The shape of the state, branch by branch.
LEMMA StreamsTyped ==
    ASSUME StreamsInv
    PROVE  /\ sent \in Nat /\ NumOutputs \in Nat \ {0} /\ fan \in 0..(NumOutputs + 1)
           /\ Branches = 1..NumOutputs /\ Exit = NumOutputs + 1
           /\ DOMAIN stage = Branches /\ DOMAIN mux = Branches /\ DOMAIN held = Branches
           /\ DOMAIN muxed = Branches /\ DOMAIN got = Branches
           /\ \A b \in Branches : /\ stage[b] \in {"take", "give", "exit"}
                                  /\ mux[b] \in {"take", "give", "exit", "panicked"}
                                  /\ Len(got[b]) \in Nat
BY StreamsAssumption DEF StreamsInv, StreamsTypeOK, Branches, Exit

LEMMA CountedOn ==
    ASSUME NEW s \in Seq(Int), s = [i \in 1..Len(s) |-> i]
    PROVE  Append(s, Len(s) + 1) = [i \in 1..Len(Append(s, Len(s) + 1)) |-> i]
OBVIOUS

\* What a branch is about is a matter of its own variables, of `fan` and of `sent`.
SameBranch(b) ==
    /\ stage'[b] = stage[b] /\ held'[b] = held[b] /\ mux'[b] = mux[b] /\ muxed'[b] = muxed[b]
    /\ got'[b] = got[b]

LEMMA BranchKept ==
    ASSUME StreamsInv, NEW b \in Branches, SameBranch(b), Given(b)' = Given(b), UNCHANGED ended, fan' = Exit <=> fan = Exit
    PROVE  CarriedOver(b)' /\ EndsInTurn(b)'
<1>1. CarriedOver(b) /\ EndsInTurn(b)
  BY DEF StreamsInv, Carried
<1>2. Passed(b)' = Passed(b) /\ InMux(b)' = InMux(b) /\ Through(b)' = Through(b)
  BY DEF SameBranch, Passed, InMux, InStage, Through
<1> QED  BY <1>1, <1>2 DEF SameBranch, CarriedOver, EndsInTurn, Exit

LEMMA CarriedNext ==
    ASSUME StreamsInv, StreamsNext
    PROVE  Counted' /\ Carried' /\ Ordered'
<1> DEFINE Goal == Counted' /\ Carried' /\ Ordered'
<1>0. Counted /\ Ordered /\ \A b \in Branches : CarriedOver(b) /\ EndsInTurn(b)
  BY DEF StreamsInv, Carried
<1> USE StreamsTyped
<1>1. CASE FanTake
  <2>1. fan = 0 /\ fan' = 1 /\ current' = sent + 1 /\ sent' = sent + 1 /\ UNCHANGED <<stage, held, mux, muxed, outDone, ended, got>>
    BY <1>1 DEF FanTake
  <2>2. \A b \in Branches : Given(b)' = Given(b) /\ SameBranch(b)
    BY <2>1 DEF Given, SameBranch
  <2>3. Carried'
    BY <2>1, <2>2, BranchKept DEF Carried
  <2> QED  BY <1>0, <2>1, <2>3 DEF Counted, Ordered
<1>2. ASSUME NEW b \in Branches, FanGive(b)
      PROVE  Goal
  <2>1. /\ fan = b /\ fan' = (IF b = NumOutputs THEN 0 ELSE b + 1) /\ stage[b] = "take"
        /\ stage'[b] = "give" /\ held'[b] = current /\ UNCHANGED <<sent, current, mux, muxed, outDone, ended, got>>
        /\ \A c \in Branches : c # b => stage'[c] = stage[c] /\ held'[c] = held[c]
    BY <1>2 DEF FanGive
  <2>2. \A c \in Branches : c # b => Given(c)' = Given(c) /\ SameBranch(c)
    BY <2>1 DEF Given, SameBranch
  <2>3. Given(b) = sent - 1 /\ Given(b)' = sent /\ fan # Exit /\ fan' # Exit /\ current = sent
    BY <1>0, <2>1 DEF Given, Ordered
  <2>4. CarriedOver(b)' /\ EndsInTurn(b)'
    <3>1. Passed(b)' = Passed(b) + 1 /\ InMux(b)' = InMux(b) /\ Len(got'[b]) = Len(got[b])
      BY <2>1 DEF Passed, InMux, InStage
    <3>0. Passed(b) = Len(got[b]) + InMux(b) /\ InMux(b) \in {0, 1}
      BY <2>1 DEF Passed, InStage, InMux
    <3>2. mux[b] \notin {"exit", "panicked"} => Passed(b) = sent - 1
      BY <1>0, <2>1, <2>3 DEF CarriedOver, Through
    <3>3. CarriedOver(b)'
      BY <1>0, <2>1, <2>3, <3>0, <3>1, <3>2 DEF CarriedOver, Through
    <3>4. EndsInTurn(b)'
      BY <1>0, <2>1, <2>3, <3>1 DEF EndsInTurn
    <3> QED  BY <3>3, <3>4
  <2>5. Carried'
    BY <2>1, <2>2, <2>3, <2>4, BranchKept DEF Carried
  <2> QED  BY <1>0, <2>1, <2>3, <2>5 DEF Counted, Ordered
<1>3. CASE FanStop
  <2>1. fan' = Exit /\ (fan = 0 \/ ended) /\ UNCHANGED <<sent, current, stage, held, mux, muxed, outDone, ended, got>>
    BY <1>3 DEF FanStop
  <2>2. ASSUME NEW b \in Branches
        PROVE  CarriedOver(b)' /\ EndsInTurn(b)'
    <3>1. fan = 0 => Given(b)' = Given(b)
      BY <2>1 DEF Given
    <3> QED  BY <1>0, <2>1, <3>1 DEF CarriedOver, EndsInTurn, Passed, InMux, InStage, Through
  <2> QED  BY <1>0, <2>1, <2>2 DEF Counted, Ordered, Carried
<1>4. ASSUME NEW b \in Branches, StageGive(b)
      PROVE  Goal
  <2>1. /\ stage[b] = "give" /\ mux[b] = "take" /\ UNCHANGED <<sent, fan, current, held, outDone, ended, got>>
        /\ stage'[b] = "take" /\ mux'[b] = "give" /\ muxed'[b] = held[b]
        /\ \A c \in Branches : c # b => SameBranch(c)
    BY <1>4 DEF StageGive, SameBranch
  <2>2. \A c \in Branches : Given(c)' = Given(c)
    BY <2>1 DEF Given
  <2>3. CarriedOver(b)' /\ EndsInTurn(b)'
    <3>1. /\ Passed(b)' = Passed(b) /\ InMux(b) = 0 /\ InMux(b)' = 1
          /\ Len(got'[b]) = Len(got[b]) /\ Given(b)' = Given(b)
      BY <2>1, <2>2 DEF Passed, InMux, InStage
    <3>2. CarriedOver(b)'
      BY <1>0, <2>1, <3>1 DEF CarriedOver, Through, Exit
    <3>3. EndsInTurn(b)'
      BY <1>0, <2>1, <3>1 DEF EndsInTurn, Exit
    <3> QED  BY <3>2, <3>3
  <2>4. Carried'
    BY <2>1, <2>2, <2>3, BranchKept DEF Carried
  <2> QED  BY <1>0, <2>1, <2>4 DEF Counted, Ordered
<1>5. ASSUME NEW b \in Branches, StageStop(b)
      PROVE  Goal
  <2>1. /\ \/ stage[b] = "take" /\ (fan = Exit \/ ended)
           \/ stage[b] = "give" /\ ended
        /\ stage'[b] = "exit" /\ UNCHANGED <<sent, fan, current, held, mux, muxed, outDone, ended, got>>
        /\ \A c \in Branches : c # b => SameBranch(c)
    BY <1>5 DEF StageStop, SameBranch
  <2>2. \A c \in Branches : Given(c)' = Given(c)
    BY <2>1 DEF Given
  <2>3. CarriedOver(b)' /\ EndsInTurn(b)'
    BY <1>0, <2>1, <2>2 DEF CarriedOver, EndsInTurn, Passed, InMux, InStage, Through
  <2>4. Carried'
    BY <2>1, <2>2, <2>3, BranchKept DEF Carried
  <2> QED  BY <1>0, <2>1, <2>4 DEF Counted, Ordered
<1>6. ASSUME NEW b \in Branches, MuxStop(b)
      PROVE  Goal
  <2>1. /\ \/ mux[b] = "take" /\ (stage[b] = "exit" \/ ended)
           \/ mux[b] = "give" /\ ended
        /\ mux'[b] = "exit" /\ UNCHANGED <<sent, fan, current, stage, held, muxed, outDone, ended, got>>
        /\ \A c \in Branches : c # b => SameBranch(c)
    BY <1>6 DEF MuxStop, SameBranch
  <2>2. \A c \in Branches : Given(c)' = Given(c)
    BY <2>1 DEF Given
  <2>3. CarriedOver(b)' /\ EndsInTurn(b)'
    BY <1>0, <2>1, <2>2 DEF CarriedOver, EndsInTurn, Passed, InMux, InStage, Through
  <2>4. Carried'
    BY <2>1, <2>2, <2>3, BranchKept DEF Carried
  <2>5. outDone => \A c \in Branches : mux'[c] = "exit"
    BY <1>0, <2>1 DEF Ordered, SameBranch
  <2> QED  BY <1>0, <2>1, <2>4, <2>5 DEF Counted, Ordered
<1>7. CASE CloseMerged
  <2>1. /\ UNCHANGED <<sent, fan, current, stage, held, mux, muxed, ended, got>>
        /\ \A b \in Branches : mux[b] = "exit"
    BY <1>7 DEF CloseMerged
  <2>2. \A b \in Branches : Given(b)' = Given(b) /\ SameBranch(b)
    BY <2>1 DEF Given, SameBranch
  <2>3. Carried'
    BY <2>1, <2>2, BranchKept DEF Carried
  <2> QED  BY <1>0, <2>1, <2>3 DEF Counted, Ordered
<1>8. ASSUME NEW b \in Branches, MuxGive(b)
      PROVE  Goal
  <2>1. ~outDone /\ mux[b] = "give" /\ muxed[b] = Len(got[b]) + 1
    BY <1>0, <1>8 DEF MuxGive, CarriedOver, Ordered
  <2>2. got[b] \in Seq(Int)
    BY StreamsAssumption DEF StreamsInv
  <2>3. got' = [got EXCEPT ![b] = Append(got[b], Len(got[b]) + 1)]
    BY <1>8, <2>1 DEF MuxGive
  <2>4. got'[b] = [i \in 1..Len(got'[b]) |-> i] /\ Len(got'[b]) = Len(got[b]) + 1
    <3>1. got'[b] = Append(got[b], Len(got[b]) + 1) /\ got[b] = [i \in 1..Len(got[b]) |-> i]
      BY <1>0, <2>3 DEF Counted
    <3>2. Len(Append(got[b], Len(got[b]) + 1)) = Len(got[b]) + 1
      BY <2>2
    <3> QED  BY <2>2, <3>1, <3>2, CountedOn
  <2>5. /\ mux'[b] = "take" /\ UNCHANGED <<sent, fan, current, stage, held, muxed, outDone, ended>>
        /\ \A c \in Branches : c # b => SameBranch(c)
    BY <1>8, <2>1, <2>3 DEF MuxGive, SameBranch
  <2>6. \A c \in Branches : Given(c)' = Given(c)
    BY <2>5 DEF Given
  <2>7. CarriedOver(b)' /\ EndsInTurn(b)'
    <3>1. /\ Passed(b)' = Passed(b) /\ InMux(b) = 1 /\ InMux(b)' = 0
          /\ Len(got'[b]) = Len(got[b]) + 1 /\ Given(b)' = Given(b)
      BY <2>1, <2>4, <2>5, <2>6 DEF Passed, InMux, InStage
    <3>2. CarriedOver(b)'
      BY <1>0, <2>1, <2>5, <3>1 DEF CarriedOver, Through, Exit
    <3>3. EndsInTurn(b)'
      BY <1>0, <2>1, <2>5, <3>1 DEF EndsInTurn, Exit
    <3> QED  BY <3>2, <3>3
  <2>8. Carried'
    BY <2>5, <2>6, <2>7, BranchKept DEF Carried
  <2>9. Counted'
    BY <1>0, <2>4, <2>5 DEF Counted, SameBranch
  <2> QED  BY <1>0, <2>1, <2>5, <2>8, <2>9 DEF Ordered
<1>9. CASE CancelStreams
  <2>1. ended' /\ UNCHANGED <<sent, fan, current, stage, held, mux, muxed, outDone, got>>
    BY <1>9 DEF CancelStreams
  <2>3. Carried'
    BY <1>0, <2>1 DEF Carried, CarriedOver, EndsInTurn, Passed, Given, InMux, InStage, Through
  <2> QED  BY <1>0, <2>1, <2>3 DEF Counted, Ordered
<1> QED  BY <1>1, <1>2, <1>3, <1>4, <1>5, <1>6, <1>7, <1>8, <1>9 DEF StreamsNext, StreamStep

LEMMA StreamsInvNext ==
    ASSUME StreamsInv, [StreamsNext]_streamVars
    PROVE  StreamsInv'
<1>1. CASE StreamsNext
  BY <1>1, StreamsTypeNext, CarriedNext DEF StreamsInv
<1>2. CASE UNCHANGED streamVars
  BY <1>2 DEF streamVars, StreamsInv, StreamsTypeOK, Counted, Carried, Ordered, CarriedOver, EndsInTurn,
     Passed, Given, InMux, InStage, Through
<1> QED  BY <1>1, <1>2

LEMMA StreamsInvComplete ==
    ASSUME StreamsInv
    PROVE  StreamsComplete
<1> SUFFICES ASSUME NEW b \in Branches
             PROVE  /\ got[b] = [i \in 1..Len(got[b]) |-> i]
                    /\ outDone /\ ~ended => Len(got[b]) = sent
  BY DEF StreamsComplete
<1>1. got[b] = [i \in 1..Len(got[b]) |-> i]
  BY DEF StreamsInv, Counted
<1>2. ASSUME outDone, ~ended
      PROVE  Len(got[b]) = sent
  <2>1. mux[b] = "exit" /\ stage[b] = "exit" /\ fan = Exit /\ Passed(b) = Given(b)
    BY <1>2 DEF StreamsInv, Ordered, Carried, EndsInTurn
  <2> QED  BY <2>1, StreamsTyped DEF Passed, Given, InMux, InStage
<1> QED  BY <1>1, <1>2

-----------------------------------------------------------------------------
(* The composition. *)
MessagingInv == part \in {"broker", "broadcast", "streams"} /\ BrokerInv /\ BroadcastInv /\ StreamsInv

LEMMA MessagingInvariant == Spec => []MessagingInv
<1>1. Init => MessagingInv
  BY BrokerInvInit, BroadcastInvInit, StreamsInvInit DEF Init, MessagingInv
<1>2. MessagingInv /\ [Next]_allVars => MessagingInv'
  <2> SUFFICES ASSUME MessagingInv, [Next]_allVars
               PROVE  MessagingInv'
    OBVIOUS
  <2>1. /\ part' = part
        /\ [BrokerNext]_brokerVars /\ [BroadcastNext]_broadcastVars /\ [StreamsNext]_streamVars
    BY DEF Next, allVars, InBroker, InBroadcast, InStreams, Only
  <2> QED  BY <2>1, BrokerInvNext, BroadcastInvNext, StreamsInvNext DEF MessagingInv
<1> QED  BY <1>1, <1>2, PTL DEF Spec

\* The variables of the broker, the broadcast and the streams keep their types
\* (broker.go:22-28, 116-121; fanout.go:205-214).
THEOREM MessagingTypes == Spec => []TypeOK
<1>1. MessagingInv => TypeOK
  BY DEF MessagingInv, BrokerInv, BroadcastInv, StreamsInv, TypeOK
<1> QED  BY <1>1, MessagingInvariant, PTL

\* While it is open, a subscriber whose topics only the broker sets is listed under those
\* it is interested in and, what it subscribed to once more apart, under no other, though
\* others come and go (broker.go:132-209).
THEOREM SubscribersAreListed == Spec => []SubscriptionsServed
<1>1. MessagingInv => SubscriptionsServed
  <2> SUFFICES ASSUME MessagingInv, NEW s \in Subscribers \ shut, NEW t \in Topics \ direct[s]
               PROVE  /\ t \in interest[s] => Listed(s, t)
                      /\ Listed(s, t) => t \in interest[s] \/ t \in again[s]
    BY DEF SubscriptionsServed
  <2> QED  BY DEF MessagingInv, BrokerInv, DirectoryKept, Directory
<1> QED  BY <1>1, MessagingInvariant, PTL

\* Any number of publishers go through the lists of their topics as those are at the
\* moment, because whoever changes a list waits for all of them (broker.go:157, 166, 177).
THEOREM PublishersFollowTheList == Spec => []PublishFollowsList
<1>1. MessagingInv => PublishFollowsList
  BY DEF MessagingInv, BrokerInv
<1> QED  BY <1>1, MessagingInvariant, PTL

\* A send meets a closed channel only where a subscriber closed itself
\* (broker.go:96-113, fanout.go:283-294).
THEOREM ChannelsCloseSafely == Spec => []ClosedSafely
<1>1. MessagingInv => ClosedSafely
  BY DEF MessagingInv, BrokerInv, BroadcastInv, ShutItself, ClosedSafely
<1> QED  BY <1>1, MessagingInvariant, PTL

\* FanOut, the pipeline stages and FanIn pass on every message in order and without
\* gaps, and all of them unless they are cancelled (fanout.go:50-200).
THEOREM StreamsAreComplete == Spec => []StreamsComplete
<1>1. MessagingInv => StreamsComplete
  BY StreamsInvComplete DEF MessagingInv
<1> QED  BY <1>1, MessagingInvariant, PTL
=============================================================================
