------------------------------ MODULE MqttProofs ------------------------------
(***************************************************************************)
(* Proofs about the downlink, for every finite set of networks and all     *)
(* sizes of channels and queue.                                            *)
(***************************************************************************)
EXTENDS Mqtt, SequenceTheorems, FiniteSetTheorems, TLAPS

Topics   == Networks \cup {Linkage}
Requests == [ask : {"subscribe", "unsubscribe"}, topic : Topics] \cup {Publish}

ClientStates == {"Waiting", "Init", "Work", "Pause", "Connected", "Incoming",
                 "Leaving", "Failed", "Stuck"}

TypeOK ==
    /\ broker \in {"up", "down"} /\ link \in {"none", "up", "broken", "closed"}
    /\ granted \in SUBSET Topics /\ requests \in Seq(Requests)
    /\ networks \in SUBSET Networks /\ stored \in SUBSET Networks
    /\ news \in [News -> Nat] /\ changes \in 0..MaxChanges
    /\ told \in Statuses /\ service \in {"select"} \cup Commands
    /\ rx_msg \in 0..Cap /\ rx_net \in Seq(News) /\ notices \in Seq(Notices)
    /\ client \in ClientStates /\ subs \in SUBSET Topics
-----------------------------------------------------------------------------
(* The requests for a set of topics.                                       *)

LEMMA SetToSeqIs ==
  ASSUME NEW S, IsFiniteSet(S)
  PROVE  /\ Cardinality(S) \in Nat
         /\ SetToSeq(S) \in [1..Cardinality(S) -> S]
         /\ \A x \in S : \E i \in 1..Cardinality(S) : SetToSeq(S)[i] = x
         /\ \A i, j \in 1..Cardinality(S) : SetToSeq(S)[i] = SetToSeq(S)[j] => i = j
<1> DEFINE n == Cardinality(S)
           f == SetToSeq(S)
<1>1. n \in Nat /\ ExistsBijection(1..n, S)
  BY FS_CardinalityType
<1>2. \E g \in [1..n -> S] : IsInjective(g)
  BY <1>1 DEF ExistsBijection, Bijection, Injection
<1>3. f \in [1..n -> S] /\ IsInjective(f)
  BY <1>2 DEF SetToSeq
<1>4. f \in Injection(1..n, S) /\ Cardinality(1..n) = Cardinality(S)
  <2>1. Cardinality(1..n) = n
    BY <1>1, FS_Interval
  <2>2. QED
    BY <1>3, <2>1 DEF Injection
<1>5. f \in Surjection(1..n, S)
  BY <1>4, FS_Injection
<1>6. QED
  BY <1>1, <1>3, <1>5 DEF Surjection, IsInjective

About(r, x) == r # Publish /\ r.topic = x

LEMMA EachIs ==
  ASSUME NEW A \in SUBSET Topics, NEW ask \in {"subscribe", "unsubscribe"}
  PROVE  /\ IsFiniteSet(A) /\ Cardinality(A) \in Nat
         /\ Each(ask, A) \in Seq(Requests) /\ Len(Each(ask, A)) = Cardinality(A)
         /\ \A i \in DOMAIN Each(ask, A) :
              /\ Each(ask, A)[i] # Publish
              /\ Each(ask, A)[i].ask = ask /\ Each(ask, A)[i].topic \in A
         /\ \A x \in A : \E i \in DOMAIN Each(ask, A) :
              \A j \in DOMAIN Each(ask, A) : About(Each(ask, A)[j], x) <=> j = i
<1> DEFINE s == SetToSeq(A)
           n == Cardinality(A)
           e == Each(ask, A)
<1>1. IsFiniteSet(A)
  BY NetworksAssumption, FS_AddElement, FS_Subset DEF Topics
<1>2. /\ n \in Nat /\ s \in [1..n -> A]
      /\ \A x \in A : \E i \in 1..n : s[i] = x
      /\ \A i, j \in 1..n : s[i] = s[j] => i = j
  BY <1>1, SetToSeqIs
<1>3. e = [i \in 1..n |-> [ask |-> ask, topic |-> s[i]]]
  BY <1>2 DEF Each
<1>4. \A i \in 1..n : e[i] \in Requests /\ e[i].ask = ask /\ e[i].topic = s[i]
  BY <1>2, <1>3 DEF Requests
<1>5. \A i \in 1..n : e[i] # Publish
  BY <1>4 DEF Publish
<1>6. DOMAIN e = 1..n /\ e \in [1..n -> Requests]
  BY <1>3, <1>4
<1>7. e \in Seq(Requests) /\ Len(e) = n
  <2>1. e \in Seq(Requests)
    BY <1>2, <1>6, IsASeq
  <2>2. Len(e) = n
    BY <1>2, <1>6, <2>1, LenProperties
  <2>3. QED
    BY <2>1, <2>2
<1>8. \A x \in A : \E i \in 1..n : \A j \in 1..n : About(e[j], x) <=> j = i
  BY <1>2, <1>4, <1>5 DEF About
<1>9. \A i \in DOMAIN e : e[i] # Publish /\ e[i].ask = ask /\ e[i].topic \in A
  BY <1>2, <1>4, <1>5, <1>6
<1>10. \A x \in A : \E i \in DOMAIN e : \A j \in DOMAIN e : About(e[j], x) <=> j = i
  BY <1>6, <1>8
<1> HIDE DEF e
<1>11. QED
  BY <1>1, <1>2, <1>7, <1>9, <1>10 DEF e
-----------------------------------------------------------------------------
(* What the broker sends once it has got the requests.                     *)

Will(g, q, x) ==
    \/ \E i \in DOMAIN q : /\ About(q[i], x) /\ q[i].ask = "subscribe"
                           /\ \A j \in DOMAIN q : j > i => ~About(q[j], x)
    \/ x \in g /\ \A j \in DOMAIN q : ~About(q[j], x)

\* Of the requests that are added at most one is about the topic.
LEMMA WillConcat ==
  ASSUME NEW q \in Seq(Requests), NEW r \in Seq(Requests), NEW g, NEW x
  PROVE  /\ (\A j \in DOMAIN r : ~About(r[j], x)) => (Will(g, q \o r, x) <=> Will(g, q, x))
         /\ \A i \in DOMAIN r : (\A j \in DOMAIN r : About(r[j], x) <=> j = i)
              => (Will(g, q \o r, x) <=> r[i].ask = "subscribe")
<1> DEFINE p == q \o r
           n == Len(q)
           up(j) == n + j
<1>1. /\ \A i \in DOMAIN q : i \in DOMAIN p /\ p[i] = q[i]
      /\ \A j \in DOMAIN r : up(j) \in DOMAIN p /\ p[up(j)] = r[j]
      /\ \A k \in DOMAIN p : k \in DOMAIN q \/ \E j \in DOMAIN r : k = up(j)
      /\ \A i \in DOMAIN q, j \in DOMAIN r : up(j) > i /\ ~(i > up(j))
      /\ \A i, j \in DOMAIN r : up(j) > up(i) <=> j > i
      /\ \A i, j \in DOMAIN r : up(j) = up(i) <=> j = i
      /\ \A j \in DOMAIN r : ~(j > j)
  <2>1. /\ n \in Nat /\ Len(r) \in Nat /\ DOMAIN q = 1..n /\ DOMAIN r = 1..Len(r)
        /\ DOMAIN p = 1..(n + Len(r))
        /\ \A i \in 1..n : p[i] = q[i]
        /\ \A k \in 1..(n + Len(r)) : k > n => p[k] = r[k - n]
    BY ConcatProperties, LenProperties
  <2>2. \A j \in 1..Len(r) : up(j) \in 1..(n + Len(r)) /\ up(j) > n /\ up(j) - n = j
    BY <2>1
  <2>3. \A k \in 1..(n + Len(r)) : k \in 1..n \/ (k - n \in 1..Len(r) /\ k = up(k - n))
    BY <2>1
  <2>4. /\ \A i \in DOMAIN q : i \in DOMAIN p /\ p[i] = q[i]
        /\ \A j \in DOMAIN r : up(j) \in DOMAIN p /\ p[up(j)] = r[j]
    BY <2>1, <2>2
  <2>5. \A k \in DOMAIN p : k \in DOMAIN q \/ \E j \in DOMAIN r : k = up(j)
    BY <2>1, <2>3
  <2>6. /\ \A i \in DOMAIN q, j \in DOMAIN r : up(j) > i /\ ~(i > up(j))
        /\ \A i, j \in DOMAIN r : up(j) > up(i) <=> j > i
        /\ \A i, j \in DOMAIN r : up(j) = up(i) <=> j = i
        /\ \A j \in DOMAIN r : ~(j > j)
    BY <2>1
  <2>7. QED
    BY <2>4, <2>5, <2>6
<1> HIDE DEF p, n, up
<1>2. ASSUME \A j \in DOMAIN r : ~About(r[j], x)
      PROVE  Will(g, p, x) <=> Will(g, q, x)
  <2>1. (\A j \in DOMAIN p : ~About(p[j], x)) <=> (\A j \in DOMAIN q : ~About(q[j], x))
    BY <1>1, <1>2
  <2>2. \A i \in DOMAIN q : (\A j \in DOMAIN p : j > i => ~About(p[j], x))
                        <=> (\A j \in DOMAIN q : j > i => ~About(q[j], x))
    BY <1>1, <1>2
  <2>3. \A k \in DOMAIN p : About(p[k], x) => k \in DOMAIN q
    BY <1>1, <1>2
  <2>4. QED
    BY <1>1, <2>1, <2>2, <2>3 DEF Will
<1>3. ASSUME NEW i \in DOMAIN r, \A j \in DOMAIN r : About(r[j], x) <=> j = i
      PROVE  Will(g, p, x) <=> r[i].ask = "subscribe"
  <2>1. up(i) \in DOMAIN p /\ About(p[up(i)], x) /\ p[up(i)].ask = r[i].ask
    BY <1>1, <1>3
  <2>2. \A k \in DOMAIN p : k > up(i) => ~About(p[k], x)
    BY <1>1, <1>3
  <2>3. \A k \in DOMAIN p : k # up(i) /\ About(p[k], x) => up(i) > k
    BY <1>1, <1>3
  <2>4. QED
    BY <2>1, <2>2, <2>3 DEF Will
<1>4. QED
  BY <1>2, <1>3 DEF p

\* The first request is carried out.
LEMMA WillTail ==
  ASSUME NEW q \in Seq(Requests), q # <<>>, NEW g, NEW x, NEW h,
         x \in h <=> IF About(Head(q), x) THEN Head(q).ask = "subscribe" ELSE x \in g
  PROVE  Will(g, q, x) <=> Will(h, Tail(q), x)
<1> DEFINE r == Tail(q)
           n(i) == i + 1
<1>1. /\ 1 \in DOMAIN q /\ Head(q) = q[1]
      /\ \A i \in DOMAIN r : n(i) \in DOMAIN q /\ r[i] = q[n(i)] /\ n(i) > 1
      /\ \A i \in DOMAIN q : i = 1 \/ \E j \in DOMAIN r : n(j) = i
      /\ \A i, j \in DOMAIN r : j > i <=> n(j) > n(i)
      /\ ~(1 > 1) /\ \A j \in DOMAIN r : ~(1 > n(j))
  <2>1. /\ Len(q) \in Nat /\ Len(q) >= 1 /\ DOMAIN q = 1..Len(q) /\ Head(q) = q[1]
        /\ DOMAIN r = 1..(Len(q) - 1)
        /\ \A i \in 1..(Len(q) - 1) : r[i] = q[i + 1]
    OBVIOUS
  <2>2. \A i \in DOMAIN q : i # 1 => i - 1 \in DOMAIN r /\ n(i - 1) = i
    BY <2>1
  <2>3. QED
    BY <2>1, <2>2
<1> HIDE DEF r, n
<1>2. (\A j \in DOMAIN q : ~About(q[j], x))
        <=> ~About(Head(q), x) /\ \A j \in DOMAIN r : ~About(r[j], x)
  BY <1>1
<1>3. (\A j \in DOMAIN q : j > 1 => ~About(q[j], x)) <=> \A j \in DOMAIN r : ~About(r[j], x)
  BY <1>1
<1>4. \A i \in DOMAIN r : (\A j \in DOMAIN q : j > n(i) => ~About(q[j], x))
                          <=> (\A j \in DOMAIN r : j > i => ~About(r[j], x))
  BY <1>1
<1> DEFINE C(i, z) == About(z[i], x) /\ z[i].ask = "subscribe"
                      /\ \A j \in DOMAIN z : j > i => ~About(z[j], x)
<1>5. \A i \in DOMAIN r : C(n(i), q) <=> C(i, r)
  BY <1>1, <1>4
<1>6. C(1, q) <=> About(Head(q), x) /\ Head(q).ask = "subscribe"
                  /\ \A j \in DOMAIN r : ~About(r[j], x)
  BY <1>1, <1>3
<1> HIDE DEF C
<1>7. (\E i \in DOMAIN q : C(i, q)) <=> C(1, q) \/ \E i \in DOMAIN r : C(i, r)
  BY <1>1, <1>5
<1>8. /\ Will(g, q, x) <=> (\E i \in DOMAIN q : C(i, q))
                           \/ (x \in g /\ \A j \in DOMAIN q : ~About(q[j], x))
      /\ Will(h, r, x) <=> (\E i \in DOMAIN r : C(i, r))
                           \/ (x \in h /\ \A j \in DOMAIN r : ~About(r[j], x))
  BY DEF Will, C
<1>9. Will(g, q, x) <=> Will(h, r, x)
  BY <1>2, <1>6, <1>7, <1>8
<1>10. QED
  BY <1>9 DEF r
-----------------------------------------------------------------------------
(* Types.                                                                  *)

LEMMA QueuesIsTyped ==
  ASSUME TypeOK, NEW new \in Seq(Requests), Queues(new, "Work")
  PROVE  requests' \in Seq(Requests) /\ client' \in ClientStates
<1>1. requests \o new \in Seq(Requests)
  BY ConcatProperties DEF TypeOK
<1>2. QED
  BY <1>1 DEF Queues, TypeOK, ClientStates

\* Every variable keeps its type.
THEOREM TypeCorrect == Spec => []TypeOK
<1> USE BoundsAssumption DEF cacheVars, serviceVars, brokerVars, clientVars, ClientKeeps
<1>1. Init => TypeOK
  BY DEF Init, TypeOK, News, Commands, Statuses, ClientStates
<1>2. TypeOK /\ [Next]_vars => TypeOK'
  <2> SUFFICES ASSUME TypeOK, [Next]_vars PROVE TypeOK'
    OBVIOUS
  <2>1. CASE BrokerTurns
    BY <2>1 DEF BrokerTurns, TypeOK
  <2>2. CASE BatchArrives
    <3>1. news' \in [News -> Nat]
      BY <2>2 DEF BatchArrives, TypeOK, News
    <3>2. QED
      BY <2>2, <3>1 DEF BatchArrives, TypeOK
  <2>3. CASE NetworkChanges
    <3>1. news' \in [News -> Nat]
      BY <2>3 DEF NetworkChanges, TypeOK, News
    <3>2. changes' \in 0..MaxChanges /\ networks' \in SUBSET Networks
      BY <2>3 DEF NetworkChanges, TypeOK
    <3>3. QED
      BY <2>3, <3>1, <3>2 DEF NetworkChanges, TypeOK
  <2>4. CASE ServiceTakesMessage
    BY <2>4 DEF ServiceTakesMessage, TypeOK, Commands
  <2>5. ASSUME NEW n \in News, ServiceTakesNews(n) PROVE TypeOK'
    <3>1. news' \in [News -> Nat]
      BY <2>5 DEF ServiceTakesNews, TypeOK
    <3>2. QED
      BY <2>5, <3>1 DEF ServiceTakesNews, TypeOK, Commands
  <2>6. CASE ServiceSendsMessage
    BY <2>6 DEF ServiceSendsMessage, TypeOK, Commands
  <2>7. CASE ServiceSendsNews
    <3>1. Append(rx_net, service) \in Seq(News)
      BY <2>7 DEF ServiceSendsNews, TypeOK
    <3>2. QED
      BY <2>7, <3>1 DEF ServiceSendsNews, TypeOK
  <2>8. CASE ServiceTakesNotice
    <3>1. Tail(notices) \in Seq(Notices) /\ Head(notices) \in Notices
      BY <2>8, HeadTailProperties DEF ServiceTakesNotice, TypeOK
    <3>2. QED
      BY <2>8, <3>1 DEF ServiceTakesNotice, TypeOK
  <2>9. CASE Waits
    <3>1. Tail(rx_net) \in Seq(News)
      BY <2>9, HeadTailProperties DEF Waits, TypeOK
    <3>2. QED
      BY <2>9, <3>1 DEF Waits, TypeOK, ClientStates
  <2>10. CASE CreatesClient
    <3>1. subs' \in SUBSET Topics
      BY <2>10 DEF CreatesClient, TypeOK, Topics
    <3>2. Each("subscribe", subs') \in Seq(Requests)
      BY <3>1, EachIs
    <3>3. requests' \in Seq(Requests) /\ client' \in ClientStates
      BY <2>10, <3>2, QueuesIsTyped DEF CreatesClient
    <3>4. QED
      BY <2>10, <3>1, <3>3 DEF CreatesClient, TypeOK
  <2>11. CASE CreationFails
    BY <2>11 DEF CreationFails, Dropped, TypeOK, ClientStates
  <2>12. CASE TakesNews
    <3>1. Tail(rx_net) \in Seq(News)
      BY <2>12, HeadTailProperties DEF TakesNews, TypeOK
    <3>2. /\ networks \ subs \in SUBSET Topics /\ subs \ networks \in SUBSET Topics
          /\ networks \in SUBSET Topics
      BY DEF TypeOK, Topics
    <3>3. Each("subscribe", networks \ subs) \o Each("unsubscribe", subs \ networks)
            \in Seq(Requests)
      BY <3>2, EachIs, ConcatProperties
    <3>4. /\ subs' \in SUBSET Topics /\ requests' \in Seq(Requests)
          /\ client' \in ClientStates
      <4>1. CASE Head(rx_net) = "NetworksUpdated"
        BY <2>12, <3>2, <3>3, <4>1, QueuesIsTyped DEF TakesNews
      <4>2. CASE Head(rx_net) # "NetworksUpdated"
        BY <2>12, <4>2 DEF TakesNews, TypeOK
      <4>3. QED
        BY <4>1, <4>2
    <3>5. QED
      BY <2>12, <3>1, <3>4 DEF TakesNews, TypeOK
  <2>13. CASE TakesMessage
    <3>1. <<Publish>> \in Seq(Requests)
      BY DEF Requests
    <3>2. requests' \in Seq(Requests) /\ client' \in ClientStates
      BY <2>13, <3>1, QueuesIsTyped DEF TakesMessage
    <3>3. QED
      BY <2>13, <3>2 DEF TakesMessage, TypeOK
  <2>14. CASE TellsConnected \/ TellsIncoming \/ TellsLeaving \/ TellsFailed
    <3>1. ASSUME NEW from, NEW notice \in Notices, NEW to \in ClientStates,
                 Tells(from, notice, to)
          PROVE  TypeOK'
      <4>1. Append(notices, notice) \in Seq(Notices)
        BY DEF TypeOK
      <4>2. QED
        BY <3>1, <4>1 DEF Tells, TypeOK
    <3>2. /\ "LocalConnected" \in Notices /\ "LocalDisconnected" \in Notices
          /\ "IncomingMessage" \in Notices
          /\ "Work" \in ClientStates /\ "Pause" \in ClientStates
      BY DEF Notices, Statuses, ClientStates
    <3>3. QED
      BY <2>14, <3>1, <3>2 DEF TellsConnected, TellsIncoming, TellsLeaving, TellsFailed
  <2>15. CASE PauseEnds
    BY <2>15 DEF PauseEnds, TypeOK, ClientStates
  <2>16. CASE PollsConnAck
    BY <2>16 DEF PollsConnAck, Polls, TypeOK, ClientStates
  <2>17. CASE PollsRequest
    <3>1. Tail(requests) \in Seq(Requests) /\ Head(requests) \in Requests
      BY <2>17, HeadTailProperties DEF PollsRequest, TypeOK
    <3>2. granted' \in SUBSET Topics
      <4>1. Head(requests).ask = "subscribe" => Head(requests).topic \in Topics
        BY <3>1 DEF Requests, Publish
      <4>2. QED
        BY <2>17, <4>1 DEF PollsRequest, TypeOK
    <3>3. QED
      BY <2>17, <3>1, <3>2 DEF PollsRequest, Polls, TypeOK, ClientStates
  <2>18. CASE PollsPublish
    BY <2>18 DEF PollsPublish, Polls, TypeOK, ClientStates
  <2>19. CASE PollsDisconnect
    BY <2>19 DEF PollsDisconnect, Polls, TypeOK, ClientStates
  <2>20. CASE PollsError
    BY <2>20 DEF PollsError, Polls, Dropped, TypeOK, ClientStates
  <2>21. CASE UNCHANGED vars
    BY <2>21 DEF vars, TypeOK
  <2>22. QED
    BY <2>1, <2>2, <2>3, <2>4, <2>5, <2>6, <2>7, <2>8, <2>9, <2>10, <2>11, <2>12,
       <2>13, <2>14, <2>15, <2>16, <2>17, <2>18, <2>19, <2>20, <2>21 DEF Next
<1>3. QED
  BY <1>1, <1>2, PTL DEF Spec
-----------------------------------------------------------------------------
(* The subscriptions follow the cache.                                     *)

\* Until the client waits for room for ever, what the broker sends, or will
\* send once it has got the requests, are the topics the client counts as
\* subscribed; a client that has not begun has none of either.
TopicInv ==
    /\ client \in {"Waiting", "Init", "Pause", "Failed"} =>
         link = "none" /\ requests = <<>> /\ subs = {}
    /\ link # "up" => granted = {}
    /\ link \in {"none", "up"} /\ client # "Stuck" =>
         \A x \in Topics : Will(granted, requests, x) <=> x \in subs

\* The batch comes before any client, and only once; and no change of the
\* cache is forgotten before a client has worked it in.
NewsInv ==
    /\ stored # {} => /\ client = "Waiting" /\ news["NetworksReady"] = 0
                      /\ service # "NetworksReady"
                      /\ \A i \in DOMAIN rx_net : rx_net[i] # "NetworksReady"
    /\ client \in {"Work", "Connected", "Incoming", "Leaving"} /\ ~Outdated =>
         subs \ {Linkage} = networks

LEMMA WillOfNone ==
  ASSUME NEW g, NEW x
  PROVE  Will(g, <<>>, x) <=> x \in g
BY DEF Will

LEMMA TopicStep ==
  ASSUME TypeOK, TopicInv, [Next]_vars
  PROVE  TopicInv'
<1> USE DEF cacheVars, serviceVars, brokerVars, clientVars, ClientKeeps
<1>1. ASSUME UNCHANGED <<link, granted, requests, subs, client>> PROVE TopicInv'
  BY <1>1 DEF TopicInv, Will
<1>2. CASE BrokerTurns
  <2>1. CASE link = "none"
    BY <1>2, <2>1 DEF BrokerTurns, TopicInv, Will
  <2>2. CASE link # "none"
    BY <1>2, <2>2 DEF BrokerTurns, TopicInv, TypeOK
  <2>3. QED
    BY <2>1, <2>2
<1>3. CASE CreationFails \/ PollsError
  <2>1. /\ link' = "none" /\ granted' = {} /\ requests' = <<>> /\ subs' = {}
    BY <1>3 DEF CreationFails, PollsError, Dropped
  <2>2. \A x : ~ Will({}, <<>>, x)
    BY WillOfNone
  <2>3. \A x : ~ Will(granted', requests', x)
    BY <2>1, <2>2
  <2>4. QED
    BY <2>1, <2>3 DEF TopicInv, Will
<1>4. CASE CreatesClient
  <2>1. /\ client = "Init" /\ link = "none" /\ requests = <<>> /\ granted = {}
        /\ link' = "none" /\ granted' = {} /\ subs' \in SUBSET Topics
        /\ Queues(Each("subscribe", subs'), "Work")
    BY <1>4 DEF CreatesClient, TopicInv, TypeOK, Topics
  <2>2. client' \in {"Work", "Stuck"}
    BY <2>1 DEF Queues
  <2>3. ASSUME client' # "Stuck", NEW x \in Topics
        PROVE  Will(granted', requests', x) <=> x \in subs'
    <3> DEFINE e == Each("subscribe", subs')
    <3>1. /\ e \in Seq(Requests) /\ \A i \in DOMAIN e : e[i].ask = "subscribe"
          /\ \A i \in DOMAIN e : e[i].topic \in subs'
          /\ \A y \in subs' : \E i \in DOMAIN e : \A j \in DOMAIN e : About(e[j], y) <=> j = i
      BY <2>1, EachIs
    <3>2. requests' = requests \o e /\ requests \in Seq(Requests)
      BY <2>1, <2>3 DEF Queues, TypeOK
    <3> HIDE DEF e
    <3>3. CASE x \in subs'
      <4>1. PICK i \in DOMAIN e : \A j \in DOMAIN e : About(e[j], x) <=> j = i
        BY <3>1, <3>3
      <4>2. e[i].ask = "subscribe"
        BY <3>1
      <4>3. Will(granted', requests \o e, x)
        BY <3>1, <3>2, <4>1, <4>2, WillConcat
      <4>4. QED
        BY <3>2, <3>3, <4>3
    <3>4. CASE x \notin subs'
      <4>1. \A j \in DOMAIN e : ~About(e[j], x)
        BY <3>1, <3>4 DEF About
      <4>2. Will(granted', requests', x) <=> Will(granted', requests, x)
        BY <3>1, <3>2, <4>1, WillConcat
      <4>3. ~Will(granted', requests, x)
        BY <2>1, WillOfNone
      <4>4. QED
        BY <3>4, <4>2, <4>3
    <3>5. QED
      BY <3>3, <3>4
  <2>4. QED
    BY <2>1, <2>2, <2>3 DEF TopicInv, Will
<1>5. CASE TakesNews
  <2>1. /\ client = "Work" /\ link' = link /\ granted' = granted
    BY <1>5 DEF TakesNews
  <2>2. CASE Head(rx_net) # "NetworksUpdated"
    BY <1>1, <1>5, <2>2 DEF TakesNews
  <2>3. CASE Head(rx_net) = "NetworksUpdated"
    <3> DEFINE A == networks \ subs
               B == subs \ networks
               e == Each("subscribe", A)
               f == Each("unsubscribe", B)
    <3>1. subs' = networks /\ Queues(e \o f, "Work")
      BY <1>5, <2>3 DEF TakesNews
    <3>2. client' \in {"Work", "Stuck"}
      BY <3>1 DEF Queues
    <3>3. A \in SUBSET Topics /\ B \in SUBSET Topics
      BY DEF TypeOK, Topics
    <3>4. /\ e \in Seq(Requests) /\ f \in Seq(Requests) /\ requests \in Seq(Requests)
          /\ \A i \in DOMAIN e : e[i].ask = "subscribe" /\ e[i].topic \in A
          /\ \A i \in DOMAIN f : f[i].ask = "unsubscribe" /\ f[i].topic \in B
          /\ \A y \in A : \E i \in DOMAIN e : \A j \in DOMAIN e : About(e[j], y) <=> j = i
          /\ \A y \in B : \E i \in DOMAIN f : \A j \in DOMAIN f : About(f[j], y) <=> j = i
      BY <3>3, EachIs DEF TypeOK
    <3> HIDE DEF e, f
    <3>5. ASSUME client' # "Stuck", link \in {"none", "up"}, NEW x \in Topics
          PROVE  Will(granted', requests', x) <=> x \in subs'
      <4>1. requests' = (requests \o e) \o f /\ requests \o e \in Seq(Requests)
        <5>1. requests' = requests \o (e \o f)
          BY <3>1, <3>5 DEF Queues
        <5>2. requests \o (e \o f) = (requests \o e) \o f
          <6>1. requests \in Seq(Requests) /\ e \in Seq(Requests) /\ f \in Seq(Requests)
            BY <3>4
          <6>2. QED
            BY <6>1, ConcatAssociative
        <5>3. requests \o e \in Seq(Requests)
          BY <3>4, ConcatProperties
        <5>4. QED
          BY <5>1, <5>2, <5>3
      <4>2. x \notin A => (Will(granted, requests \o e, x) <=> Will(granted, requests, x))
        <5>1. x \notin A => \A j \in DOMAIN e : ~About(e[j], x)
          BY <3>4 DEF About
        <5>2. QED
          BY <3>4, <5>1, WillConcat
      <4>3. x \in A => Will(granted, requests \o e, x)
        <5>1. ASSUME x \in A PROVE Will(granted, requests \o e, x)
          <6>1. PICK i \in DOMAIN e : \A j \in DOMAIN e : About(e[j], x) <=> j = i
            BY <3>4, <5>1
          <6>2. e[i].ask = "subscribe"
            BY <3>4
          <6>3. QED
            BY <3>4, <6>1, <6>2, WillConcat
        <5>2. QED
          BY <5>1
      <4>4. x \notin B => (Will(granted, requests', x) <=> Will(granted, requests \o e, x))
        <5>1. x \notin B => \A j \in DOMAIN f : ~About(f[j], x)
          BY <3>4 DEF About
        <5>2. QED
          BY <3>4, <4>1, <5>1, WillConcat
      <4>5. x \in B => ~Will(granted, requests', x)
        <5>1. ASSUME x \in B PROVE ~Will(granted, requests', x)
          <6>1. PICK i \in DOMAIN f : \A j \in DOMAIN f : About(f[j], x) <=> j = i
            BY <3>4, <5>1
          <6>2. f[i].ask = "unsubscribe"
            BY <3>4
          <6>3. Will(granted, (requests \o e) \o f, x) <=> f[i].ask = "subscribe"
            BY <3>4, <4>1, <6>1, WillConcat
          <6>4. QED
            BY <4>1, <6>2, <6>3
        <5>2. QED
          BY <5>1
      <4>6. Will(granted, requests, x) <=> x \in subs
        BY <2>1, <3>5 DEF TopicInv
      <4>7. QED
        BY <2>1, <3>1, <4>2, <4>3, <4>4, <4>5, <4>6
    <3>6. QED
      BY <2>1, <3>2, <3>5 DEF TopicInv, Will
  <2>4. QED
    BY <2>2, <2>3
<1>6. CASE TakesMessage
  <2>1. /\ client = "Work" /\ UNCHANGED <<link, granted, subs>>
        /\ Queues(<<Publish>>, "Work") /\ requests \in Seq(Requests)
        /\ client' \in {"Work", "Stuck"}
    BY <1>6 DEF TakesMessage, TypeOK, Queues
  <2>2. ASSUME client' # "Stuck", NEW x
        PROVE  Will(granted, requests', x) <=> Will(granted, requests, x)
    <3>1. requests' = requests \o <<Publish>>
      BY <2>1, <2>2 DEF Queues
    <3>2. /\ <<Publish>> \in Seq(Requests)
          /\ \A j \in DOMAIN <<Publish>> : ~About(<<Publish>>[j], x)
      BY DEF Requests, About
    <3>3. QED
      BY <2>1, <3>1, <3>2, WillConcat
  <2>3. QED
    BY <2>1, <2>2 DEF TopicInv, Will
<1>7. CASE PollsRequest
  <2>1. /\ client = "Work" /\ client' = "Work" /\ link = "up" /\ link' = "up"
        /\ subs' = subs /\ requests # <<>> /\ requests' = Tail(requests)
        /\ requests \in Seq(Requests) /\ Head(requests) \in Requests
    BY <1>7 DEF PollsRequest, Polls, TypeOK
  <2>2. ASSUME NEW x \in Topics
        PROVE  Will(granted, requests, x) <=> Will(granted', requests', x)
    <3>1. x \in granted' <=> IF About(Head(requests), x)
                             THEN Head(requests).ask = "subscribe" ELSE x \in granted
      <4>1. CASE Head(requests) = Publish
        BY <1>7, <4>1 DEF PollsRequest, About, Publish
      <4>2. CASE Head(requests) # Publish
        <5>1. Head(requests).ask \in {"subscribe", "unsubscribe"}
          BY <2>1, <4>2 DEF Requests
        <5>2. QED
          BY <1>7, <4>2, <5>1 DEF PollsRequest, About
      <4>3. QED
        BY <4>1, <4>2
    <3>2. QED
      BY <2>1, <3>1, WillTail
  <2>3. QED
    BY <2>1, <2>2 DEF TopicInv, Will
<1>8. CASE PollsConnAck
  BY <1>8 DEF PollsConnAck, Polls, TopicInv, Will
<1>9. CASE PollsPublish
  BY <1>9 DEF PollsPublish, Polls, TopicInv, Will
<1>10. CASE PollsDisconnect
  BY <1>10 DEF PollsDisconnect, Polls, TopicInv, Will
<1>11. CASE Waits \/ PauseEnds
  BY <1>11 DEF Waits, PauseEnds, TopicInv, Will
<1>12. CASE TellsConnected \/ TellsIncoming \/ TellsLeaving
  BY <1>12 DEF TellsConnected, TellsIncoming, TellsLeaving, Tells, TopicInv, Will
<1>13. CASE TellsFailed
  BY <1>13 DEF TellsFailed, Tells, TopicInv, Will
<1>14. CASE UNCHANGED vars \/ BatchArrives \/ NetworkChanges \/ ServiceTakesMessage
            \/ (\E n \in News : ServiceTakesNews(n)) \/ ServiceSendsMessage
            \/ ServiceSendsNews \/ ServiceTakesNotice
  BY <1>1, <1>14 DEF vars, BatchArrives, NetworkChanges, ServiceTakesMessage,
       ServiceTakesNews, ServiceSendsMessage, ServiceSendsNews, ServiceTakesNotice
<1>15. QED
  BY <1>2, <1>3, <1>4, <1>5, <1>6, <1>7, <1>8, <1>9, <1>10, <1>11, <1>12, <1>13, <1>14
     DEF Next


LEMMA NewsStep ==
  ASSUME TypeOK, NewsInv, [Next]_vars
  PROVE  NewsInv'
<1> USE DEF cacheVars, serviceVars, brokerVars, clientVars, ClientKeeps
<1>1. ASSUME UNCHANGED <<cacheVars, service, rx_net, client, subs>> PROVE NewsInv'
  BY <1>1 DEF NewsInv, Outdated
<1>2. CASE BatchArrives
  BY <1>2 DEF BatchArrives, NewsInv
<1>3. CASE NetworkChanges
  <2>1. /\ UNCHANGED <<stored, service, rx_net, client, subs>>
        /\ news'["NetworksReady"] = news["NetworksReady"]
        /\ news'["NetworksUpdated"] = news["NetworksUpdated"] + 1
        /\ news["NetworksUpdated"] \in Nat
    BY <1>3 DEF NetworkChanges, TypeOK, News
  <2>2. Outdated'
    BY <2>1 DEF Outdated
  <2>3. QED
    BY <2>1, <2>2 DEF NewsInv
<1>4. ASSUME NEW n \in News, ServiceTakesNews(n) PROVE NewsInv'
  <2>1. /\ UNCHANGED <<networks, stored, rx_net, client, subs>> /\ service' = n
        /\ service = "select" /\ news[n] > 0
        /\ news'[n] = news[n] - 1 /\ \A m \in News \ {n} : news'[m] = news[m]
    BY <1>4 DEF ServiceTakesNews, TypeOK
  <2>2. CASE n = "NetworksReady"
    <3>1. Outdated' <=> Outdated
      BY <2>1, <2>2 DEF Outdated, News
    <3>2. stored = {}
      BY <2>1, <2>2 DEF NewsInv
    <3>3. QED
      BY <2>1, <3>1, <3>2 DEF NewsInv
  <2>3. CASE n = "NetworksUpdated"
    <3>1. Outdated'
      BY <2>1, <2>3 DEF Outdated
    <3>2. news'["NetworksReady"] = news["NetworksReady"] /\ service' # "NetworksReady"
      BY <2>1, <2>3 DEF News
    <3>3. QED
      BY <2>1, <3>1, <3>2 DEF NewsInv
  <2>4. QED
    BY <2>2, <2>3 DEF News
<1>5. CASE ServiceTakesMessage \/ ServiceSendsMessage
  BY <1>5 DEF ServiceTakesMessage, ServiceSendsMessage, NewsInv, Outdated
<1>6. CASE ServiceSendsNews
  <2>1. /\ UNCHANGED <<networks, stored, news, client, subs>> /\ service' = "select"
        /\ service \in News /\ rx_net \in Seq(News) /\ rx_net' = Append(rx_net, service)
    BY <1>6 DEF ServiceSendsNews, TypeOK
  <2>2. /\ \A i \in DOMAIN rx_net : i \in DOMAIN rx_net' /\ rx_net'[i] = rx_net[i]
        /\ \E i \in DOMAIN rx_net' : rx_net'[i] = service
        /\ \A i \in DOMAIN rx_net' : rx_net'[i] = service
                                     \/ (i \in DOMAIN rx_net /\ rx_net'[i] = rx_net[i])
    <3> DEFINE k == Len(rx_net) + 1
    <3>1. /\ Len(rx_net) \in Nat /\ DOMAIN rx_net = 1..Len(rx_net)
          /\ DOMAIN rx_net' = 1..k /\ rx_net'[k] = service
          /\ \A i \in 1..Len(rx_net) : rx_net'[i] = rx_net[i]
      BY <2>1
    <3>2. QED
      BY <3>1
  <2>3. Outdated => Outdated'
    BY <2>1, <2>2 DEF Outdated
  <2>4. stored # {} => \A i \in DOMAIN rx_net' : rx_net'[i] # "NetworksReady"
    BY <2>1, <2>2 DEF NewsInv
  <2>5. QED
    BY <2>1, <2>3, <2>4 DEF NewsInv
<1>7. CASE Waits
  <2>1. /\ client = "Waiting" /\ rx_net # <<>> /\ rx_net' = Tail(rx_net)
        /\ UNCHANGED <<cacheVars, service, subs>>
        /\ client' = IF Head(rx_net) = "NetworksReady" THEN "Init" ELSE "Waiting"
        /\ rx_net \in Seq(News)
    BY <1>7 DEF Waits, TypeOK
  <2>2. /\ 1 \in DOMAIN rx_net /\ Head(rx_net) = rx_net[1]
        /\ \A i \in DOMAIN rx_net' : \E j \in DOMAIN rx_net : rx_net'[i] = rx_net[j]
    <3>1. /\ 1 \in DOMAIN rx_net /\ Head(rx_net) = rx_net[1]
          /\ \A i \in DOMAIN rx_net' : i + 1 \in DOMAIN rx_net /\ rx_net'[i] = rx_net[i + 1]
      BY <2>1
    <3>2. QED
      BY <3>1
  <2>3. stored # {} => Head(rx_net) # "NetworksReady"
    BY <2>2 DEF NewsInv
  <2>4. QED
    BY <2>1, <2>2, <2>3 DEF NewsInv
<1>8. CASE TakesNews
  <2>1. /\ client = "Work" /\ rx_net # <<>> /\ rx_net' = Tail(rx_net)
        /\ UNCHANGED <<cacheVars, service>> /\ rx_net \in Seq(News)
        /\ stored = {}
    BY <1>8 DEF TakesNews, TypeOK, NewsInv
  <2>2. CASE Head(rx_net) = "NetworksUpdated"
    <3>1. subs' = networks
      BY <1>8, <2>2 DEF TakesNews
    <3>2. subs' \ {Linkage} = networks'
      BY <2>1, <3>1, LinkageAssumption DEF TypeOK
    <3>3. QED
      BY <2>1, <3>2 DEF NewsInv
  <2>3. CASE Head(rx_net) # "NetworksUpdated"
    <3>1. subs' = subs /\ client' = client
      BY <1>8, <2>3 DEF TakesNews
    <3>2. Outdated => Outdated'
      <4>1. \A i \in DOMAIN rx_net :
                 \/ i = 1 /\ rx_net[i] = Head(rx_net)
                 \/ i - 1 \in DOMAIN rx_net' /\ rx_net'[i - 1] = rx_net[i]
        BY <2>1
      <4>2. QED
        BY <2>1, <2>3, <4>1 DEF Outdated
    <3>3. QED
      BY <2>1, <3>1, <3>2 DEF NewsInv
  <2>4. QED
    BY <2>2, <2>3
<1>9. CASE CreatesClient
  <2>1. /\ UNCHANGED <<cacheVars, service, rx_net>> /\ subs' = networks \cup {Linkage}
        /\ client = "Init"
    BY <1>9 DEF CreatesClient
  <2>2. subs' \ {Linkage} = networks'
    BY <2>1, LinkageAssumption DEF TypeOK
  <2>3. stored = {}
    BY <2>1 DEF NewsInv
  <2>4. QED
    BY <2>1, <2>2, <2>3 DEF NewsInv
<1>10. CASE CreationFails \/ PollsError \/ PauseEnds \/ TellsFailed
  BY <1>10 DEF CreationFails, PollsError, Polls, PauseEnds, TellsFailed, Tells, NewsInv
<1>11. CASE TakesMessage
  <2>1. /\ UNCHANGED <<cacheVars, service, rx_net, subs>> /\ client = "Work"
        /\ client' \in {"Work", "Stuck"}
    BY <1>11 DEF TakesMessage, Queues
  <2>2. Outdated' <=> Outdated
    BY <2>1 DEF Outdated
  <2>3. QED
    BY <2>1, <2>2 DEF NewsInv
<1>12. CASE TellsConnected \/ TellsIncoming \/ TellsLeaving \/ PollsConnAck
            \/ PollsRequest \/ PollsPublish \/ PollsDisconnect
  <2>1. /\ UNCHANGED <<cacheVars, service, rx_net, subs>>
        /\ client \in {"Work", "Connected", "Incoming", "Leaving"}
    BY <1>12 DEF TellsConnected, TellsIncoming, TellsLeaving, Tells, PollsConnAck,
                 PollsRequest, PollsPublish, PollsDisconnect, Polls
  <2>2. Outdated' <=> Outdated
    BY <2>1 DEF Outdated
  <2>3. QED
    BY <2>1, <2>2 DEF NewsInv
<1>13. CASE UNCHANGED vars \/ BrokerTurns \/ ServiceTakesNotice
  BY <1>1, <1>13 DEF vars, BrokerTurns, ServiceTakesNotice
<1>14. QED
  BY <1>2, <1>3, <1>4, <1>5, <1>6, <1>7, <1>8, <1>9, <1>10, <1>11, <1>12, <1>13 DEF Next

\* Once the news of every change is worked in and the queue is empty of
\* subscriptions, the gateway hears the networks of the cache and no others
\* (mqtt/logic.rs 297-318), for any finite set of networks, any sizes of
\* channels and queue, and however many changes, messages and failures.
THEOREM SubscriptionsFollowHolds == Spec => []SubscriptionsFollow
<1>1. Init => TopicInv /\ NewsInv
  <2>1. SUFFICES ASSUME Init PROVE TopicInv /\ NewsInv
    OBVIOUS
  <2>2. TopicInv
    BY <2>1, WillOfNone DEF Init, TopicInv
  <2>3. NewsInv
    BY <2>1 DEF Init, NewsInv, News
  <2>4. QED
    BY <2>2, <2>3
<1>2. TypeOK /\ TopicInv /\ NewsInv /\ [Next]_vars => TopicInv' /\ NewsInv'
  BY TopicStep, NewsStep
<1>3. TypeOK /\ TopicInv /\ NewsInv => SubscriptionsFollow
  <2>1. SUFFICES ASSUME TypeOK, TopicInv, NewsInv, Settled
                 PROVE  granted \ {Linkage} = networks
    BY DEF SubscriptionsFollow
  <2>2. subs \ {Linkage} = networks
    BY <2>1 DEF NewsInv, Settled
  <2>3. \A x \in Topics : Will(granted, requests, x) <=> x \in subs
    BY <2>1 DEF TopicInv, Settled
  <2>4. \A x : Will(granted, requests, x) <=> x \in granted
    BY <2>1 DEF Settled, Will, About
  <2>5. granted = subs
    BY <2>1, <2>3, <2>4 DEF TypeOK
  <2>6. QED
    BY <2>2, <2>5
<1>4. QED
  BY <1>1, <1>2, <1>3, TypeCorrect, PTL DEF Spec

-----------------------------------------------------------------------------
(* Nobody waits for ever.                                                  *)

At(q, S) == {i \in DOMAIN q : q[i] \in S}

LEMMA AtIsFinite ==
  ASSUME NEW T, NEW q \in Seq(T), NEW S
  PROVE  IsFiniteSet(At(q, S)) /\ Cardinality(At(q, S)) \in Nat
<1>1. At(q, S) \in SUBSET (1..Len(q)) /\ Len(q) \in Nat
  BY DEF At
<1>2. IsFiniteSet(1..Len(q))
  BY <1>1, FS_Interval
<1>3. QED
  BY <1>1, <1>2, FS_Subset, FS_CardinalityType

LEMMA AtConcat ==
  ASSUME NEW T, NEW q \in Seq(T), NEW r \in Seq(T), NEW S
  PROVE  Cardinality(At(q \o r, S)) = Cardinality(At(q, S)) + Cardinality(At(r, S))
<1> DEFINE n == Len(q)
           A == At(q, S)
           B == At(r, S)
           C == {i \in (n + 1)..(n + Len(r)) : r[i - n] \in S}
           f == [i \in B |-> n + i]
<1>1. /\ n \in Nat /\ Len(r) \in Nat /\ DOMAIN q = 1..n /\ DOMAIN r = 1..Len(r)
      /\ DOMAIN (q \o r) = 1..(n + Len(r))
      /\ \A i \in 1..(n + Len(r)) : (q \o r)[i] = IF i <= n THEN q[i] ELSE r[i - n]
  BY ConcatProperties, LenProperties
<1>2. At(q \o r, S) = A \cup C
  <2>1. \A i : i \in 1..(n + Len(r)) <=> i \in 1..n \/ i \in (n + 1)..(n + Len(r))
    BY <1>1
  <2>2. \A i \in 1..n : (q \o r)[i] = q[i]
    BY <1>1
  <2>3. \A i \in (n + 1)..(n + Len(r)) : (q \o r)[i] = r[i - n]
    BY <1>1
  <2>4. QED
    BY <1>1, <2>1, <2>2, <2>3 DEF At
<1>3. A \cap C = {}
  BY <1>1 DEF At
<1>4. IsFiniteSet(A) /\ IsFiniteSet(B) /\ Cardinality(A) \in Nat /\ Cardinality(B) \in Nat
  BY AtIsFinite
<1>5. f \in Bijection(B, C)
  <2>1. \A i \in B : i \in 1..Len(r) /\ n + i \in C
    BY <1>1 DEF At
  <2>2. f \in [B -> C]
    BY <2>1
  <2>3. \A i, j \in B : f[i] = f[j] => i = j
    BY <1>1, <2>1
  <2>4. \A k \in C : k - n \in B /\ n + (k - n) = k
    BY <1>1 DEF At
  <2>5. \A k \in C : \E i \in B : f[i] = k
    BY <2>4
  <2>6. QED
    BY <2>2, <2>3, <2>5 DEF Bijection, Injection, Surjection, IsInjective
<1>6. IsFiniteSet(C) /\ Cardinality(C) = Cardinality(B)
  BY <1>4, <1>5, FS_Bijection DEF ExistsBijection
<1>7. Cardinality(A \cup C) = Cardinality(A) + Cardinality(C) - Cardinality(A \cap C)
  BY <1>4, <1>6, FS_Union
<1>8. Cardinality(A \cap C) = 0
  BY <1>3, FS_EmptySet
<1>9. QED
  BY <1>2, <1>4, <1>6, <1>7, <1>8

LEMMA AtOne ==
  ASSUME NEW x, NEW S
  PROVE  Cardinality(At(<<x>>, S)) = IF x \in S THEN 1 ELSE 0
<1>1. At(<<x>>, S) = IF x \in S THEN {1} ELSE {}
  BY DEF At
<1>2. QED
  BY <1>1, FS_Singleton, FS_EmptySet

LEMMA AtTail ==
  ASSUME NEW T, NEW q \in Seq(T), q # <<>>, NEW S
  PROVE  /\ Cardinality(At(Tail(q), S)) \in Nat
         /\ Cardinality(At(q, S))
              = (IF Head(q) \in S THEN 1 ELSE 0) + Cardinality(At(Tail(q), S))
<1>1. Tail(q) \in Seq(T) /\ Head(q) \in T /\ <<Head(q)>> \in Seq(T)
  BY HeadTailProperties
<1>2. q = <<Head(q)>> \o Tail(q)
  BY HeadTailProperties
<1>3. Cardinality(At(<<Head(q)>> \o Tail(q), S))
        = Cardinality(At(<<Head(q)>>, S)) + Cardinality(At(Tail(q), S))
  BY <1>1, AtConcat
<1>4. QED
  BY <1>1, <1>2, <1>3, AtOne, AtIsFinite

LEMMA AtSplit ==
  ASSUME NEW T, NEW q \in Seq(T), NEW S
  PROVE  Len(q) = Cardinality(At(q, S)) + Cardinality(At(q, T \ S))
<1> DEFINE A == At(q, S)
           B == At(q, T \ S)
<1>1. Len(q) \in Nat /\ DOMAIN q = 1..Len(q) /\ \A i \in 1..Len(q) : q[i] \in T
  OBVIOUS
<1>2. /\ A \cup B = 1..Len(q)
      /\ A \cap B = {}
  <2>1. \A i \in 1..Len(q) : q[i] \in S \/ q[i] \in T \ S
    BY <1>1
  <2>2. A = {i \in 1..Len(q) : q[i] \in S} /\ B = {i \in 1..Len(q) : q[i] \in T \ S}
    BY <1>1 DEF At
  <2>3. QED
    BY <2>1, <2>2
<1>3. /\ IsFiniteSet(A) /\ IsFiniteSet(B)
      /\ Cardinality(A) \in Nat /\ Cardinality(B) \in Nat
  <2>1. IsFiniteSet(A) /\ Cardinality(A) \in Nat
    BY AtIsFinite
  <2>2. IsFiniteSet(B) /\ Cardinality(B) \in Nat
    BY AtIsFinite
  <2>3. QED
    BY <2>1, <2>2
<1>4. Cardinality(1..Len(q)) = Len(q)
  <2>1. Cardinality(1..Len(q)) = IF 1 > Len(q) THEN 0 ELSE Len(q) - 1 + 1
    BY <1>1, FS_Interval
  <2>2. QED
    BY <1>1, <2>1
<1> HIDE DEF A, B
<1>5. Cardinality(A \cup B) = Cardinality(A) + Cardinality(B) - Cardinality(A \cap B)
  BY <1>3, FS_Union
<1>6. Cardinality(A \cap B) = 0
  BY <1>2, FS_EmptySet
<1>7. Len(q) = Cardinality(A) + Cardinality(B)
  <2>1. Cardinality(A \cup B) = Len(q)
    BY <1>2, <1>4
  <2>2. QED
    BY <1>3, <1>5, <1>6, <2>1
<1>8. QED
  BY <1>7 DEF A, B

\* Messages and changes stop at the bound; only the batch of the start adds
\* one to it, and the client uses that one up when it begins.
LoadInv ==
    /\ Load <= Burst + 1
    /\ stored # {} \/ client # "Waiting" => Load <= Burst

LEMMA LoadStep ==
  ASSUME TypeOK, TypeOK', TopicInv, NewsInv, LoadInv, [Next]_vars
  PROVE  LoadInv'
<1> USE DEF cacheVars, serviceVars, brokerVars, clientVars, ClientKeeps
<1> DEFINE R == news["NetworksReady"]
           U == news["NetworksUpdated"]
           C == Count(service # "select")
           N == Len(rx_net)
           P == Cardinality(At(requests, {Publish}))
<1>1. /\ Load  = R + U + C + rx_msg + N + P
      /\ Load' = R' + U' + C' + rx_msg' + N' + P'
  <2>1. \A q : {i \in DOMAIN q : q[i] = Publish} = At(q, {Publish})
    BY DEF At
  <2>2. QED
    BY <2>1 DEF Load
<1>2. /\ R \in Nat /\ U \in Nat /\ C \in Nat /\ rx_msg \in Nat /\ N \in Nat /\ P \in Nat
      /\ R' \in Nat /\ U' \in Nat /\ C' \in Nat /\ rx_msg' \in Nat /\ N' \in Nat
      /\ P' \in Nat
  <2>1. P \in Nat /\ P' \in Nat
    <3>1. \A q \in Seq(Requests) : Cardinality(At(q, {Publish})) \in Nat
      BY AtIsFinite
    <3>2. QED
      BY <3>1 DEF TypeOK
  <2>2. C \in Nat /\ C' \in Nat
    BY DEF Count
  <2>3. R \in Nat /\ U \in Nat /\ R' \in Nat /\ U' \in Nat
    BY DEF TypeOK, News
  <2>4. rx_msg \in Nat /\ rx_msg' \in Nat /\ N \in Nat /\ N' \in Nat
    BY BoundsAssumption DEF TypeOK
  <2>5. QED
    BY <2>1, <2>2, <2>3, <2>4
<1> HIDE DEF R, U, C, N, P
<1>3. Burst \in Nat /\ Load \in Nat /\ Load' \in Nat
  <2>1. Burst \in Nat
    BY BoundsAssumption
  <2>2. Load \in Nat
    BY <1>1, <1>2
  <2>3. Load' \in Nat
    <3>1. \A a, b, c, d, e, f \in Nat : a + b + c + d + e + f \in Nat
      OBVIOUS
    <3>2. R' + U' + C' + rx_msg' + N' + P' \in Nat
      BY <1>2, <3>1
    <3>3. QED
      BY <1>1, <3>2
  <2>4. QED
    BY <2>1, <2>2, <2>3
<1>4. ASSUME Load' <= Load, client' = "Waiting" => client = "Waiting",
             stored' # {} => stored # {}, client' # "Waiting" => client # "Waiting"
      PROVE  LoadInv'
  BY <1>3, <1>4 DEF LoadInv
<1>5. ASSUME R' = R, U' = U, C' = C,
              \/ rx_msg' <= rx_msg /\ N' <= N /\ P' <= P
              \/ rx_msg' = rx_msg - 1 /\ N' = N /\ P' <= P + 1
       PROVE  Load' <= Load
  <2>1. \A a, b, c, d, e, f, x, y, z \in Nat :
          x <= d /\ y <= e /\ z <= f
          => a + b + c + x + y + z <= a + b + c + d + e + f
    OBVIOUS
  <2>2. \A a, b, c, d, e, f, z \in Nat :
          z <= f + 1 => a + b + c + (d - 1) + e + z <= a + b + c + d + e + f
    OBVIOUS
  <2>3. R + U + C + rx_msg' + N' + P' <= R + U + C + rx_msg + N + P
    <3>1. CASE rx_msg' <= rx_msg /\ N' <= N /\ P' <= P
      BY <1>2, <2>1, <3>1
    <3>2. CASE rx_msg' = rx_msg - 1 /\ N' = N /\ P' <= P + 1
      <4>1. R + U + C + (rx_msg - 1) + N + P' <= R + U + C + rx_msg + N + P
        BY <1>2, <2>2, <3>2
      <4>2. QED
        BY <3>2, <4>1
    <3>3. QED
      BY <1>5, <3>1, <3>2
  <2>4. QED
    BY <1>1, <1>5, <2>3
<1>6. CASE BatchArrives
  <2>1. R' = R + 1 /\ U' = U
    BY <1>6 DEF BatchArrives, TypeOK, News, R, U
  <2>2. C' = C /\ rx_msg' = rx_msg /\ N' = N /\ P' = P /\ stored' = {} /\ stored # {}
        /\ client' = client
    BY <1>6 DEF BatchArrives, C, N, P
  <2>3. client = "Waiting"
    BY <2>2 DEF NewsInv
  <2>4. QED
    BY <1>1, <1>2, <1>3, <2>1, <2>2, <2>3 DEF LoadInv
<1>7. CASE NetworkChanges
  <2>1. R' = R /\ U' = U + 1
    BY <1>7 DEF NetworkChanges, TypeOK, News, R, U
  <2>2. C' = C /\ rx_msg' = rx_msg /\ N' = N /\ P' = P /\ Load < Burst
    BY <1>7 DEF NetworkChanges, C, N, P
  <2>3. QED
    BY <1>1, <1>2, <1>3, <2>1, <2>2 DEF LoadInv
<1>8. CASE ServiceTakesMessage
  <2>1. C = 0 /\ C' = 1 /\ Load < Burst
    BY <1>8 DEF ServiceTakesMessage, Count, C
  <2>2. R' = R /\ U' = U /\ rx_msg' = rx_msg /\ N' = N /\ P' = P
    BY <1>8 DEF ServiceTakesMessage, R, U, N, P
  <2>3. QED
    BY <1>1, <1>2, <1>3, <2>1, <2>2 DEF LoadInv
<1>9. ASSUME NEW n \in News, ServiceTakesNews(n) PROVE LoadInv'
  <2>1. (R' = R - 1 /\ U' = U) \/ (R' = R /\ U' = U - 1)
    <3>1. R' = (IF n = "NetworksReady" THEN R - 1 ELSE R)
          /\ U' = (IF n = "NetworksUpdated" THEN U - 1 ELSE U)
      BY <1>9 DEF ServiceTakesNews, TypeOK, News, R, U
    <3>2. n = "NetworksReady" \/ n = "NetworksUpdated"
      BY DEF News
    <3>3. QED
      BY <3>1, <3>2
  <2>2. C = 0 /\ C' = 1
    BY <1>9 DEF ServiceTakesNews, Count, News, C
  <2>3. rx_msg' = rx_msg /\ N' = N /\ P' = P /\ stored' = stored /\ client' = client
    BY <1>9 DEF ServiceTakesNews, N, P
  <2>4. CASE R' = R - 1 /\ U' = U
    BY <1>1, <1>2, <1>4, <2>2, <2>3, <2>4
  <2>5. CASE R' = R /\ U' = U - 1
    BY <1>1, <1>2, <1>4, <2>2, <2>3, <2>5
  <2>6. QED
    BY <2>1, <2>4, <2>5
<1>10. CASE ServiceSendsMessage
  <2>1. C = 1 /\ C' = 0 /\ rx_msg' = rx_msg + 1
    BY <1>10 DEF ServiceSendsMessage, Count, C
  <2>2. R' = R /\ U' = U /\ N' = N /\ P' = P /\ stored' = stored /\ client' = client
    BY <1>10 DEF ServiceSendsMessage, R, U, N, P
  <2>3. QED
    BY <1>1, <1>2, <1>4, <2>1, <2>2
<1>11. CASE ServiceSendsNews
  <2>1. C = 1 /\ C' = 0
    BY <1>11 DEF ServiceSendsNews, Count, News, C
  <2>2. N' = N + 1
    BY <1>11 DEF ServiceSendsNews, TypeOK, N
  <2>3. R' = R /\ U' = U /\ rx_msg' = rx_msg /\ P' = P /\ stored' = stored
        /\ client' = client
    BY <1>11 DEF ServiceSendsNews, R, U, P
  <2>4. \A a, b, d, e, f \in Nat :
          a + b + 0 + d + (e + 1) + f = a + b + 1 + d + e + f
    OBVIOUS
  <2>5. R' + U' + C' + rx_msg' + N' + P' = R + U + C + rx_msg + N + P
    BY <1>2, <2>1, <2>2, <2>3, <2>4
  <2>6. QED
    BY <1>1, <1>3, <1>4, <2>3, <2>5
<1>12. CASE Waits
  <2>1. N' = N - 1
    BY <1>12 DEF Waits, TypeOK, N
  <2>2. R' = R /\ U' = U /\ C' = C /\ rx_msg' = rx_msg /\ P' = P
    BY <1>12 DEF Waits, R, U, C, P
  <2>3. QED
    BY <1>1, <1>2, <1>3, <2>1, <2>2 DEF LoadInv
<1>13. ASSUME NEW new \in Seq(Requests), Queues(new, "Work"), client # "Waiting"
       PROVE  /\ client' # "Waiting"
              /\ P' <= P + Cardinality(At(new, {Publish}))
  <2>1. requests \in Seq(Requests) /\ Cardinality(At(new, {Publish})) \in Nat
    BY AtIsFinite DEF TypeOK
  <2>2. client' # "Waiting" /\ requests' \in {requests, requests \o new}
    BY <1>13 DEF Queues
  <2>3. CASE requests' = requests
    <3>1. P' = P
      BY <2>3 DEF P
    <3>2. QED
      BY <1>2, <2>1, <2>2, <3>1
  <2>4. CASE requests' = requests \o new
    <3>1. Cardinality(At(requests \o new, {Publish}))
            = Cardinality(At(requests, {Publish})) + Cardinality(At(new, {Publish}))
      BY <2>1, AtConcat
    <3>2. P' = P + Cardinality(At(new, {Publish}))
      BY <2>4, <3>1 DEF P
    <3>3. QED
      BY <1>2, <2>1, <2>2, <3>2
  <2>5. QED
    BY <2>2, <2>3, <2>4
<1>14. ASSUME NEW A \in SUBSET Topics, NEW ask \in {"subscribe", "unsubscribe"}
       PROVE  At(Each(ask, A), {Publish}) = {}
  BY <1>14, EachIs DEF At
<1>15. CASE CreatesClient
  <2>1. /\ R' = R /\ U' = U /\ C' = C /\ rx_msg' = rx_msg /\ N' = N /\ stored' = stored
        /\ client = "Init" /\ Queues(Each("subscribe", subs'), "Work")
    BY <1>15 DEF CreatesClient, R, U, C, N
  <2>2. subs' \in SUBSET Topics
    BY DEF TypeOK
  <2>3. P' <= P /\ client' # "Waiting"
    <3>1. Cardinality(At(Each("subscribe", subs'), {Publish})) = 0
      BY <1>14, <2>2, FS_EmptySet
    <3>2. Each("subscribe", subs') \in Seq(Requests)
      BY <2>2, EachIs
    <3>3. client' # "Waiting" /\ P' <= P + Cardinality(At(Each("subscribe", subs'), {Publish}))
      BY <1>13, <2>1, <3>2
    <3>4. QED
      BY <1>2, <3>1, <3>3
  <2>4. \/ rx_msg' <= rx_msg /\ N' <= N /\ P' <= P
        \/ rx_msg' = rx_msg - 1 /\ N' = N /\ P' <= P + 1
    BY <1>2, <2>1, <2>3
  <2>5. QED
    BY <1>4, <1>5, <2>1, <2>3, <2>4
<1>16. CASE TakesNews
  <2>1. /\ R' = R /\ U' = U /\ C' = C /\ rx_msg' = rx_msg /\ stored' = stored
        /\ client = "Work"
    BY <1>16 DEF TakesNews, R, U, C
  <2>2. N' = N - 1
    BY <1>16 DEF TakesNews, TypeOK, N
  <2>3. P' <= P /\ client' # "Waiting"
    <3>1. CASE Head(rx_net) # "NetworksUpdated"
      <4>1. P' = P /\ client' = client
        BY <1>16, <3>1 DEF TakesNews, P
      <4>2. QED
        BY <1>2, <2>1, <4>1
    <3>2. CASE Head(rx_net) = "NetworksUpdated"
      <4> DEFINE e == Each("subscribe", networks \ subs)
                 f == Each("unsubscribe", subs \ networks)
      <4>1. networks \ subs \in SUBSET Topics /\ subs \ networks \in SUBSET Topics
        BY DEF TypeOK, Topics
      <4>2. /\ e \in Seq(Requests) /\ f \in Seq(Requests) /\ e \o f \in Seq(Requests)
            /\ At(e, {Publish}) = {} /\ At(f, {Publish}) = {}
        BY <1>14, <4>1, EachIs, ConcatProperties
      <4>3. Queues(e \o f, "Work")
        BY <1>16, <3>2 DEF TakesNews
      <4> HIDE DEF e, f
      <4>4. Cardinality(At(e \o f, {Publish})) = 0
        <5>1. Cardinality(At(e \o f, {Publish}))
                = Cardinality(At(e, {Publish})) + Cardinality(At(f, {Publish}))
          BY <4>2, AtConcat
        <5>2. Cardinality(At(e, {Publish})) = 0 /\ Cardinality(At(f, {Publish})) = 0
          BY <4>2, FS_EmptySet
        <5>3. QED
          BY <5>1, <5>2
      <4>5. client' # "Waiting" /\ P' <= P + Cardinality(At(e \o f, {Publish}))
        BY <1>13, <2>1, <4>2, <4>3
      <4>6. QED
        BY <1>2, <4>4, <4>5
    <3>3. QED
      BY <3>1, <3>2
  <2>4. rx_msg' <= rx_msg /\ N' <= N /\ P' <= P
    <3>1. N' <= N
      BY <1>2, <2>2
    <3>2. rx_msg' <= rx_msg
      BY <1>2, <2>1
    <3>3. QED
      BY <2>3, <3>1, <3>2
  <2>5. QED
    BY <1>4, <1>5, <2>1, <2>2, <2>3, <2>4
<1>17. CASE TakesMessage
  <2>1. /\ R' = R /\ U' = U /\ C' = C /\ rx_msg' = rx_msg - 1 /\ N' = N
        /\ stored' = stored /\ client = "Work" /\ Queues(<<Publish>>, "Work")
    BY <1>17 DEF TakesMessage, R, U, C, N
  <2>2. <<Publish>> \in Seq(Requests) /\ Cardinality(At(<<Publish>>, {Publish})) = 1
    BY AtOne DEF Requests
  <2>3. P' <= P + 1 /\ client' # "Waiting"
    BY <1>13, <2>1, <2>2
  <2>4. \/ rx_msg' <= rx_msg /\ N' <= N /\ P' <= P
        \/ rx_msg' = rx_msg - 1 /\ N' = N /\ P' <= P + 1
    BY <1>2, <2>1, <2>3
  <2>5. QED
    BY <1>4, <1>5, <2>1, <2>3, <2>4
<1>18. CASE PollsRequest
  <2>1. /\ R' = R /\ U' = U /\ C' = C /\ rx_msg' = rx_msg /\ N' = N
        /\ stored' = stored /\ client = "Work" /\ client' = "Work"
        /\ requests' = Tail(requests) /\ requests # <<>> /\ requests \in Seq(Requests)
    BY <1>18 DEF PollsRequest, Polls, TypeOK, R, U, C, N
  <2>2. P' <= P
    <3>1. P = (IF Head(requests) \in {Publish} THEN 1 ELSE 0)
                + Cardinality(At(Tail(requests), {Publish}))
      BY <2>1, AtTail DEF P
    <3>2. P' = Cardinality(At(Tail(requests), {Publish}))
      BY <2>1 DEF P
    <3>3. QED
      BY <1>2, <3>1, <3>2
  <2>3. \/ rx_msg' <= rx_msg /\ N' <= N /\ P' <= P
        \/ rx_msg' = rx_msg - 1 /\ N' = N /\ P' <= P + 1
    BY <1>2, <2>1, <2>2
  <2>4. QED
    BY <1>4, <1>5, <2>1, <2>2, <2>3
<1>19. CASE CreationFails \/ PollsError
  <2>1. /\ R' = R /\ U' = U /\ C' = C /\ rx_msg' = rx_msg /\ N' = N
        /\ stored' = stored /\ client # "Waiting" /\ client' # "Waiting"
        /\ requests' = <<>>
    BY <1>19 DEF CreationFails, PollsError, Polls, Dropped, R, U, C, N
  <2>2. P' = 0
    <3>1. At(<<>>, {Publish}) = {}
      BY DEF At
    <3>2. QED
      BY <2>1, <3>1, FS_EmptySet DEF P
  <2>3. \/ rx_msg' <= rx_msg /\ N' <= N /\ P' <= P
        \/ rx_msg' = rx_msg - 1 /\ N' = N /\ P' <= P + 1
    BY <1>2, <2>1, <2>2
  <2>4. QED
    BY <1>4, <1>5, <2>1, <2>2, <2>3
<1>20. ASSUME UNCHANGED <<news, stored, service, rx_msg, rx_net, requests>>,
              client' = "Waiting" <=> client = "Waiting"
       PROVE  LoadInv'
  <2>1. R' = R /\ U' = U /\ C' = C /\ rx_msg' = rx_msg /\ N' = N /\ P' = P
    BY <1>20 DEF R, U, C, N, P
  <2>2. QED
    BY <1>1, <1>2, <1>4, <1>20, <2>1
<1>21. CASE UNCHANGED vars \/ BrokerTurns \/ ServiceTakesNotice
  BY <1>20, <1>21 DEF vars, BrokerTurns, ServiceTakesNotice
<1>22. CASE TellsConnected \/ TellsIncoming \/ TellsLeaving \/ TellsFailed \/ PauseEnds
  BY <1>20, <1>22 DEF TellsConnected, TellsIncoming, TellsLeaving, TellsFailed, Tells,
       PauseEnds
<1>23. CASE PollsConnAck \/ PollsPublish \/ PollsDisconnect
  BY <1>20, <1>23 DEF PollsConnAck, PollsPublish, PollsDisconnect, Polls
<1>24. QED
  BY <1>6, <1>7, <1>8, <1>9, <1>10, <1>11, <1>12, <1>15, <1>16, <1>17, <1>18, <1>19,
     <1>21, <1>22, <1>23 DEF Next

\* What is queued about topics and what would be asked if news came now: the
\* topics of a new client, one more for each change since.
Asks(q) == Cardinality(At(q, Requests \ {Publish}))
Apart   == (subs \ networks) \cup (networks \ subs)

RoomInv ==
    /\ client # "Stuck"
    /\ Asks(requests) + Cardinality(Apart) <= Cardinality(Networks) + 2 + changes

Fits == Cardinality(Networks) + 2 + MaxChanges + Burst <= QueueSize

LEMMA AsksIs ==
  ASSUME NEW q \in Seq(Requests)
  PROVE  /\ Asks(q) \in Nat /\ Cardinality(At(q, {Publish})) \in Nat
         /\ Len(q) = Cardinality(At(q, {Publish})) + Asks(q)
         /\ \A r \in Seq(Requests) : Asks(q \o r) = Asks(q) + Asks(r)
         /\ q # <<>> => Asks(Tail(q)) <= Asks(q)
<1> DEFINE S == Requests \ {Publish}
<1>1. Cardinality(At(q, S)) \in Nat /\ Cardinality(At(q, {Publish})) \in Nat
  <2>1. \A V : Cardinality(At(q, V)) \in Nat
    BY AtIsFinite
  <2>2. QED
    BY <2>1
<1>2. Len(q) = Cardinality(At(q, {Publish})) + Cardinality(At(q, S))
  BY AtSplit
<1> HIDE DEF S
<1>3. \A r \in Seq(Requests) :
        Cardinality(At(q \o r, S)) = Cardinality(At(q, S)) + Cardinality(At(r, S))
  BY AtConcat
<1>4. ASSUME q # <<>> PROVE Cardinality(At(Tail(q), S)) <= Cardinality(At(q, S))
  <2>1. /\ Cardinality(At(Tail(q), S)) \in Nat
        /\ Cardinality(At(q, S))
             = (IF Head(q) \in S THEN 1 ELSE 0) + Cardinality(At(Tail(q), S))
    BY <1>4, AtTail
  <2>2. QED
    BY <2>1
<1>5. QED
  BY <1>1, <1>2, <1>3, <1>4 DEF Asks, S

LEMMA ApartIs ==
  ASSUME NEW a \in SUBSET Topics, NEW b \in SUBSET Networks
  PROVE  /\ IsFiniteSet(a) /\ IsFiniteSet(b) /\ IsFiniteSet(a \ b) /\ IsFiniteSet(b \ a)
         /\ Cardinality(b) \in Nat /\ Cardinality(b) <= Cardinality(Networks)
         /\ Cardinality(a \ b) \in Nat /\ Cardinality(b \ a) \in Nat
         /\ Cardinality((a \ b) \cup (b \ a)) = Cardinality(a \ b) + Cardinality(b \ a)
<1>1. IsFiniteSet(Topics) /\ IsFiniteSet(Networks)
  BY NetworksAssumption, FS_AddElement DEF Topics
<1>2. IsFiniteSet(a) /\ IsFiniteSet(b)
  BY <1>1, FS_Subset
<1>3. IsFiniteSet(a \ b) /\ IsFiniteSet(b \ a)
  BY <1>2, FS_Difference
<1>4. Cardinality(b) \in Nat /\ Cardinality(b) <= Cardinality(Networks)
  BY <1>1, <1>2, FS_Subset, FS_CardinalityType
<1>5. Cardinality(a \ b) \in Nat /\ Cardinality(b \ a) \in Nat
  BY <1>3, FS_CardinalityType
<1>6. Cardinality((a \ b) \cup (b \ a))
        = Cardinality(a \ b) + Cardinality(b \ a) - Cardinality((a \ b) \cap (b \ a))
  BY <1>3, FS_Union
<1>7. (a \ b) \cap (b \ a) = {}
  OBVIOUS
<1>8. Cardinality((a \ b) \cap (b \ a)) = 0
  BY <1>7, FS_EmptySet
<1>9. QED
  BY <1>2, <1>3, <1>4, <1>5, <1>6, <1>8

LEMMA RoomStep ==
  ASSUME Fits, TypeOK, TypeOK', TopicInv, NewsInv, LoadInv, RoomInv, [Next]_vars
  PROVE  RoomInv'
<1> USE DEF cacheVars, serviceVars, brokerVars, clientVars, ClientKeeps
<1> DEFINE P == Cardinality(At(requests, {Publish}))
           K == Asks(requests)
           D == Cardinality(Apart)
           M == Cardinality(Networks)
<1>1. /\ P \in Nat /\ K \in Nat /\ Len(requests) = P + K
      /\ requests \in Seq(Requests) /\ requests' \in Seq(Requests)
  <2>1. requests \in Seq(Requests) /\ requests' \in Seq(Requests)
    BY DEF TypeOK
  <2>2. QED
    BY <2>1, AsksIs
<1>2. /\ M \in Nat /\ changes \in Nat /\ changes' \in Nat /\ Burst \in Nat
      /\ MaxChanges \in Nat /\ QueueSize \in Nat
      /\ changes <= MaxChanges /\ changes' <= MaxChanges
  <2>1. M \in Nat
    BY NetworksAssumption, FS_CardinalityType
  <2>2. Burst \in Nat /\ MaxChanges \in Nat /\ QueueSize \in Nat
    BY BoundsAssumption
  <2>3. QED
    BY <2>1, <2>2 DEF TypeOK
<1>3. /\ D \in Nat /\ D' \in Nat
      /\ D = Cardinality(subs \ networks) + Cardinality(networks \ subs)
  <2>1. /\ subs \in SUBSET Topics /\ networks \in SUBSET Networks
        /\ subs' \in SUBSET Topics /\ networks' \in SUBSET Networks
    BY DEF TypeOK
  <2>2. /\ Cardinality(subs \ networks) \in Nat /\ Cardinality(networks \ subs) \in Nat
        /\ D = Cardinality(subs \ networks) + Cardinality(networks \ subs)
    BY <2>1, ApartIs DEF Apart
  <2>3. D' \in Nat
    <3>1. /\ Cardinality(subs' \ networks') \in Nat
          /\ Cardinality(networks' \ subs') \in Nat
          /\ Cardinality((subs' \ networks') \cup (networks' \ subs'))
               = Cardinality(subs' \ networks') + Cardinality(networks' \ subs')
      BY <2>1, ApartIs
    <3>2. QED
      BY <3>1 DEF Apart
  <2>4. QED
    BY <2>2, <2>3
<1>4. client = "Work" => P + rx_msg <= Burst /\ rx_msg \in Nat
  <2>1. /\ Count(service # "select") \in Nat /\ rx_msg \in Nat /\ Len(rx_net) \in Nat
        /\ news["NetworksReady"] \in Nat /\ news["NetworksUpdated"] \in Nat
    BY BoundsAssumption DEF TypeOK, News, Count
  <2>2. \A a, b, c, d, e, f \in Nat : f + d <= a + b + c + d + e + f
    OBVIOUS
  <2>3. Load = news["NetworksReady"] + news["NetworksUpdated"]
               + Count(service # "select") + rx_msg + Len(rx_net) + P
    BY DEF Load, At
  <2> HIDE DEF P
  <2>4. P + rx_msg <= Load
    BY <1>1, <2>1, <2>2, <2>3
  <2>5. Load \in Nat
    <3>1. \A a, b, c, d, e, f \in Nat : a + b + c + d + e + f \in Nat
      OBVIOUS
    <3>2. news["NetworksReady"] + news["NetworksUpdated"] + Count(service # "select")
            + rx_msg + Len(rx_net) + P \in Nat
      BY <1>1, <2>1, <3>1
    <3>3. QED
      BY <2>3, <3>2
  <2>6. client = "Work" => Load <= Burst
    BY DEF LoadInv
  <2>7. QED
    BY <1>1, <1>2, <2>1, <2>4, <2>5, <2>6
<1>5. K + D <= M + 2 + changes /\ client # "Stuck" /\ M + 2 + MaxChanges + Burst <= QueueSize
  BY DEF RoomInv, Fits
<1> HIDE DEF P, K, D, M
<1>6. ASSUME client' # "Stuck", K' + D' <= M + 2 + changes'
      PROVE  RoomInv'
  BY <1>6 DEF RoomInv, K, D, M
<1>7. ASSUME requests' = <<>>, subs' = {}, client' # "Stuck"
      PROVE  RoomInv'
  <2>1. K' = 0
    <3>1. At(<<>>, Requests \ {Publish}) = {}
      BY DEF At
    <3>2. QED
      BY <1>7, <3>1, FS_EmptySet DEF K, Asks
  <2>2. D' <= M
    <3>1. networks' \in SUBSET Networks /\ Apart' = networks'
      BY <1>7 DEF TypeOK, Apart
    <3>2. {} \in SUBSET Topics
      OBVIOUS
    <3>3. Cardinality(networks') <= Cardinality(Networks)
      BY <3>1, <3>2, ApartIs
    <3>4. QED
      BY <3>1, <3>3 DEF D, M
  <2>3. \A m, c, k, d \in Nat : k = 0 /\ d <= m => k + d <= m + 2 + c
    OBVIOUS
  <2>4. K' + D' <= M + 2 + changes'
    BY <1>2, <1>3, <2>1, <2>2, <2>3
  <2>5. QED
    BY <1>6, <1>7, <2>4
<1>8. ASSUME NEW new \in Seq(Requests), Queues(new, "Work"),
             Len(requests) + Len(new) <= QueueSize
      PROVE  client' = "Work" /\ K' = K + Asks(new) /\ Asks(new) \in Nat
             /\ Asks(new) <= Len(new)
  <2>1. client' = "Work" /\ requests' = requests \o new
    BY <1>8 DEF Queues
  <2>2. /\ Asks(new) \in Nat /\ Cardinality(At(new, {Publish})) \in Nat
        /\ Len(new) = Cardinality(At(new, {Publish})) + Asks(new)
    BY AsksIs
  <2>3. Asks(requests \o new) = Asks(requests) + Asks(new)
    BY <1>1, AsksIs
  <2>4. QED
    BY <2>1, <2>2, <2>3 DEF K
<1>9. CASE BatchArrives
  <2>1. client = "Waiting" /\ client' = client /\ requests' = requests /\ subs' = subs
    BY <1>9 DEF BatchArrives, NewsInv
  <2>2. QED
    BY <1>7, <2>1 DEF TopicInv
<1>10. CASE NetworkChanges
  <2>1. /\ requests' = requests /\ subs' = subs /\ client' = client
        /\ changes' = changes + 1
    BY <1>10 DEF NetworkChanges
  <2>2. PICK n \in Networks : networks' \in {networks \cup {n}, networks \ {n}}
    BY <1>10 DEF NetworkChanges
  <2>3. IsFiniteSet(Apart) /\ Apart' \in SUBSET (Apart \cup {n})
    <3>1. subs \in SUBSET Topics /\ networks \in SUBSET Networks
      BY DEF TypeOK
    <3>2. IsFiniteSet(subs \ networks) /\ IsFiniteSet(networks \ subs)
      BY <3>1, ApartIs
    <3>3. IsFiniteSet(Apart)
      BY <3>2, FS_Union DEF Apart
    <3>4. Apart' \in SUBSET (Apart \cup {n})
      BY <2>1, <2>2 DEF Apart
    <3>5. QED
      BY <3>3, <3>4
  <2>4. D' <= D + 1
    <3>1. /\ IsFiniteSet(Apart \cup {n})
          /\ Cardinality(Apart \cup {n}) \in {Cardinality(Apart), Cardinality(Apart) + 1}
      BY <2>3, FS_AddElement
    <3>2. Cardinality(Apart') <= Cardinality(Apart \cup {n})
      BY <2>3, <3>1, FS_Subset
    <3>3. QED
      BY <1>3, <3>1, <3>2 DEF D
  <2>5. K' = K
    BY <2>1 DEF K
  <2>6. \A m, c, k, d, x \in Nat :
          k + d <= m + 2 + c /\ x <= d + 1 => k + x <= m + 2 + (c + 1)
    OBVIOUS
  <2>7. K + D' <= M + 2 + (changes + 1)
    BY <1>1, <1>2, <1>3, <1>5, <2>4, <2>6
  <2>8. QED
    BY <1>5, <1>6, <2>1, <2>5, <2>7
<1>11. CASE CreationFails \/ PollsError
  BY <1>7, <1>11 DEF CreationFails, PollsError, Polls, Dropped
<1>12. CASE CreatesClient
  <2>1. /\ subs' = networks \cup {Linkage} /\ networks' = networks
        /\ changes' = changes /\ requests = <<>>
        /\ Queues(Each("subscribe", subs'), "Work")
    BY <1>12 DEF CreatesClient, TopicInv
  <2> DEFINE e == Each("subscribe", subs')
  <2>2. Cardinality(subs') \in Nat /\ Cardinality(subs') <= M + 1
    <3>1. networks \in SUBSET Networks /\ {} \in SUBSET Topics
      BY DEF TypeOK
    <3>2. /\ IsFiniteSet(networks) /\ Cardinality(networks) \in Nat
          /\ Cardinality(networks) <= M
      BY <3>1, ApartIs DEF M
    <3>3. Cardinality(subs') \in {Cardinality(networks), Cardinality(networks) + 1}
      BY <2>1, <3>2, FS_AddElement
    <3>4. QED
      BY <1>2, <3>2, <3>3
  <2>3. e \in Seq(Requests) /\ Len(e) = Cardinality(subs')
    <3>1. subs' \in SUBSET Topics
      BY DEF TypeOK
    <3>2. QED
      BY <3>1, EachIs
  <2>4. K = 0 /\ P = 0 /\ Len(requests) = 0
    <3>1. Len(requests) = 0
      BY <2>1
    <3>2. QED
      BY <1>1, <3>1
  <2>5. D' <= 1
    <3>1. Apart' \in SUBSET {Linkage}
      BY <2>1 DEF Apart
    <3>2. Apart' = {} \/ Apart' = {Linkage}
      BY <3>1
    <3>3. Cardinality({Linkage}) = 1 /\ Cardinality({}) = 0
      BY FS_EmptySet, FS_Singleton
    <3>4. D' \in {0, 1}
      BY <3>2, <3>3 DEF D
    <3>5. QED
      BY <3>4
  <2> HIDE DEF e
  <2>6. Len(requests) + Len(e) <= QueueSize
    BY <1>2, <1>5, <2>2, <2>3, <2>4
  <2>7. client' = "Work" /\ K' = K + Asks(e) /\ Asks(e) \in Nat /\ Asks(e) <= Len(e)
    BY <1>8, <2>1, <2>3, <2>6 DEF e
  <2>8. K' + D' <= M + 2
    BY <1>2, <1>3, <2>2, <2>3, <2>4, <2>5, <2>7
  <2>9. QED
    BY <1>1, <1>2, <1>3, <1>6, <2>1, <2>7, <2>8
<1>13. CASE TakesNews
  <2>1. client = "Work" /\ networks' = networks /\ changes' = changes
    BY <1>13 DEF TakesNews
  <2>2. CASE Head(rx_net) # "NetworksUpdated"
    <3>1. requests' = requests /\ subs' = subs /\ client' = client
      BY <1>13, <2>2 DEF TakesNews
    <3>2. K' = K /\ D' = D
      BY <2>1, <3>1 DEF K, D, Apart
    <3>3. QED
      BY <1>5, <1>6, <2>1, <3>1, <3>2
  <2>3. CASE Head(rx_net) = "NetworksUpdated"
    <3> DEFINE e == Each("subscribe", networks \ subs)
               f == Each("unsubscribe", subs \ networks)
    <3>1. subs' = networks /\ Queues(e \o f, "Work")
      BY <1>13, <2>3 DEF TakesNews
    <3>2. /\ networks \ subs \in SUBSET Topics /\ subs \ networks \in SUBSET Topics
      BY DEF TypeOK, Topics
    <3>3. /\ e \in Seq(Requests) /\ f \in Seq(Requests) /\ e \o f \in Seq(Requests)
          /\ Len(e) = Cardinality(networks \ subs) /\ Len(f) = Cardinality(subs \ networks)
          /\ Len(e) \in Nat /\ Len(f) \in Nat
      BY <3>2, EachIs, ConcatProperties
    <3> HIDE DEF e, f
    <3>4. Len(e \o f) = D
      <4>1. Len(e \o f) = Len(e) + Len(f)
        BY <3>3, ConcatProperties
      <4>2. QED
        BY <1>3, <3>3, <4>1
    <3>5. Len(requests) + Len(e \o f) <= QueueSize
      <4>1. P <= Burst
        BY <1>1, <1>2, <1>4, <2>1
      <4>2. \A k, d, m, c, x, b, q, z \in Nat :
              /\ k + d <= m + 2 + c /\ m + 2 + x + b <= q /\ c <= x /\ z <= b
              => z + k + d <= q
        OBVIOUS
      <4>3. P + K + D <= QueueSize
        BY <1>1, <1>2, <1>3, <1>5, <4>1, <4>2
      <4>4. QED
        BY <1>1, <3>4, <4>3
    <3>6. /\ client' = "Work" /\ K' = K + Asks(e \o f)
          /\ Asks(e \o f) \in Nat /\ Asks(e \o f) <= Len(e \o f)
      BY <1>8, <3>1, <3>3, <3>5
    <3>7. D' = 0
      <4>1. Apart' = {}
        BY <2>1, <3>1 DEF Apart
      <4>2. QED
        BY <4>1, FS_EmptySet DEF D
    <3>8. K' + D' <= K + D
      <4>1. \A k, d, x, y, z \in Nat : y = 0 /\ x <= d /\ z = k + x => z + y <= k + d
        OBVIOUS
      <4>2. K' \in Nat /\ Asks(e \o f) <= D
        BY <1>1, <3>4, <3>6
      <4>3. QED
        BY <1>1, <1>3, <3>6, <3>7, <4>1, <4>2
    <3>9. K' \in Nat
      BY <1>1, <3>6
    <3>10. K' + D' <= M + 2 + changes'
      <4>1. \A a, b, c \in Nat : a <= b /\ b <= c => a <= c
        OBVIOUS
      <4>2. K' + D' \in Nat /\ K + D \in Nat /\ M + 2 + changes \in Nat
        <5>1. K' + D' \in Nat
          <6>1. \A a, b \in Nat : a + b \in Nat
            OBVIOUS
          <6>2. QED
            BY <1>3, <3>9, <6>1
        <5>2. K + D \in Nat
          BY <1>1, <1>3
        <5>3. M + 2 + changes \in Nat
          BY <1>2
        <5>4. QED
          BY <5>1, <5>2, <5>3
      <4>3. K' + D' <= M + 2 + changes
        BY <1>5, <3>8, <4>1, <4>2
      <4>4. QED
        BY <2>1, <4>3
    <3>11. QED
      BY <1>6, <3>6, <3>10
  <2>4. QED
    BY <2>2, <2>3
<1>14. CASE TakesMessage
  <2>1. /\ client = "Work" /\ rx_msg > 0 /\ Queues(<<Publish>>, "Work")
        /\ subs' = subs /\ networks' = networks /\ changes' = changes
    BY <1>14 DEF TakesMessage
  <2>2. <<Publish>> \in Seq(Requests) /\ Len(<<Publish>>) = 1
    BY DEF Requests
  <2>3. Len(requests) + Len(<<Publish>>) <= QueueSize
    <3>1. P + 1 <= Burst
      BY <1>1, <1>2, <1>4, <2>1
    <3>2. K <= M + 2 + MaxChanges
      BY <1>1, <1>2, <1>3, <1>5
    <3>3. QED
      BY <1>1, <1>2, <1>5, <2>2, <3>1, <3>2
  <2>4. client' = "Work" /\ K' = K + Asks(<<Publish>>)
    BY <1>8, <2>1, <2>2, <2>3
  <2>5. Asks(<<Publish>>) = 0
    BY AtOne DEF Asks
  <2>6. D' = D
    BY <2>1 DEF D, Apart
  <2>7. QED
    BY <1>1, <1>5, <1>6, <2>1, <2>4, <2>5, <2>6
<1>15. CASE PollsRequest
  <2>1. /\ requests # <<>> /\ requests' = Tail(requests) /\ client' = "Work"
        /\ subs' = subs /\ networks' = networks /\ changes' = changes
    BY <1>15 DEF PollsRequest, Polls
  <2>2. K' <= K /\ K' \in Nat
    <3>1. Asks(Tail(requests)) <= Asks(requests) /\ Asks(requests') \in Nat
      BY <1>1, <2>1, AsksIs
    <3>2. QED
      BY <2>1, <3>1 DEF K
  <2>3. D' = D
    BY <2>1 DEF D, Apart
  <2>4. QED
    BY <1>1, <1>2, <1>3, <1>5, <1>6, <2>1, <2>2, <2>3
<1>16. ASSUME UNCHANGED <<requests, subs, networks, changes>>, client' # "Stuck"
       PROVE  RoomInv'
  <2>1. K' = K /\ D' = D
    BY <1>16 DEF K, D, Apart
  <2>2. QED
    BY <1>5, <1>6, <1>16, <2>1
<1>17. CASE UNCHANGED vars \/ BrokerTurns \/ ServiceTakesMessage
            \/ (\E n \in News : ServiceTakesNews(n)) \/ ServiceSendsMessage
            \/ ServiceSendsNews \/ ServiceTakesNotice
  BY <1>5, <1>16, <1>17 DEF vars, BrokerTurns, ServiceTakesMessage, ServiceTakesNews,
       ServiceSendsMessage, ServiceSendsNews, ServiceTakesNotice
<1>18. CASE Waits \/ PauseEnds
  BY <1>16, <1>18 DEF Waits, PauseEnds
<1>19. CASE TellsConnected \/ TellsIncoming \/ TellsLeaving \/ TellsFailed
  BY <1>16, <1>19 DEF TellsConnected, TellsIncoming, TellsLeaving, TellsFailed, Tells
<1>20. CASE PollsConnAck \/ PollsPublish \/ PollsDisconnect
  BY <1>16, <1>20 DEF PollsConnAck, PollsPublish, PollsDisconnect, Polls
<1>21. QED
  BY <1>9, <1>10, <1>11, <1>12, <1>13, <1>14, <1>15, <1>17, <1>18, <1>19, <1>20 DEF Next

\* With room in the queue for the topics of every network, for the changes and
\* for the messages under way (Fits; the code's queue has 1000 places), the
\* client never waits for room that only it can make (mqtt/logic.rs 151, 220,
\* 347 against 183).  Client and service wait for each other (mqtt/domain.rs
\* 97-118) only with more messages and news under way than a channel holds, 50
\* in the code: which the code does not exclude.
THEOREM NoEndlessWaitHolds ==
  ASSUME Fits
  PROVE  Spec => [](client # "Stuck" /\ (NoEndlessWait \/ Load > Cap))
<1>1. Init => TypeOK /\ TopicInv /\ NewsInv /\ LoadInv /\ RoomInv
  <2>1. SUFFICES ASSUME Init PROVE TypeOK /\ TopicInv /\ NewsInv /\ LoadInv /\ RoomInv
    OBVIOUS
  <2>2. TypeOK
    BY <2>1, BoundsAssumption DEF Init, TypeOK, News, Commands, Statuses, ClientStates
  <2>3. TopicInv
    BY <2>1, WillOfNone DEF Init, TopicInv
  <2>4. NewsInv
    BY <2>1 DEF Init, NewsInv, News
  <2>5. /\ requests = <<>> /\ news["NetworksReady"] = 0 /\ news["NetworksUpdated"] = 0
        /\ Count(service # "select") = 0 /\ rx_msg = 0 /\ Len(rx_net) = 0
        /\ subs = {} /\ networks = {} /\ changes = 0 /\ client = "Waiting"
    BY <2>1 DEF Init, News, Count
  <2>6. /\ \A V : At(requests, V) = {}
        /\ Cardinality({}) = 0
    BY <2>5, FS_EmptySet DEF At
  <2>7. Load = 0
    <3>1. {i \in DOMAIN requests : requests[i] = Publish} = {}
      BY <2>5
    <3>2. QED
      BY <2>5, <2>6, <3>1 DEF Load
  <2>8. LoadInv
    BY <2>7, BoundsAssumption DEF LoadInv
  <2>9. Asks(requests) = 0 /\ Cardinality(Apart) = 0
    BY <2>5, <2>6 DEF Asks, Apart
  <2>10. Cardinality(Networks) \in Nat
    BY NetworksAssumption, FS_CardinalityType
  <2>11. RoomInv
    BY <2>5, <2>9, <2>10 DEF RoomInv
  <2>12. QED
    BY <2>2, <2>3, <2>4, <2>8, <2>11
<1>2. TypeOK /\ TypeOK' /\ TopicInv /\ NewsInv /\ LoadInv /\ RoomInv /\ [Next]_vars
        => TopicInv' /\ NewsInv' /\ LoadInv' /\ RoomInv'
  BY TopicStep, NewsStep, LoadStep, RoomStep
<1>3. TypeOK /\ RoomInv => client # "Stuck" /\ (NoEndlessWait \/ Load > Cap)
  <2>1. SUFFICES ASSUME TypeOK, RoomInv, ~(Load > Cap),
                        client \in {"Connected", "Incoming", "Leaving", "Failed"},
                        \/ service = "Serialized" /\ rx_msg = Cap
                        \/ service \in News /\ Len(rx_net) = Cap
                 PROVE  FALSE
    BY DEF NoEndlessWait, RoomInv
  <2> DEFINE P == Cardinality({i \in DOMAIN requests : requests[i] = Publish})
  <2>2. /\ rx_msg \in Nat /\ Len(rx_net) \in Nat /\ P \in Nat
        /\ news["NetworksReady"] \in Nat /\ news["NetworksUpdated"] \in Nat
        /\ Cap \in Nat
    <3>1. requests \in Seq(Requests)
      BY <2>1 DEF TypeOK
    <3>2. Cardinality(At(requests, {Publish})) \in Nat
      BY <3>1, AsksIs
    <3>3. P \in Nat
      BY <3>2 DEF At
    <3>4. QED
      BY <2>1, <3>3, BoundsAssumption DEF TypeOK, News
  <2>3. Count(service # "select") = 1
    BY <2>1 DEF Count, News
  <2>4. Load = news["NetworksReady"] + news["NetworksUpdated"] + 1 + rx_msg
               + Len(rx_net) + P
    BY <2>3 DEF Load
  <2>5. \A a, b, d, e, f \in Nat :
          a + b + 1 + d + e + f > d /\ a + b + 1 + d + e + f > e
    OBVIOUS
  <2> HIDE DEF P
  <2>6. Load > rx_msg /\ Load > Len(rx_net)
    BY <2>2, <2>4, <2>5
  <2>7. Load \in Nat
    <3>1. \A a, b, d, e, f \in Nat : a + b + 1 + d + e + f \in Nat
      OBVIOUS
    <3>2. QED
      BY <2>2, <2>4, <3>1
  <2>8. QED
    BY <2>1, <2>2, <2>6, <2>7
<1>4. QED
  BY <1>1, <1>2, <1>3, TypeCorrect, PTL DEF Spec
=============================================================================
