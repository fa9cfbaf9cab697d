-------------------------------- MODULE Mqtt --------------------------------
(***************************************************************************)
(* The downlink to the hubs: the MQTT client with its subscriptions and    *)
(* the service loop in front of it.                                        *)
(*                                                                         *)
(*   network_admin  fills and changes the cache of networks; the news of   *)
(*                  it comes through other services and Core               *)
(*   Core           commands out, notices in: a hop that keeps the order,  *)
(*                  collapsed here                                         *)
(*   MqttService    one select loop that passes both on                    *)
(*   mqtt           the client: Waiting, Init, Work, Error                 *)
(*   EventLoop      external (rumqttc): a bounded queue of requests that   *)
(*                  is emptied only while the client polls it              *)
(*                                                                         *)
(* The eleven topics of a network are subscribed and given up together:    *)
(* a network stands for its topics.                                        *)
(***************************************************************************)
EXTENDS Naturals, Sequences, FiniteSets, SequencesExt

CONSTANTS
    Networks,
    Linkage,     \* the topic of linkage requests, which belongs to no network
    Cap,         \* capacity of each channel (50 and 100 in the code)
    QueueSize,   \* BUFFER_SIZE: capacity of the queue of requests
    Burst,       \* bound: no message and no change while Load has reached it
    MaxChanges   \* bound: changes of the networks by the server

ASSUME NetworksAssumption == IsFiniteSet(Networks)
ASSUME LinkageAssumption == Linkage \notin Networks
ASSUME BoundsAssumption  == {Cap, QueueSize} \subseteq Nat \ {0}
                            /\ {Burst, MaxChanges} \subseteq Nat

VARIABLES
    broker,    \* external: whether the broker can be reached
    link,      \* external: the connection of the current client
    granted,   \* external: the topics the broker sends on this connection
    requests,  \* external: what the client asked for and was not yet sent
    networks,  \* NetworkManager: the networks in the cache
    stored,    \* the networks the database holds at the start, not yet read
    news,      \* notices about the cache on their way to Core
    changes,   \* counts the changes of the server
    told,      \* the last status Core passed on to MessageService
    service,   \* MqttService: at its select, or the command it is sending on
    rx_msg,    \* messages for the hubs the client has not taken
    rx_net,    \* news of the networks the client has not taken
    notices,   \* rx_response: notices the service has not taken
    client,    \* the client: Waiting, Init, Work, the sleep of its Error
               \* state (Pause), sending a notice (Connected, Incoming,
               \* Leaving, Failed), or waiting for room among the requests
               \* (Stuck)
    subs       \* current_subs: the topics it asked for

cacheVars   == <<networks, stored, news, changes>>
serviceVars == <<service, rx_msg, rx_net, notices>>
brokerVars  == <<broker, link, granted, requests>>
clientVars  == <<client, subs>>
vars == <<brokerVars, cacheVars, serviceVars, told, clientVars>>

News     == {"NetworksReady", "NetworksUpdated"}
Commands == {"Serialized"} \cup News
Statuses == {"LocalConnected", "LocalDisconnected"}
Notices  == Statuses \cup {"IncomingMessage"}

Publish == [ask |-> "publish"]

\* The messages for the hubs and the news that are under way.
Count(b) == IF b THEN 1 ELSE 0
Load ==
    news["NetworksReady"] + news["NetworksUpdated"]
    + Count(service # "select") + rx_msg + Len(rx_net)
    + Cardinality({i \in DOMAIN requests : requests[i] = Publish})

Init ==
    /\ broker = "down" /\ link = "none" /\ granted = {} /\ requests = <<>>
    /\ networks = {} /\ stored \in SUBSET Networks
    /\ news = [n \in News |-> 0] /\ changes = 0
    /\ told = "LocalConnected"
    /\ service = "select" /\ rx_msg = 0 /\ rx_net = <<>> /\ notices = <<>>
    /\ client = "Waiting" /\ subs = {}
-----------------------------------------------------------------------------
(* The broker.  Sessions are clean: a broken connection ends them.         *)

BrokerTurns ==
    /\ broker' = IF broker = "up" THEN "down" ELSE "up"
    /\ link' = IF link = "up" THEN "broken" ELSE link
    /\ granted' = {}
    /\ UNCHANGED <<requests, cacheVars, serviceVars, told, clientVars>>
-----------------------------------------------------------------------------
(* The cache.                                                              *)

\* Batch::Network: the networks found at the start; without any there is no
\* batch.
BatchArrives ==
    /\ stored # {}
    /\ networks' = networks \cup stored
    /\ stored' = {}
    /\ news' = [news EXCEPT !["NetworksReady"] = @ + 1]
    /\ UNCHANGED <<changes, brokerVars, serviceVars, told, clientVars>>

\* A network is inserted, updated or deleted.  NetworksUpdated follows once
\* the database has run the statement or failed to.
NetworkChanges ==
    /\ changes < MaxChanges /\ Load < Burst
    /\ changes' = changes + 1
    /\ \E n \in Networks : networks' \in {networks \cup {n}, networks \ {n}}
    /\ news' = [news EXCEPT !["NetworksUpdated"] = @ + 1]
    /\ UNCHANGED <<stored, brokerVars, serviceVars, told, clientVars>>
-----------------------------------------------------------------------------
(* MqttService.                                                            *)

ServiceTakesMessage ==
    /\ service = "select"
    /\ Load < Burst
    /\ service' = "Serialized"
    /\ UNCHANGED <<rx_msg, rx_net, notices, told, brokerVars, cacheVars,
                   clientVars>>

ServiceTakesNews(n) ==
    /\ service = "select"
    /\ news[n] > 0
    /\ news' = [news EXCEPT ![n] = @ - 1]
    /\ service' = n
    /\ UNCHANGED <<networks, stored, changes, rx_msg, rx_net, notices, told,
                   brokerVars, clientVars>>

ServiceSendsMessage ==
    /\ service = "Serialized"
    /\ rx_msg < Cap
    /\ rx_msg' = rx_msg + 1
    /\ service' = "select"
    /\ UNCHANGED <<rx_net, notices, told, brokerVars, cacheVars, clientVars>>

ServiceSendsNews ==
    /\ service \in News
    /\ Len(rx_net) < Cap
    /\ rx_net' = Append(rx_net, service)
    /\ service' = "select"
    /\ UNCHANGED <<rx_msg, notices, told, brokerVars, cacheVars, clientVars>>

\* A status goes on to the tasks of MessageService.
ServiceTakesNotice ==
    /\ service = "select"
    /\ notices # <<>>
    /\ told' = IF Head(notices) \in Statuses THEN Head(notices) ELSE told
    /\ notices' = Tail(notices)
    /\ UNCHANGED <<service, rx_msg, rx_net, brokerVars, cacheVars, clientVars>>
-----------------------------------------------------------------------------
(* mqtt: the client.                                                       *)

ClientKeeps == UNCHANGED <<broker, cacheVars, service, told>>

\* Variant: the next client starts with what was left in the queue.
Dropped_KeepsQueue ==
    /\ link' = "none" /\ granted' = {} /\ UNCHANGED requests
    /\ subs' = {}

\* The client and its event loop are given up, with what was in the queue.
Dropped ==
    /\ link' = "none" /\ granted' = {} /\ requests' = <<>>
    /\ subs' = {}

\* Everything before NetworksReady is thrown away.
Waits ==
    /\ client = "Waiting"
    /\ rx_net # <<>>
    /\ rx_net' = Tail(rx_net)
    /\ client' = IF Head(rx_net) = "NetworksReady" THEN "Init" ELSE "Waiting"
    /\ ClientKeeps
    /\ UNCHANGED <<link, granted, requests, rx_msg, notices, subs>>

\* The requests are queued one after the other, each waiting for room; but
\* only this task empties the queue: if they do not fit, it waits for ever.
Queues(new, to) ==
    IF Len(requests) + Len(new) <= QueueSize
    THEN requests' = requests \o new /\ client' = to
    ELSE UNCHANGED requests /\ client' = "Stuck"

Each(ask, topics) ==
    LET s == SetToSeq(topics) IN
    [i \in DOMAIN s |-> [ask |-> ask, topic |-> s[i]]]

\* A new client, and the topics of the cache as it is now.
CreatesClient ==
    /\ client = "Init"
    /\ subs' = networks \cup {Linkage}
    /\ Queues(Each("subscribe", subs'), "Work")
    /\ ClientKeeps
    /\ UNCHANGED <<link, granted, rx_msg, rx_net, notices>>

\* The certificates cannot be read, or a topic is refused.
CreationFails ==
    /\ client = "Init"
    /\ client' = "Pause"
    /\ Dropped
    /\ ClientKeeps /\ UNCHANGED <<rx_msg, rx_net, notices>>

\* Variant: the topics of a network that is gone are kept.
TakesNews_OnlyAdds ==
    /\ client = "Work"
    /\ rx_net # <<>>
    /\ rx_net' = Tail(rx_net)
    /\ IF Head(rx_net) = "NetworksUpdated"
       THEN /\ subs' = subs \cup networks
            /\ Queues(Each("subscribe", networks \ subs), "Work")
       ELSE UNCHANGED <<subs, requests, client>>
    /\ ClientKeeps
    /\ UNCHANGED <<link, granted, rx_msg, notices>>

\* update_subscriptions: every topic is inactive but those of the networks.
\* The lock of the cache is held meanwhile.
TakesNews ==
    /\ client = "Work"
    /\ rx_net # <<>>
    /\ rx_net' = Tail(rx_net)
    /\ IF Head(rx_net) = "NetworksUpdated"
       THEN /\ subs' = networks
            /\ Queues(Each("subscribe", networks \ subs)
                        \o Each("unsubscribe", subs \ networks), "Work")
       ELSE UNCHANGED <<subs, requests, client>>
    /\ ClientKeeps
    /\ UNCHANGED <<link, granted, rx_msg, notices>>

TakesMessage ==
    /\ client = "Work"
    /\ rx_msg > 0
    /\ rx_msg' = rx_msg - 1
    /\ Queues(<<Publish>>, "Work")
    /\ ClientKeeps
    /\ UNCHANGED <<link, granted, rx_net, notices, subs>>

\* The client waits for room for its notice, then enters the next state.
Tells(from, notice, to) ==
    /\ client = from
    /\ Len(notices) < Cap
    /\ notices' = Append(notices, notice)
    /\ client' = to
    /\ ClientKeeps
    /\ UNCHANGED <<link, granted, requests, rx_msg, rx_net, subs>>

TellsConnected == Tells("Connected", "LocalConnected", "Work")
TellsIncoming  == Tells("Incoming", "IncomingMessage", "Work")
TellsLeaving   == Tells("Leaving", "LocalDisconnected", "Work")
TellsFailed    == Tells("Failed", "LocalDisconnected", "Pause")

\* Variant: after a failure the client starts from its first state.
PauseEnds_Waits ==
    /\ client = "Pause"
    /\ client' = "Waiting"
    /\ ClientKeeps
    /\ UNCHANGED <<link, granted, requests, rx_msg, rx_net, notices, subs>>

PauseEnds ==
    /\ client = "Pause"
    /\ client' = "Init"
    /\ ClientKeeps
    /\ UNCHANGED <<link, granted, requests, rx_msg, rx_net, notices, subs>>
-----------------------------------------------------------------------------
(* EventLoop::poll, of which the client takes one event at a time.         *)

Polls(to) ==
    /\ client = "Work"
    /\ client' = to
    /\ ClientKeeps /\ UNCHANGED <<rx_msg, rx_net, notices>>

PollsConnAck ==
    /\ link = "none" /\ broker = "up"
    /\ Polls("Connected")
    /\ link' = "up"
    /\ UNCHANGED <<granted, requests, subs>>

PollsRequest ==
    /\ link = "up" /\ requests # <<>>
    /\ Polls("Work")
    /\ requests' = Tail(requests)
    /\ LET r == Head(requests) IN
       granted' = CASE r.ask = "subscribe"   -> granted \cup {r.topic}
                    [] r.ask = "unsubscribe" -> granted \ {r.topic}
                    [] OTHER                 -> granted
    /\ UNCHANGED <<link, subs>>

PollsPublish ==
    /\ link = "up" /\ granted # {}
    /\ Polls("Incoming")
    /\ UNCHANGED <<link, granted, requests, subs>>

\* A broker that goes may say so before the connection ends.
PollsDisconnect ==
    /\ link = "broken"
    /\ Polls("Leaving")
    /\ link' = "closed"
    /\ UNCHANGED <<granted, requests, subs>>

PollsError ==
    /\ link \in {"broken", "closed"} \/ (link = "none" /\ broker = "down")
    /\ Polls("Failed")
    /\ Dropped
-----------------------------------------------------------------------------
Next ==
    \/ BrokerTurns \/ BatchArrives \/ NetworkChanges
    \/ ServiceTakesMessage \/ \E n \in News : ServiceTakesNews(n)
    \/ ServiceSendsMessage \/ ServiceSendsNews \/ ServiceTakesNotice
    \/ Waits \/ CreatesClient \/ CreationFails
    \/ TakesNews \/ TakesMessage
    \/ TellsConnected \/ TellsIncoming \/ TellsLeaving \/ TellsFailed
    \/ PauseEnds
    \/ PollsConnAck \/ PollsRequest \/ PollsPublish \/ PollsDisconnect
    \/ PollsError

\* The tasks are scheduled fairly, their select!s poll every branch, and the
\* batch of the start arrives.  The certificates can be read sooner or later.
\* Neither messages nor changes have to come.
Fairness ==
    /\ WF_vars(BatchArrives)
    /\ SF_vars(\E n \in News : ServiceTakesNews(n))
    /\ SF_vars(ServiceTakesNotice)
    /\ WF_vars(ServiceSendsMessage \/ ServiceSendsNews)
    /\ WF_vars(Waits \/ PauseEnds)
    /\ SF_vars(CreatesClient)
    /\ WF_vars(TellsConnected \/ TellsIncoming \/ TellsLeaving \/ TellsFailed)
    /\ SF_vars(TakesNews)
    /\ SF_vars(PollsConnAck \/ PollsRequest \/ PollsError)

Spec     == Init /\ [][Next]_vars
FairSpec == Spec /\ Fairness
-----------------------------------------------------------------------------
\* Nobody waits for ever.  The client does not wait for room in a queue that
\* only it empties (mqtt/logic.rs 151, 220, 347 against 183); the client and
\* the service do not wait for each other (mqtt/domain.rs 97-118).  What makes
\* it true is the bound on the messages under way and on the networks: 11
\* requests each and one for the linkage.
NoEndlessWait ==
    /\ client # "Stuck"
    /\ ~ /\ client \in {"Connected", "Incoming", "Leaving", "Failed"}
         /\ Len(notices) = Cap
         /\ \/ service = "Serialized" /\ rx_msg = Cap
            \/ service \in News /\ Len(rx_net) = Cap

\* A change of the cache the client has not worked in yet.
Outdated ==
    \/ news["NetworksUpdated"] > 0
    \/ service = "NetworksUpdated"
    \/ \E i \in DOMAIN rx_net : rx_net[i] = "NetworksUpdated"

Settled ==
    /\ ~Outdated /\ client = "Work" /\ link = "up"
    /\ \A i \in DOMAIN requests : requests[i] = Publish

\* The gateway hears the hubs of the networks in the cache and of no others:
\* once the news of every change was worked in and the queue is empty of
\* subscriptions, whatever failures, pauses and new clients lie between the
\* change and its news (mqtt/logic.rs:17-18, subscriptions that follow the
\* topology at run time).
SubscriptionsFollow == Settled => granted \ {Linkage} = networks

\* Hubs that are not linked yet can ask for it: the gateway hears linkage
\* requests whenever its subscriptions are settled (network/logic.rs:35).
\* The code breaks it: update_subscriptions (mqtt/logic.rs 297-318) leaves
\* the topic inactive and gives it up with the first NetworksUpdated.
HubsCanJoin == Settled => Linkage \in granted

\* With networks in the database at the start and a broker that is there for
\* good, the client ends up connected, subscribed to what the cache holds, and
\* believed connected: however often the broker was lost before, and whatever
\* changed meanwhile (mqtt/logic.rs:11-14).
HearsTheHubs ==
    /\ stored # {}
    /\ <>[](broker = "up")
    => <>[](/\ link = "up" /\ told = "LocalConnected"
            /\ networks \subseteq granted)
=============================================================================
