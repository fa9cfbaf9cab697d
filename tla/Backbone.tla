------------------------------ MODULE Backbone ------------------------------
(***************************************************************************)
(* The way of every message through the gateway, and the lock on it.       *)
(*                                                                         *)
(*   Core            one select loop between all services                  *)
(*   MessageService  one select loop and four tasks, two for each side     *)
(*   NetworkService  one select loop, network_admin and network_dba        *)
(*   FirmwareService one select loop and update_firmware_task              *)
(*   Others          one select loop each: it gives Core what it has, or   *)
(*                   takes what Core has for it                            *)
(*                                                                         *)
(* Every channel is bounded, every send waits for room, and a task takes   *)
(* nothing until its turn is over.  network_admin writes the cache of      *)
(* networks, three tasks read it, and some turns send under its lock.      *)
(*                                                                         *)
(* A message is <<variant, content>>; the variant decides on its route,    *)
(* and contents nobody tells apart are one.  There is one network.         *)
(***************************************************************************)
EXTENDS Naturals, Sequences, FiniteSets, SequencesExt

CONSTANTS
    Cap,     \* capacity of each channel (50, 100 and buffer_size)
    Load,    \* bound: messages under way
    Tables,  \* the tables of a Batch (4 in the code)
    Kinds    \* bound: the contents that come in

ASSUME BoundsAssumption == {Cap, Load, Tables} \subseteq Nat \ {0}

VARIABLES
    chan,      \* channel -> its messages; empty ones are left out
    agenda,    \* task -> what it still has to do of its turn; the others are
               \* at their select!
    waiting,   \* external (tokio): the tasks queued for the lock, in order
    cache      \* NetworkManager: the mode of the network, or "absent"

vars == <<chan, agenda, waiting, cache>>

Others   == {"mqtt", "grpc", "data", "heartbeat"}
Services == {"message", "network", "firmware"} \cup Others
Tasks == {"core", "message", "network", "firmware",
          "msg_to_hub", "msg_from_hub", "msg_to_server", "msg_from_server",
          "network_admin", "network_dba", "update_firmware"} \cup Others
Modes == {"on", "off"}
Notices == Modes \cup {"gone"}    \* what the hubs of a network are told of it

\* The channels, named as <<what is sent, reader>>.
Tx == <<"tx", "message">>    \* shared by the four tasks of MessageService
Channels ==
    {<<s, "core">> : s \in Services} \cup {<<"core", s>> : s \in Services} \cup
    {Tx} \cup
    {<<"message", t>> : t \in {"msg_to_hub", "msg_from_hub", "msg_to_server",
                               "msg_from_server"}} \cup
    {<<"msg_from_hub", "msg_to_hub">>, <<"msg_from_hub", "msg_to_server">>,
     <<"msg_from_server", "msg_to_hub">>} \cup
    {<<v, "network_admin">> :
        v \in {"FromServer", "FromHub", "BatchNetwork"}} \cup
    {<<"network_admin", "network">>, <<"network_dba", "network">>,
     <<"networks", "network_dba">>, <<"hubs", "network_dba">>} \cup
    {<<"firmware", "update_firmware">>, <<"update_firmware", "firmware">>}
Reader(c) == c[2]

\* The steps of a turn.
Send(c, m)    == [do |-> "send", to |-> c, msg |-> m]
Lock(mode, m) == [do |-> mode, msg |-> m]      \* "read" or "write"
Free(mode)    == [do |-> "free", mode |-> mode]

\* Both functions hold what is not empty.
At(f, k)     == IF k \in DOMAIN f THEN f[k] ELSE <<>>
With(f, k, v) ==
    [x \in IF v = <<>> THEN DOMAIN f \ {k} ELSE DOMAIN f \cup {k} |->
        IF x = k THEN v ELSE f[x]]

Init ==
    /\ \/ chan = <<>>
       \/ \E x \in Modes :
             chan = With(<<>>, <<"data", "core">>, <<<<"BatchNetwork", x>>>>)
    /\ agenda = <<>>
    /\ waiting = <<>> /\ cache = "absent"
-----------------------------------------------------------------------------
(* The turns of the loops: where a message goes, by its variant.           *)

CoreRoutes(m) ==
    LET to(s) == Send(<<"core", s>>, m) IN
    CASE m[1] \in {"IncomingMessage", "IncomingGrpc", "LocalStatus",
                   "ToHub", "ToServer"}  -> <<to("message")>>
      [] m[1] = "ServerStatus"           -> <<to("message"), to("data")>>
      [] m[1] = "EdgeUpload"             -> <<to("grpc")>>
      [] m[1] \in {"Serialized", "NetworksReady"} -> <<to("mqtt")>>
      [] m[1] = "DataCommand"            -> <<to("data")>>
      [] m[1] = "BatchNetwork"           -> <<to("network")>>
      [] m[1] = "NetworksUpdated" ->
             <<to("mqtt"),
               Send(<<"core", "message">>, <<"ToServer", "NetworkAck">>)>>
      [] m[1] = "HubInserted" ->
             <<Send(<<"core", "message">>, <<"ToHub", "LinkageAck">>)>>
      [] m = <<"FromHub", "Report">>     -> <<to("data")>>
      [] m = <<"FromServer", "UpdateFirmware">> -> <<to("firmware")>>
      [] m = <<"FromServer", "Heartbeat">> -> <<to("heartbeat")>>
      [] OTHER                           -> <<to("network")>>

MessageRoutes(c, m) ==
    LET to(t) == Send(<<"message", t>>, m) IN
    CASE c = Tx                  -> <<Send(<<"message", "core">>, m)>>
      [] m[1] \in {"IncomingMessage", "LocalStatus"} -> <<to("msg_from_hub")>>
      [] m[1] = "ServerStatus"   -> <<to("msg_from_hub"), to("msg_to_server")>>
      [] m[1] = "IncomingGrpc"   -> <<to("msg_from_server")>>
      [] m[1] = "ToHub"          -> <<to("msg_to_hub")>>
      [] m[1] = "ToServer"       -> <<to("msg_to_server")>>

NetworkRoutes(c, m) ==
    IF c = <<"core", "network">> THEN <<Send(<<m[1], "network_admin">>, m)>>
    ELSE <<Send(<<"network", "core">>, m)>>

FirmwareRoutes(c, m) ==
    IF c = <<"core", "firmware">>
    THEN <<Send(<<"firmware", "update_firmware">>, m)>>
    ELSE <<Send(<<"firmware", "core">>, m)>>
-----------------------------------------------------------------------------
(* The turns of the tasks: a set where the outcome depends on what is not  *)
(* modelled.                                                               *)

\* With the server away everything goes to Core, to be stored; with it there,
\* a report needs an active network and a linkage request does not.
FromHubTurns(m) ==
    CASE m[1] = "LocalStatus"  ->
             {<<Send(<<"msg_from_hub", "msg_to_hub">>, m)>>}
      [] m[1] = "ServerStatus" -> {<<>>}
      [] m[2] = "Report" ->
             {<<Lock("read", m)>>, <<Send(Tx, <<"FromHub", m[2]>>)>>}
      [] OTHER           -> {<<Send(Tx, <<"FromHub", m[2]>>)>>}

FromServerTurns(m) ==
    {<<IF m[2] = "SettingsAck"
       THEN Send(<<"msg_from_server", "msg_to_hub">>, <<"ToHub", m[2]>>)
       ELSE Send(Tx, <<"FromServer", m[2]>>)>>}

\* With the server away a message is dropped, but not the acks.
ToServerTurns(m) ==
    LET upload == Send(Tx, <<"EdgeUpload", "upload">>) IN
    CASE m[1] = "ServerStatus" -> {<<>>}
      [] m[2] = "NetworkAck"   -> {<<upload>>}
      [] m[2] = "Batch"        -> {[i \in 1..n |-> upload] : n \in 0..Tables}
      [] OTHER                 -> {<<upload>>, <<>>}

\* With the broker away a message is dropped.
ToHubTurns(m) ==
    IF m[1] = "LocalStatus" THEN {<<>>} ELSE {<<>>, <<Lock("read", m)>>}

AdminTurns(m) ==
    {<<CASE m[1] = "FromServer" /\ m[2] \in Notices -> Lock("read", m)
         [] m[2] = "Settings" ->
                Send(<<"network_admin", "network">>, <<"ToHub", "request">>)
         [] OTHER -> Lock("write", m)>>}

DbaTurns(m) ==
    LET command == Send(<<"network_dba", "network">>, <<"DataCommand", "command">>) IN
    {IF m = <<"NetworkChanged", "gone">> THEN <<command, command>>
     ELSE <<command>>}

\* Without the version of the firmware no hub is looked for.
UpdateTurns(m) ==
    {<<Lock("read", m)>>,
     <<Send(<<"update_firmware", "firmware">>, <<"ToServer", "message">>)>>}

Turns(t, c, m) ==
    CASE t = "core"            -> {CoreRoutes(m)}
      [] t = "message"         -> {MessageRoutes(c, m)}
      [] t = "network"         -> {NetworkRoutes(c, m)}
      [] t = "firmware"        -> {FirmwareRoutes(c, m)}
      [] t = "msg_from_hub"    -> FromHubTurns(m)
      [] t = "msg_from_server" -> FromServerTurns(m)
      [] t = "msg_to_server"   -> ToServerTurns(m)
      [] t = "msg_to_hub"      -> ToHubTurns(m)
      [] t = "network_admin"   -> AdminTurns(m)
      [] t = "network_dba"     -> DbaTurns(m)
      [] t = "update_firmware" -> UpdateTurns(m)
      [] OTHER                 -> {<<>>}
-----------------------------------------------------------------------------
(* What a task does once it has the lock, up to its next await.            *)

\* is_active; the guard lives until the report was sent.
ReportUnderLock(m) ==
    {IF cache = "on"
     THEN <<Send(<<"msg_from_hub", "msg_to_server">>, <<"ToServer", "message">>),
            Free("read")>>
     ELSE <<>>}

UpdateUnderLock ==
    {<<Send(<<"update_firmware", "firmware">>, m), Free("read")>> :
        m \in {<<"ToHub", "request">>, <<"ToServer", "message">>}}

\* The topic: one of the fixed ones, or under the lock once more one of the
\* network.
Publishes == <<Send(Tx, <<"Serialized", "message">>)>>

\* Variant: the guard of the first look lives on to the second.
ToHubUnderLock_Keeps(m) ==
    {IF m[1] = "ToHub" /\ m[2] # "SettingsAck"
     THEN <<Lock("read", <<"topic", m[2]>>), Free("read")>>
     ELSE Publishes}

ToHubUnderLock(m) ==
    LET fixed == \/ m[2] = "LinkageAck"
                 \/ m[1] = "ToHub" /\ m[2] \in Modes /\ cache # "absent"
        asks  == m[1] = "ToHub" /\ m[2] # "SettingsAck"
    IN  {IF fixed THEN Publishes
         ELSE IF asks THEN <<Lock("read", <<"topic", m[2]>>)>>
         ELSE IF cache # "absent" THEN Publishes ELSE <<>>}

\* Variant: the notice names the mode before the change.
Change_Old(x) ==
    LET tells  == Send(<<"network_admin", "network">>, <<"ToHub", cache>>)
        stores == Send(<<"networks", "network_dba">>, <<"NetworkChanged", x>>)
    IN  IF x = "gone" \/ cache # "absent" THEN <<tells, stores>> ELSE <<stores>>

\* handle_event: the hubs are told of a change, then the database.
Change(x) ==
    LET tells  == Send(<<"network_admin", "network">>, <<"ToHub", x>>)
        stores == Send(<<"networks", "network_dba">>, <<"NetworkChanged", x>>)
    IN  IF x = "gone" \/ cache # "absent" THEN <<tells, stores>> ELSE <<stores>>

\* The decision is taken under the read lock, the action under the write lock.
Decides(x) ==
    IF (x = "gone" /\ cache # "absent") \/ (x \in Modes /\ cache # x)
    THEN <<Lock("write", <<"action", x>>)>> ELSE <<>>

\* A guard that is named lives to the end of its arm, over the sends; the arm
\* of a new hub drops it.
AdminUnderLock(m) ==
    LET out(x) == Send(<<"network_admin", "network">>, x)
        dba    == Send(<<"hubs", "network_dba">>, <<"HubChanged", "hub">>)
        done   == Free("write")
    IN  CASE m[1] = "action"       -> {Change(m[2])}
          [] m[1] = "BatchNetwork" -> {<<out(<<"NetworksReady", "networks">>), done>>}
          [] m[2] = "DeleteHub"    -> {<<dba, out(<<"ToHub", "request">>), done>>}
          [] m[2] = "LinkageRequest" ->
                 {<<dba>>, <<out(<<"ToHub", "LinkageAck">>), done>>}
          [] OTHER                 -> {Decides(m[2])}

UnderLock(t, m) ==
    CASE t = "msg_from_hub"    -> ReportUnderLock(m)
      [] t = "update_firmware" -> UpdateUnderLock
      [] t = "msg_to_hub"      -> ToHubUnderLock(m)
      [] t = "network_admin"   -> AdminUnderLock(m)

Holders(modes) ==
    {t \in DOMAIN agenda :
        \E x \in modes, i \in DOMAIN agenda[t] : agenda[t][i] = Free(x)}

\* Who keeps a lock of this mode from being given.
Against(mode) == Holders(IF mode = "read" THEN {"write"} ELSE {"read", "write"})
-----------------------------------------------------------------------------
(* The messages under way, each counted as what it may still become.       *)

Weight(reader, m) ==
    CASE m[1] = "ServerStatus" /\ reader = "core"     -> 3
      [] m[1] = "ServerStatus" /\ reader = "message"  -> 2
      [] m[1] = "NetworksUpdated" /\ reader = "core"  -> 2
      [] m = <<"NetworkChanged", "gone">>             -> 2
      [] m[1] \in {"IncomingGrpc", "FromServer", "action"} /\ m[2] = "gone" -> 3
      [] m[1] \in {"IncomingGrpc", "FromServer", "action"}
            /\ m[2] \in Modes \cup {"DeleteHub"}      -> 2
      [] m[2] = "Batch"                               -> Tables
      [] OTHER                                        -> 1

StepWeight(t, s) ==
    CASE s.do = "free" -> 0
      [] s.do = "send" -> Weight(Reader(s.to), s.msg)
      [] OTHER         -> Weight(t, s.msg)

\* Every unit for itself; the weights of a place are a sequence.
Units(weights) ==
    UNION {UNION {{<<p, i, k>> : k \in 1..weights[p][i]} : i \in DOMAIN weights[p]} :
             p \in DOMAIN weights}
Queued == [c \in DOMAIN chan |->
             [i \in DOMAIN chan[c] |-> Weight(Reader(c), chan[c][i])]]
Held   == [t \in DOMAIN agenda |->
             [i \in DOMAIN agenda[t] |-> StepWeight(t, agenda[t][i])]]
UnderWay == Cardinality(Units(Queued)) + Cardinality(Units(Held))

\* What the services hand to Core by themselves.
Inputs ==
    [mqtt      |-> {<<"IncomingMessage", "Report">>,
                    <<"IncomingMessage", "LinkageRequest">>,
                    <<"LocalStatus", "local">>},
     grpc      |-> {<<"IncomingGrpc", x>> :
                        x \in Modes \cup {"gone", "Settings", "SettingsAck", "DeleteHub",
                                          "UpdateFirmware", "Heartbeat"}},
     data      |-> {<<"HubInserted", "hub">>, <<"NetworksUpdated", "networks">>,
                    <<"ToServer", "Batch">>},
     heartbeat |-> {<<"ServerStatus", "server">>}]
-----------------------------------------------------------------------------
\* A task at its select! takes a message and begins the turn.
Takes(t, c) ==
    /\ t \notin DOMAIN agenda
    /\ LET m == Head(chan[c]) IN
       \E turn \in Turns(t, c, m) : agenda' = With(agenda, t, turn)
    /\ chan' = With(chan, c, Tail(chan[c]))
    /\ UNCHANGED <<waiting, cache>>

\* The server awaits the start before it changes networks.
Loading ==
    \/ \E c \in DOMAIN chan : \E i \in DOMAIN chan[c] : chan[c][i][1] = "BatchNetwork"
    \/ \E t \in DOMAIN agenda : \E i \in DOMAIN agenda[t] :
         agenda[t][i].do # "free" /\ agenda[t][i].msg[1] = "BatchNetwork"

\* The select! of another service has something for Core.
Arrives(s, room) ==
    /\ s \notin DOMAIN agenda
    /\ \E m \in Inputs[s] :
          /\ m[2] \in Kinds /\ Weight("core", m) <= room
          /\ m[2] \in Notices => ~Loading
          /\ agenda' = With(agenda, s, <<Send(<<s, "core">>, m)>>)
    /\ UNCHANGED <<chan, waiting, cache>>

\* Variant: unbounded channels.
Sends_Unbounded(t) ==
    /\ Head(agenda[t]).do = "send"
    /\ LET s == Head(agenda[t]) IN
       chan' = With(chan, s.to, Append(At(chan, s.to), s.msg))
    /\ agenda' = With(agenda, t, Tail(agenda[t]))
    /\ UNCHANGED <<waiting, cache>>

\* A message goes on as soon as there is room.
Sends(t) ==
    /\ Head(agenda[t]).do = "send"
    /\ LET s == Head(agenda[t])
           q == At(chan, s.to)
       IN  Len(q) < Cap /\ chan' = With(chan, s.to, Append(q, s.msg))
    /\ agenda' = With(agenda, t, Tail(agenda[t]))
    /\ UNCHANGED <<waiting, cache>>

WantsLock(t) == Head(agenda[t]).do \in {"read", "write"}

\* The lock is given in the order it was asked for: a reader waits behind a
\* writer that waits.
Ahead(t) == {waiting[i] : i \in {i \in DOMAIN waiting :
                                   \A j \in 1..i : waiting[j] # t}}
LockWaitsFor(t) == Against(Head(agenda[t]).do) \cup Ahead(t)

Queues(t) ==
    /\ WantsLock(t) /\ ~ Contains(waiting, t)
    /\ LockWaitsFor(t) # {}
    /\ waiting' = Append(waiting, t)
    /\ UNCHANGED <<chan, agenda, cache>>

\* handle_action is what changes the cache, and the load at the start.
HasLock(t) ==
    /\ WantsLock(t)
    /\ LockWaitsFor(t) = {}
    /\ waiting' = IF Contains(waiting, t) THEN Tail(waiting) ELSE waiting
    /\ LET m == Head(agenda[t]).msg IN
       /\ \E turn \in UnderLock(t, m) :
              agenda' = With(agenda, t, turn \o Tail(agenda[t]))
       /\ cache' = IF m = <<"action", "gone">> THEN "absent"
                   ELSE IF m[1] \in {"action", "BatchNetwork"} THEN m[2] ELSE cache
    /\ UNCHANGED chan

\* The arm ends, and the guard with it.
Frees(t) ==
    /\ Head(agenda[t]).do = "free"
    /\ agenda' = With(agenda, t, Tail(agenda[t]))
    /\ UNCHANGED <<chan, waiting, cache>>

Next ==
    \/ \E room \in {Load - UnderWay} : \E s \in DOMAIN Inputs : Arrives(s, room)
    \/ \E c \in DOMAIN chan : Takes(Reader(c), c)
    \/ \E t \in DOMAIN agenda : Sends(t) \/ Queues(t) \/ HasLock(t) \/ Frees(t)

Spec == Init /\ [][Next]_vars
-----------------------------------------------------------------------------
\* The variables have their types; channels keep to their capacity, a writer
\* holds the lock alone, and no more is under way than was let in: no task
\* multiplies what it was given (core/domain.rs 235-509 sends one message for
\* one, and so does every select! of Turns).
TypeOK ==
    /\ DOMAIN chan \subseteq Channels /\ DOMAIN agenda \subseteq Tasks
    /\ \A c \in DOMAIN chan : Len(chan[c]) \in 1..Cap
    /\ \A t \in DOMAIN agenda : agenda[t] # <<>>
    /\ \A t \in Holders({"write"}) : Holders({"read", "write"}) = {t}
    /\ UnderWay <= Load
    /\ waiting \in Seq(Tasks) /\ cache \in Modes \cup {"absent"}

WaitsFor(t) ==
    LET s == Head(agenda[t]) IN
    CASE s.do = "free" -> {}
      [] s.do = "send" -> IF Len(At(chan, s.to)) = Cap
                          THEN {Reader(s.to)} ELSE {}
      [] OTHER         -> LockWaitsFor(t)

\* No tasks wait for each other in a circle, for room in a channel or for the
\* lock: whoever holds the lock over a send (message/logic.rs 278-357,
\* network/logic.rs 97-107 and 116-148, firmware/logic.rs 70-114) is served by
\* tasks that need no lock, or the lock is no part of the circle.  What makes
\* it true is the bound on the messages under way, Load < 2 * Cap + 2: with
\* one more, MessageService and Core wait for each other.
NoCircularWait ==
    LET blocked == {t \in DOMAIN agenda : WaitsFor(t) # {}} IN
    ~ \E S \in (SUBSET blocked) \ {{}} : \A t \in S : WaitsFor(t) \cap S # {}

\* What is on the way from the cache to the hubs, in each task and channel.
Holds(t) == [i \in DOMAIN At(agenda, t) |->
               IF agenda[t][i].do = "free" THEN <<"free", "lock">> ELSE agenda[t][i].msg]
Way ==
    <<Holds("network_admin"), At(chan, <<"network_admin", "network">>),
      Holds("network"),       At(chan, <<"network", "core">>),
      Holds("core"),          At(chan, <<"core", "message">>),
      Holds("message"),       At(chan, <<"message", "msg_to_hub">>),
      Holds("msg_to_hub")>>

\* The notice that was sent last tells x.
IsNotice(m) == m[1] \in {"ToHub", "topic"} /\ m[2] \in Notices
Newest(x) ==
    LET way == Way IN
    \E k \in DOMAIN way : \E i \in DOMAIN way[k] :
        /\ IsNotice(way[k][i]) /\ way[k][i][2] = x
        /\ \A l \in 1..k : \A j \in DOMAIN way[l] :
              l < k \/ j > i => ~ IsNotice(way[l][j])

\* The last notice that is on its way to the hubs names the mode of the cache:
\* of two changes the hubs never hear the older one last, and none is told
\* before it was made (network/logic.rs:79-84, 5 tasks and 4 channels).
NewestNoticeIsCurrent == \A x \in Modes : cache # x => ~ Newest(x)
=============================================================================
