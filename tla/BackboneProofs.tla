----------------------------- MODULE BackboneProofs ----------------------------
(***************************************************************************)
(* Proofs about the way of the messages, Backbone, for every capacity of   *)
(* the channels, every load and every number of tables; and about the      *)
(* uplink, GrpcLink, for every capacity and every bound on the uploads.    *)
(*                                                                         *)
(* The types say which messages a channel carries and which steps a task   *)
(* takes with each.  Every message has a weight, what it may still become, *)
(* and every place where it waits has that many units: a turn never weighs *)
(* more than the message it began with, so the load stays bounded.         *)
(*                                                                         *)
(* A task that holds the lock sends to tasks that never ask for it, so a   *)
(* circle contains a task that waits for room and is served by another one *)
(* that does: two channels are full, and two agendas hold a message more.  *)
(*                                                                         *)
(* A notice goes from the cache to the hubs by five tasks and four         *)
(* channels in turn, the stages.  Each step moves it from the head of one  *)
(* stage to the end of the next, and a change of the cache puts its notice *)
(* into the first.                                                         *)
(***************************************************************************)
EXTENDS Backbone, GrpcLink, Integers, SequenceTheorems, FiniteSetTheorems, FunctionTheorems,
        WellFoundedInduction, TLAPS
-----------------------------------------------------------------------------
(* What the channels carry and the tasks do, and the turns of the loops.   *)

\* What the channels carry.
Changes     == Notices \cup {"Settings", "DeleteHub", "UpdateFirmware", "Heartbeat"}
HubMsgs     == {<<"IncomingMessage", "Report">>, <<"IncomingMessage", "LinkageRequest">>}
LocalMsgs   == {<<"LocalStatus", "local">>}
GrpcMsgs    == {<<"IncomingGrpc", x>> : x \in Changes \cup {"SettingsAck"}}
StatusMsgs  == {<<"ServerStatus", "server">>}
Batches     == {<<"BatchNetwork", x>> : x \in Modes}
Requests    == {<<"FromHub", "LinkageRequest">>}
Reports     == {<<"FromHub", "Report">>}
Updates     == {<<"FromServer", "UpdateFirmware">>}
Beats       == {<<"FromServer", "Heartbeat">>}
Orders      == {<<"FromServer", x>> : x \in Changes \ {"UpdateFirmware", "Heartbeat"}}
ToHubs      == {<<"ToHub", x>> : x \in Notices \cup {"request", "LinkageAck"}}
Acks        == {<<"ToHub", "SettingsAck">>}
ToServers   == {<<"ToServer", x>> : x \in {"Batch", "message", "NetworkAck"}}
EdgeUploads == {<<"EdgeUpload", "upload">>}
Publishings == {<<"Serialized", "message">>}
Commands    == {<<"DataCommand", "command">>}
Ready       == {<<"NetworksReady", "networks">>}
Inserted    == {<<"HubInserted", "hub">>}
Updated     == {<<"NetworksUpdated", "networks">>}
Changed     == {<<"NetworkChanged", x>> : x \in Notices}
HubChanged  == {<<"HubChanged", "hub">>}

TxMsgs      == Reports \cup Requests \cup Updates \cup Beats \cup Orders \cup EdgeUploads
                 \cup Publishings
FirmwareMsgs == {<<"ToHub", "request">>, <<"ToServer", "message">>}

\* The messages of each channel: what its reader has an arm for.
Msgs(c) ==
    CASE c = <<"mqtt", "core">>      -> HubMsgs \cup LocalMsgs
      [] c = <<"grpc", "core">>      -> GrpcMsgs
      [] c = <<"data", "core">>      ->
             Batches \cup Inserted \cup Updated \cup {<<"ToServer", "Batch">>}
      [] c = <<"heartbeat", "core">> -> StatusMsgs
      [] c = <<"message", "core">>   -> TxMsgs
      [] c = <<"network", "core">>   -> ToHubs \cup Ready \cup Commands
      [] c = <<"firmware", "core">>  -> FirmwareMsgs
      [] c = <<"core", "mqtt">>      -> Publishings \cup Ready \cup Updated
      [] c = <<"core", "grpc">>      -> EdgeUploads
      [] c = <<"core", "data">>      -> StatusMsgs \cup Commands \cup Reports
      [] c = <<"core", "heartbeat">> -> Beats
      [] c = <<"core", "message">>   ->
             HubMsgs \cup LocalMsgs \cup GrpcMsgs \cup StatusMsgs \cup ToHubs \cup ToServers
      [] c = <<"core", "network">>   -> Batches \cup Requests \cup Orders
      [] c = <<"core", "firmware">>  -> Updates
      [] c = Tx                      -> TxMsgs
      [] c = <<"message", "msg_to_hub">>         -> ToHubs
      [] c = <<"message", "msg_from_hub">>       -> HubMsgs \cup LocalMsgs \cup StatusMsgs
      [] c = <<"message", "msg_to_server">>      -> StatusMsgs \cup ToServers
      [] c = <<"message", "msg_from_server">>    -> GrpcMsgs
      [] c = <<"msg_from_hub", "msg_to_hub">>    -> LocalMsgs
      [] c = <<"msg_from_hub", "msg_to_server">> -> {<<"ToServer", "message">>}
      [] c = <<"msg_from_server", "msg_to_hub">> -> Acks
      [] c = <<"FromServer", "network_admin">>   -> Orders
      [] c = <<"FromHub", "network_admin">>      -> Requests
      [] c = <<"BatchNetwork", "network_admin">> -> Batches
      [] c = <<"network_admin", "network">>      -> ToHubs \cup Ready
      [] c = <<"network_dba", "network">>        -> Commands
      [] c = <<"networks", "network_dba">>       -> Changed
      [] c = <<"hubs", "network_dba">>           -> HubChanged
      [] c = <<"firmware", "update_firmware">>   -> Updates
      [] c = <<"update_firmware", "firmware">>   -> FirmwareMsgs

\* The channels each task sends into.
OutOf(t) ==
    CASE t = "core"            -> {<<"core", s>> : s \in Services}
      [] t = "message"         -> {<<"message", x>> : x \in
             {"core", "msg_to_hub", "msg_from_hub", "msg_to_server", "msg_from_server"}}
      [] t = "network"         -> {<<"network", "core">>} \cup
             {<<v, "network_admin">> : v \in {"FromServer", "FromHub", "BatchNetwork"}}
      [] t = "firmware"        -> {<<"firmware", "core">>, <<"firmware", "update_firmware">>}
      [] t = "msg_from_hub"    ->
             {Tx, <<"msg_from_hub", "msg_to_hub">>, <<"msg_from_hub", "msg_to_server">>}
      [] t = "msg_from_server" -> {Tx, <<"msg_from_server", "msg_to_hub">>}
      [] t \in {"msg_to_hub", "msg_to_server"} -> {Tx}
      [] t = "network_admin"   -> {<<"network_admin", "network">>,
             <<"networks", "network_dba">>, <<"hubs", "network_dba">>}
      [] t = "network_dba"     -> {<<"network_dba", "network">>}
      [] t = "update_firmware" -> {<<"update_firmware", "firmware">>}
      [] t \in Others          -> {<<t, "core">>}

\* The steps a task takes: what it sends, what it asks the lock for, what it frees.
SendsOf(t) == UNION {{Send(c, m) : m \in Msgs(c)} : c \in OutOf(t)}
LocksOf(t) ==
    CASE t = "msg_from_hub"    -> {Lock("read", <<"IncomingMessage", "Report">>)}
      [] t = "msg_to_hub"      -> {Lock("read", m) : m \in ToHubs \cup Acks} \cup
             {Lock("read", <<"topic", x>>) : x \in Notices \cup {"request"}}
      [] t = "network_admin"   -> {Lock("read", <<"FromServer", x>>) : x \in Notices} \cup
             {Lock("write", <<"action", x>>) : x \in Notices} \cup
             {Lock("write", m) : m \in Batches \cup Requests \cup {<<"FromServer", "DeleteHub">>}}
      [] t = "update_firmware" -> {Lock("read", m) : m \in Updates}
      [] OTHER -> {}
FreesOf(t) ==
    CASE t \in {"msg_from_hub", "update_firmware"} -> {Free("read")}
      [] t = "network_admin"   -> {Free("write")}
      [] OTHER -> {}
StepsOf(t) == SendsOf(t) \cup LocksOf(t) \cup FreesOf(t)

\* The conjuncts of the invariant: the channels carry their messages; a guard is
\* held over sends to tasks that never ask for the lock (Calm), a task asks for the
\* lock with nothing else left to do (Shape); who queues for the lock wants it, once.
ChanOK ==
    /\ DOMAIN chan \subseteq {c \in Channels : Reader(c) \in Tasks}
    /\ \A c \in DOMAIN chan : chan[c] \in Seq(Msgs(c)) /\ Len(chan[c]) \in 1..Cap
Calm(s) == s.to # <<"msg_from_hub", "msg_to_hub">>
Shape(a) ==
    /\ \A i \in DOMAIN a : a[i].do \in {"read", "write"} => Len(a) = 1
    /\ \A i, j \in DOMAIN a : a[i].do = "free" /\ a[j].do = "send" => Calm(a[j])
AgendaOK ==
    /\ DOMAIN agenda \subseteq Tasks
    /\ \A t \in DOMAIN agenda :
         agenda[t] \in Seq(StepsOf(t)) /\ agenda[t] # <<>> /\ Shape(agenda[t])
WaitOK ==
    /\ waiting \in Seq(Tasks)
    /\ \A i \in DOMAIN waiting : waiting[i] \in DOMAIN agenda /\ WantsLock(waiting[i])
    /\ \A i, j \in DOMAIN waiting : waiting[i] = waiting[j] => i = j
Exclusive == \A t \in Holders({"write"}) : Holders({"read", "write"}) = {t}
Inv == ChanOK /\ AgendaOK /\ WaitOK /\ Exclusive /\ cache \in Modes \cup {"absent"}

\* While the networks of the start are under way, no change is.
Passes(m) == m[1] # "BatchNetwork" => m[2] \notin Notices
StartIsFirst ==
    Loading =>
      /\ \A c \in DOMAIN chan : \A i \in DOMAIN chan[c] : Passes(chan[c][i])
      /\ \A t \in DOMAIN agenda : \A i \in DOMAIN agenda[t] :
           agenda[t][i].do # "free" => Passes(agenda[t][i].msg)
\* A message that comes of another one: what the start brings stays apart from
\* the changes that come later, and a notice is passed on as it is.
Keeps(n, m) ==
    /\ n[1] = "BatchNetwork" => m[1] = "BatchNetwork"
    /\ n[1] # "BatchNetwork" /\ n[2] \in Notices => m[1] # "BatchNetwork" /\ m[2] \in Notices
Follows(n, m) == Keeps(n, m) /\ (IsNotice(n) => n = m)

\* A turn is over at once, passes the message on, splits it in two that weigh no
\* more, or uploads a batch.
GoodTurn(t, m, turn) ==
    \/ turn = <<>> /\ (IsNotice(m) => t = "msg_to_hub")
    \/ \E s \in SendsOf(t) \cup LocksOf(t) :
          /\ turn = <<s>> /\ StepWeight(t, s) <= Weight(t, m)
          /\ Follows(s.msg, m) /\ (IsNotice(m) => s.msg = m)
    \/ \E s1, s2 \in SendsOf(t) :
          /\ turn = <<s1, s2>>
          /\ StepWeight(t, s1) + StepWeight(t, s2) <= Weight(t, m)
          /\ ~ IsNotice(m) /\ Follows(s1.msg, m) /\ Follows(s2.msg, m)
          /\ ~ IsNotice(s1.msg) /\ ~ IsNotice(s2.msg)
    \/ /\ t = "msg_to_server" /\ m = <<"ToServer", "Batch">>
       /\ \E n \in 0..Tables : turn = [i \in 1..n |-> Send(Tx, <<"EdgeUpload", "upload">>)]

\* The parts of a step that sends.
LEMMA SendIs ==
  ASSUME NEW c, NEW m
  PROVE  Send(c, m).do = "send" /\ Send(c, m).to = c /\ Send(c, m).msg = m
BY DEF Send

\* The parts of a step that asks for the lock.
LEMMA LockIs ==
  ASSUME NEW x, NEW m
  PROVE  Lock(x, m).do = x /\ Lock(x, m).msg = m
BY DEF Lock

\* What goes into the channels, one by one.
LEMMA MsgsAre ==
  /\ Msgs(<<"mqtt", "core">>) = HubMsgs \cup LocalMsgs
  /\ Msgs(<<"grpc", "core">>) = GrpcMsgs
  /\ Msgs(<<"data", "core">>) = Batches \cup Inserted \cup Updated \cup {<<"ToServer", "Batch">>}
  /\ Msgs(<<"heartbeat", "core">>) = StatusMsgs
  /\ Msgs(<<"message", "core">>) = TxMsgs
  /\ Msgs(<<"network", "core">>) = ToHubs \cup Ready \cup Commands
  /\ Msgs(<<"firmware", "core">>) = FirmwareMsgs
  /\ Msgs(<<"core", "mqtt">>) = Publishings \cup Ready \cup Updated
  /\ Msgs(<<"core", "grpc">>) = EdgeUploads
  /\ Msgs(<<"core", "data">>) = StatusMsgs \cup Commands \cup Reports
  /\ Msgs(<<"core", "message">>) =
        HubMsgs \cup LocalMsgs \cup GrpcMsgs \cup StatusMsgs \cup ToHubs \cup ToServers
  /\ Msgs(<<"core", "heartbeat">>) = Beats
  /\ Msgs(<<"core", "network">>) = Batches \cup Requests \cup Orders
  /\ Msgs(<<"core", "firmware">>) = Updates
  /\ Msgs(Tx) = TxMsgs
  /\ Msgs(<<"message", "msg_to_hub">>) = ToHubs
  /\ Msgs(<<"message", "msg_from_hub">>) = HubMsgs \cup LocalMsgs \cup StatusMsgs
  /\ Msgs(<<"message", "msg_to_server">>) = StatusMsgs \cup ToServers
  /\ Msgs(<<"message", "msg_from_server">>) = GrpcMsgs
  /\ Msgs(<<"msg_from_hub", "msg_to_hub">>) = LocalMsgs
  /\ Msgs(<<"msg_from_hub", "msg_to_server">>) = {<<"ToServer", "message">>}
  /\ Msgs(<<"msg_from_server", "msg_to_hub">>) = Acks
  /\ Msgs(<<"FromServer", "network_admin">>) = Orders
  /\ Msgs(<<"FromHub", "network_admin">>) = Requests
  /\ Msgs(<<"BatchNetwork", "network_admin">>) = Batches
  /\ Msgs(<<"network_admin", "network">>) = ToHubs \cup Ready
  /\ Msgs(<<"network_dba", "network">>) = Commands
  /\ Msgs(<<"networks", "network_dba">>) = Changed
  /\ Msgs(<<"hubs", "network_dba">>) = HubChanged
  /\ Msgs(<<"firmware", "update_firmware">>) = Updates
  /\ Msgs(<<"update_firmware", "firmware">>) = FirmwareMsgs
BY DEF Msgs, Tx

\* The channels each task sends into, one by one.
LEMMA OutsAre ==
  /\ OutOf("core") = {<<"core", s>> : s \in Services}
  /\ OutOf("message") = {<<"message", x>> : x \in
        {"core", "msg_to_hub", "msg_from_hub", "msg_to_server", "msg_from_server"}}
  /\ OutOf("network") = {<<"network", "core">>} \cup
        {<<v, "network_admin">> : v \in {"FromServer", "FromHub", "BatchNetwork"}}
  /\ OutOf("firmware") = {<<"firmware", "core">>, <<"firmware", "update_firmware">>}
  /\ OutOf("msg_from_hub") =
        {Tx, <<"msg_from_hub", "msg_to_hub">>, <<"msg_from_hub", "msg_to_server">>}
  /\ OutOf("msg_from_server") = {Tx, <<"msg_from_server", "msg_to_hub">>}
  /\ OutOf("msg_to_hub") = {Tx} /\ OutOf("msg_to_server") = {Tx}
  /\ OutOf("network_admin") = {<<"network_admin", "network">>,
        <<"networks", "network_dba">>, <<"hubs", "network_dba">>}
  /\ OutOf("network_dba") = {<<"network_dba", "network">>}
  /\ OutOf("update_firmware") = {<<"update_firmware", "firmware">>}
  /\ \A t \in Others : OutOf(t) = {<<t, "core">>}
BY DEF OutOf, Others

\* A message of one of its channels is a step of the task.
LEMMA SendTyped ==
  ASSUME NEW t, NEW c \in OutOf(t), NEW m \in Msgs(c)
  PROVE  Send(c, m) \in SendsOf(t)
BY DEF SendsOf

\* A step that sends weighs what its message weighs to the reader.
LEMMA SendWeighs ==
  ASSUME NEW t, NEW c, NEW m
  PROVE  StepWeight(t, Send(c, m)) = Weight(Reader(c), m)
BY SendIs DEF StepWeight

\* Every message weighs something.
LEMMA WeightTyped ==
  ASSUME NEW r, NEW m
  PROVE  Weight(r, m) \in Nat \ {0}
BY BoundsAssumption DEF Weight

\* A task passes a message on.
LEMMA PassesOn ==
  ASSUME NEW t, NEW c \in OutOf(t), NEW m \in Msgs(c), Weight(Reader(c), m) <= Weight(t, m)
  PROVE  GoodTurn(t, m, <<Send(c, m)>>)
<1>1. Send(c, m) \in SendsOf(t) /\ Send(c, m).msg = m
      /\ StepWeight(t, Send(c, m)) = Weight(Reader(c), m)
  BY SendIs, SendTyped, SendWeighs
<1>2. Follows(m, m)
  BY DEF Follows, Keeps
<1>3. QED
  BY <1>1, <1>2 DEF GoodTurn

\* It makes another of it.
LEMMA Makes ==
  ASSUME NEW t, NEW c \in OutOf(t), NEW n \in Msgs(c), NEW m,
         Weight(Reader(c), n) <= Weight(t, m), Follows(n, m), ~ IsNotice(m)
  PROVE  GoodTurn(t, m, <<Send(c, n)>>)
<1>1. Send(c, n) \in SendsOf(t) /\ Send(c, n).msg = n
      /\ StepWeight(t, Send(c, n)) = Weight(Reader(c), n)
  BY SendIs, SendTyped, SendWeighs
<1>2. QED
  BY <1>1 DEF GoodTurn

\* It makes two of it.
LEMMA MakesTwo ==
  ASSUME NEW t, NEW c1 \in OutOf(t), NEW n1 \in Msgs(c1),
         NEW c2 \in OutOf(t), NEW n2 \in Msgs(c2), NEW m,
         Weight(Reader(c1), n1) + Weight(Reader(c2), n2) <= Weight(t, m),
         Follows(n1, m), Follows(n2, m),
         ~ IsNotice(m), ~ IsNotice(n1), ~ IsNotice(n2)
  PROVE  GoodTurn(t, m, <<Send(c1, n1), Send(c2, n2)>>)
<1>1. Send(c1, n1) \in SendsOf(t) /\ Send(c2, n2) \in SendsOf(t)
  BY SendTyped
<1>2. /\ Send(c1, n1).msg = n1 /\ StepWeight(t, Send(c1, n1)) = Weight(Reader(c1), n1)
      /\ Send(c2, n2).msg = n2 /\ StepWeight(t, Send(c2, n2)) = Weight(Reader(c2), n2)
  BY SendIs, SendWeighs
<1>3. QED
  BY <1>1, <1>2 DEF GoodTurn

\* It asks for the lock first.
LEMMA Asks ==
  ASSUME NEW t, NEW x \in {"read", "write"}, NEW m, Lock(x, m) \in LocksOf(t)
  PROVE  GoodTurn(t, m, <<Lock(x, m)>>) 
<1>1. Lock(x, m).msg = m /\ Lock(x, m).do # "send" /\ Lock(x, m).do # "free"
  BY LockIs
<1>2. StepWeight(t, Lock(x, m)) = Weight(t, m)
  BY <1>1 DEF StepWeight
<1>3. Weight(t, m) <= Weight(t, m)
  BY WeightTyped
<1>4. QED
  BY <1>1, <1>2, <1>3 DEF GoodTurn, Follows, Keeps

\* Core.
LEMMA CoreTurns ==
  ASSUME NEW c \in Channels, Reader(c) = "core", NEW m \in Msgs(c)
  PROVE  GoodTurn("core", m, CoreRoutes(m))
<1>0. \A s \in Services : <<"core", s>> \in OutOf("core") /\ Reader(<<"core", s>>) = s
  BY OutsAre DEF Reader
<1>1. m \in (HubMsgs \cup LocalMsgs \cup GrpcMsgs \cup ToHubs \cup ToServers) \cup StatusMsgs
              \cup EdgeUploads \cup (Publishings \cup Ready) \cup (Commands \cup Reports)
              \cup (Batches \cup Requests \cup Orders) \cup Updates \cup Beats
              \cup Updated \cup Inserted
  <2>1. c \in {<<s, "core">> : s \in Services}
    BY DEF Channels, Reader, Tx, Services, Others
  <2>2. c # <<"message", "core">> => m \notin TxMsgs \/ TRUE
    OBVIOUS
  <2>3. QED
    BY <2>1, MsgsAre DEF Services, Others, FirmwareMsgs, TxMsgs, ToServers, ToHubs, Msgs, Tx
<1>2. CASE m \in HubMsgs \cup LocalMsgs \cup GrpcMsgs \cup ToHubs \cup ToServers
  <2>1. m[1] \in {"IncomingMessage", "LocalStatus", "IncomingGrpc", "ToHub", "ToServer"}
    BY <1>2 DEF HubMsgs, LocalMsgs, GrpcMsgs, ToHubs, ToServers
  <2>2. CoreRoutes(m) = <<Send(<<"core", "message">>, m)>>
    BY <2>1 DEF CoreRoutes
  <2>3. Weight("message", m) <= Weight("core", m)
    BY <2>1, BoundsAssumption DEF Weight
  <2>4. QED
    BY <1>0, <1>2, <2>2, <2>3, MsgsAre, PassesOn DEF Services
<1>3. CASE m \in StatusMsgs
  <2>1. m = <<"ServerStatus", "server">>
    BY <1>3 DEF StatusMsgs
  <2>2. CoreRoutes(m) = <<Send(<<"core", "message">>, m), Send(<<"core", "data">>, m)>>
    BY <2>1 DEF CoreRoutes
  <2>3. Weight("message", m) + Weight("data", m) <= Weight("core", m)
    BY <2>1 DEF Weight, Modes
  <2>4. ~ IsNotice(m) /\ Follows(m, m)
    BY <2>1 DEF IsNotice, Follows, Keeps
  <2>5. QED
    BY <1>0, <1>3, <2>2, <2>3, <2>4, MsgsAre, MakesTwo DEF Services, Others
<1>4. CASE m \in EdgeUploads
  BY <1>0, <1>4, MsgsAre, PassesOn DEF Services, Others, EdgeUploads, CoreRoutes, Weight, Modes
<1>5. CASE m \in Publishings \cup Ready
  <2>1. m[1] \in {"Serialized", "NetworksReady"} /\ m[2] \in {"message", "networks"}
    BY <1>5 DEF Publishings, Ready
  <2>2. CoreRoutes(m) = <<Send(<<"core", "mqtt">>, m)>>
    BY <2>1 DEF CoreRoutes
  <2>3. Weight("mqtt", m) <= Weight("core", m)
    BY <2>1 DEF Weight, Modes
  <2>4. QED
    BY <1>0, <1>5, <2>2, <2>3, MsgsAre, PassesOn DEF Services, Others
<1>6. CASE m \in Commands \cup Reports
  <2>1. m \in {<<"DataCommand", "command">>, <<"FromHub", "Report">>}
    BY <1>6 DEF Commands, Reports
  <2>2. CoreRoutes(m) = <<Send(<<"core", "data">>, m)>>
    BY <2>1 DEF CoreRoutes
  <2>3. Weight("data", m) <= Weight("core", m)
    BY <2>1 DEF Weight, Modes
  <2>4. QED
    BY <1>0, <1>6, <2>2, <2>3, MsgsAre, PassesOn DEF Services, Others
<1>7. CASE m \in Batches \cup Requests \cup Orders
  <2>1. /\ m[1] \in {"BatchNetwork", "FromHub", "FromServer"}
        /\ m # <<"FromHub", "Report">> /\ m # <<"FromServer", "UpdateFirmware">>
        /\ m # <<"FromServer", "Heartbeat">>
    BY <1>7 DEF Batches, Requests, Orders
  <2>2. CoreRoutes(m) = <<Send(<<"core", "network">>, m)>>
    BY <2>1 DEF CoreRoutes
  <2>3. Weight("network", m) <= Weight("core", m)
    BY <2>1, BoundsAssumption DEF Weight
  <2>4. QED
    BY <1>0, <1>7, <2>2, <2>3, MsgsAre, PassesOn DEF Services, Others
<1>8. CASE m \in Updates
  BY <1>0, <1>8, MsgsAre, PassesOn DEF Services, Others, Updates, CoreRoutes, Weight, Modes
<1>9. CASE m \in Updated
  <2> DEFINE ack == <<"ToServer", "NetworkAck">>
  <2>1. m = <<"NetworksUpdated", "networks">>
    BY <1>9 DEF Updated
  <2>2. CoreRoutes(m) = <<Send(<<"core", "mqtt">>, m), Send(<<"core", "message">>, ack)>>
    BY <2>1 DEF CoreRoutes
  <2>3. Weight("mqtt", m) + Weight("message", ack) <= Weight("core", m)
    BY <2>1 DEF Weight, Modes
  <2>4. ~ IsNotice(m) /\ Follows(m, m) /\ ~ IsNotice(ack) /\ Follows(ack, m)
    BY <2>1 DEF IsNotice, Follows, Keeps, Notices, Modes
  <2>5. m \in Msgs(<<"core", "mqtt">>) /\ ack \in Msgs(<<"core", "message">>)
    BY <1>9, MsgsAre DEF ToServers
  <2>6. QED
    BY <1>0, <2>2, <2>3, <2>4, <2>5, MakesTwo DEF Services, Others
<1>10. CASE m \in Inserted
  <2> DEFINE ack == <<"ToHub", "LinkageAck">>
  <2>1. m = <<"HubInserted", "hub">>
    BY <1>10 DEF Inserted
  <2>2. CoreRoutes(m) = <<Send(<<"core", "message">>, ack)>>
    BY <2>1 DEF CoreRoutes
  <2>3. Weight("message", ack) <= Weight("core", m)
    BY <2>1 DEF Weight, Modes
  <2>4. ~ IsNotice(m) /\ ~ IsNotice(ack) /\ Follows(ack, m)
    BY <2>1 DEF IsNotice, Follows, Keeps, Notices, Modes
  <2>5. ack \in Msgs(<<"core", "message">>)
    BY MsgsAre DEF ToHubs
  <2>6. QED
    BY <1>0, <2>2, <2>3, <2>4, <2>5, Makes DEF Services
<1>11. CASE m \in Beats
  BY <1>0, <1>11, MsgsAre, PassesOn DEF Services, Others, Beats, CoreRoutes, Weight, Modes
<1>12. QED
  BY <1>1, <1>2, <1>3, <1>4, <1>5, <1>6, <1>7, <1>8, <1>9, <1>10, <1>11

\* MessageService.
LEMMA MessageTurns ==
  ASSUME NEW c \in Channels, Reader(c) = "message", NEW m \in Msgs(c)
  PROVE  GoodTurn("message", m, MessageRoutes(c, m))
<1> DEFINE to(x) == <<"message", x>>
<1>0. \A x \in {"core", "msg_to_hub", "msg_from_hub", "msg_to_server", "msg_from_server"} :
        to(x) \in OutOf("message") /\ Reader(to(x)) = x
  BY OutsAre DEF Reader
<1>1. CASE c = Tx
  <2>0. m[1] \in {"FromHub", "FromServer", "EdgeUpload", "Serialized"}
    BY <1>1, MsgsAre DEF TxMsgs, Reports, Requests, Updates, Beats, Orders, EdgeUploads,
       Publishings
  <2>1. MessageRoutes(c, m) = <<Send(to("core"), m)>>
    BY <1>1, <2>0 DEF MessageRoutes
  <2>2. m \in Msgs(to("core"))
    BY <1>1, MsgsAre
  <2>3. Weight("core", m) <= Weight("message", m)
    BY <2>0, BoundsAssumption DEF Weight
  <2>4. QED
    BY <1>0, <2>1, <2>2, <2>3, PassesOn
<1>2. CASE c # Tx
  <2>0. m \in (HubMsgs \cup LocalMsgs) \cup GrpcMsgs \cup StatusMsgs \cup ToHubs \cup ToServers
    <3>1. c = <<"core", "message">>
      BY <1>2 DEF Channels, Reader
    <3>2. QED
      BY <3>1, MsgsAre
  <2>1. CASE m \in HubMsgs \cup LocalMsgs
    <3>1. m[1] \in {"IncomingMessage", "LocalStatus"}
      BY <2>1 DEF HubMsgs, LocalMsgs
    <3>2. MessageRoutes(c, m) = <<Send(to("msg_from_hub"), m)>>
      BY <1>2, <3>1 DEF MessageRoutes
    <3>3. Weight("msg_from_hub", m) <= Weight("message", m)
      BY <3>1, BoundsAssumption DEF Weight
    <3>4. QED
      BY <1>0, <2>1, <3>2, <3>3, MsgsAre, PassesOn
  <2>2. CASE m \in GrpcMsgs
    <3>1. m[1] = "IncomingGrpc"
      BY <2>2 DEF GrpcMsgs
    <3>2. MessageRoutes(c, m) = <<Send(to("msg_from_server"), m)>>
      BY <1>2, <3>1 DEF MessageRoutes
    <3>3. Weight("msg_from_server", m) <= Weight("message", m)
      BY <3>1, BoundsAssumption DEF Weight
    <3>4. QED
      BY <1>0, <2>2, <3>2, <3>3, MsgsAre, PassesOn
  <2>3. CASE m \in StatusMsgs
    <3>1. m = <<"ServerStatus", "server">>
      BY <2>3 DEF StatusMsgs
    <3>2. MessageRoutes(c, m) = <<Send(to("msg_from_hub"), m), Send(to("msg_to_server"), m)>>
      BY <1>2, <3>1 DEF MessageRoutes
    <3>3. Weight("msg_from_hub", m) + Weight("msg_to_server", m) <= Weight("message", m)
      BY <3>1 DEF Weight, Modes
    <3>4. ~ IsNotice(m) /\ Follows(m, m)
      BY <3>1 DEF IsNotice, Follows, Keeps
    <3>5. QED
      BY <1>0, <2>3, <3>2, <3>3, <3>4, MsgsAre, MakesTwo
  <2>4. CASE m \in ToHubs
    <3>1. m[1] = "ToHub"
      BY <2>4 DEF ToHubs
    <3>2. MessageRoutes(c, m) = <<Send(to("msg_to_hub"), m)>>
      BY <1>2, <3>1 DEF MessageRoutes
    <3>3. Weight("msg_to_hub", m) <= Weight("message", m)
      BY <3>1, BoundsAssumption DEF Weight
    <3>4. QED
      BY <1>0, <2>4, <3>2, <3>3, MsgsAre, PassesOn
  <2>5. CASE m \in ToServers
    <3>1. m[1] = "ToServer"
      BY <2>5 DEF ToServers
    <3>2. MessageRoutes(c, m) = <<Send(to("msg_to_server"), m)>>
      BY <1>2, <3>1 DEF MessageRoutes
    <3>3. Weight("msg_to_server", m) <= Weight("message", m)
      BY <3>1, BoundsAssumption DEF Weight
    <3>4. QED
      BY <1>0, <2>5, <3>2, <3>3, MsgsAre, PassesOn
  <2>6. QED
    BY <2>0, <2>1, <2>2, <2>3, <2>4, <2>5
<1>3. QED
  BY <1>1, <1>2

\* NetworkService.
LEMMA NetworkTurns ==
  ASSUME NEW c \in Channels, Reader(c) = "network", NEW m \in Msgs(c)
  PROVE  GoodTurn("network", m, NetworkRoutes(c, m))
<1>1. CASE c = <<"core", "network">>
  <2>1. m[1] \in {"BatchNetwork", "FromHub", "FromServer"} /\ m \in Msgs(<<m[1], "network_admin">>)
    BY <1>1, MsgsAre DEF Batches, Requests, Orders
  <2>2. NetworkRoutes(c, m) = <<Send(<<m[1], "network_admin">>, m)>>
    BY <1>1 DEF NetworkRoutes
  <2>3. Weight("network_admin", m) <= Weight("network", m)
    BY <2>1, BoundsAssumption DEF Weight
  <2>4. QED
    BY <2>1, <2>2, <2>3, OutsAre, PassesOn DEF Reader
<1>2. CASE c # <<"core", "network">>
  <2>1. c \in {<<"network_admin", "network">>, <<"network_dba", "network">>}
    BY <1>2 DEF Channels, Reader, Tx
  <2>2. NetworkRoutes(c, m) = <<Send(<<"network", "core">>, m)>>
    BY <1>2 DEF NetworkRoutes
  <2>3. m[1] \in {"ToHub", "NetworksReady", "DataCommand"} /\ m \in Msgs(<<"network", "core">>)
    BY <2>1, MsgsAre DEF ToHubs, Ready, Commands
  <2>4. Weight("core", m) <= Weight("network", m)
    BY <2>3, BoundsAssumption DEF Weight
  <2>5. QED
    BY <2>2, <2>3, <2>4, OutsAre, PassesOn DEF Reader
<1>3. QED
  BY <1>1, <1>2

\* FirmwareService.
LEMMA FirmwareTurns ==
  ASSUME NEW c \in Channels, Reader(c) = "firmware", NEW m \in Msgs(c)
  PROVE  GoodTurn("firmware", m, FirmwareRoutes(c, m))
<1>1. CASE c = <<"core", "firmware">>
  <2>1. m[1] = "FromServer" /\ m \in Msgs(<<"firmware", "update_firmware">>)
    BY <1>1, MsgsAre DEF Updates
  <2>2. FirmwareRoutes(c, m) = <<Send(<<"firmware", "update_firmware">>, m)>>
    BY <1>1 DEF FirmwareRoutes
  <2>3. Weight("update_firmware", m) <= Weight("firmware", m)
    BY <2>1, BoundsAssumption DEF Weight
  <2>4. QED
    BY <2>1, <2>2, <2>3, OutsAre, PassesOn DEF Reader
<1>2. CASE c # <<"core", "firmware">>
  <2>1. c = <<"update_firmware", "firmware">>
    BY <1>2 DEF Channels, Reader, Tx
  <2>2. FirmwareRoutes(c, m) = <<Send(<<"firmware", "core">>, m)>>
    BY <1>2 DEF FirmwareRoutes
  <2>3. m[1] \in {"ToHub", "ToServer"} /\ m \in Msgs(<<"firmware", "core">>)
    BY <2>1, MsgsAre DEF FirmwareMsgs
  <2>4. Weight("core", m) <= Weight("firmware", m)
    BY <2>3, BoundsAssumption DEF Weight
  <2>5. QED
    BY <2>2, <2>3, <2>4, OutsAre, PassesOn DEF Reader
<1>3. QED
  BY <1>1, <1>2

\* A turn without a step ends with the message.
LEMMA Drops ==
  ASSUME NEW t, NEW m, ~ IsNotice(m) \/ t = "msg_to_hub"
  PROVE  GoodTurn(t, m, <<>>)
BY DEF GoodTurn

\* msg_from_hub.
LEMMA FromHubTurnsGood ==
  ASSUME NEW c \in Channels, Reader(c) = "msg_from_hub", NEW m \in Msgs(c),
         NEW turn \in FromHubTurns(m)
  PROVE  GoodTurn("msg_from_hub", m, turn)
<1> DEFINE t == "msg_from_hub"
<1>0. m \in HubMsgs \cup LocalMsgs \cup StatusMsgs
  <2>1. c = <<"message", "msg_from_hub">>
    BY DEF Channels, Reader, Tx, Services, Others
  <2>2. QED
    BY <2>1, MsgsAre
<1>1. ~ IsNotice(m)
  BY <1>0 DEF IsNotice, HubMsgs, LocalMsgs, StatusMsgs
<1>2. CASE m \in LocalMsgs
  <2>1. m = <<"LocalStatus", "local">>
    BY <1>2 DEF LocalMsgs
  <2>2. turn = <<Send(<<t, "msg_to_hub">>, m)>>
    BY <2>1 DEF FromHubTurns
  <2>3. Weight("msg_to_hub", m) <= Weight(t, m)
    BY <2>1 DEF Weight, Modes
  <2>4. QED
    BY <1>2, <2>2, <2>3, OutsAre, MsgsAre, PassesOn DEF Reader
<1>3. CASE m \in StatusMsgs
  <2>1. turn = <<>>
    BY <1>3 DEF StatusMsgs, FromHubTurns
  <2>2. QED
    BY <1>1, <2>1, Drops
<1>4. CASE m \in HubMsgs
  <2>1. m[1] = "IncomingMessage" /\ m[2] \in {"Report", "LinkageRequest"}
    BY <1>4 DEF HubMsgs
  <2> DEFINE n == <<"FromHub", m[2]>>
  <2>2. turn = <<Send(Tx, n)>> \/ (turn = <<Lock("read", m)>> /\ m[2] = "Report")
    BY <2>1 DEF FromHubTurns
  <2>3. CASE turn = <<Send(Tx, n)>>
    <3>1. n \in Msgs(Tx)
      BY <2>1, MsgsAre DEF TxMsgs, Reports, Requests
    <3>2. Weight("message", n) <= Weight(t, m)
      BY <2>1 DEF Weight, Modes
    <3>3. Follows(n, m)
      BY <2>1 DEF Follows, Keeps, IsNotice, Notices, Modes
    <3>4. QED
      BY <1>1, <2>3, <3>1, <3>2, <3>3, OutsAre, Makes DEF Reader, Tx
  <2>4. CASE turn = <<Lock("read", m)>> /\ m[2] = "Report"
    <3>1. Lock("read", m) \in LocksOf(t)
      BY <1>4, <2>4 DEF LocksOf, HubMsgs
    <3>2. QED
      BY <2>4, <3>1, Asks
  <2>5. QED
    BY <2>2, <2>3, <2>4
<1>5. QED
  BY <1>0, <1>2, <1>3, <1>4

\* msg_from_server.
LEMMA FromServerTurnsGood ==
  ASSUME NEW c \in Channels, Reader(c) = "msg_from_server", NEW m \in Msgs(c),
         NEW turn \in FromServerTurns(m)
  PROVE  GoodTurn("msg_from_server", m, turn)
<1> DEFINE t == "msg_from_server"
<1>0. m \in GrpcMsgs
  <2>1. c = <<"message", "msg_from_server">>
    BY DEF Channels, Reader, Tx, Services, Others
  <2>2. QED
    BY <2>1, MsgsAre
<1>1. m[1] = "IncomingGrpc" /\ ~ IsNotice(m)
  BY <1>0 DEF IsNotice, GrpcMsgs
<1>2. CASE m[2] = "SettingsAck"
  <2> DEFINE n == <<"ToHub", m[2]>>
  <2>1. turn = <<Send(<<t, "msg_to_hub">>, n)>>
    BY <1>2 DEF FromServerTurns
  <2>2. n \in Msgs(<<t, "msg_to_hub">>)
    BY <1>2, MsgsAre DEF Acks
  <2>3. Weight("msg_to_hub", n) <= Weight(t, m)
    BY <1>1, <1>2 DEF Weight, Modes
  <2>4. Follows(n, m)
    BY <1>1, <1>2 DEF Follows, Keeps, IsNotice, Notices, Modes
  <2>5. QED
    BY <1>1, <2>1, <2>2, <2>3, <2>4, OutsAre, Makes DEF Reader
<1>3. CASE m[2] # "SettingsAck"
  <2> DEFINE n == <<"FromServer", m[2]>>
  <2>1. turn = <<Send(Tx, n)>>
    BY <1>3 DEF FromServerTurns
  <2>2. n \in Msgs(Tx)
    BY <1>0, <1>3, MsgsAre DEF TxMsgs, GrpcMsgs, Orders, Updates, Beats
  <2>3. Weight("message", n) <= Weight(t, m)
    BY <1>1, BoundsAssumption DEF Weight
  <2>4. Follows(n, m)
    BY <1>1 DEF Follows, Keeps, IsNotice
  <2>5. QED
    BY <1>1, <2>1, <2>2, <2>3, <2>4, OutsAre, Makes DEF Reader, Tx
<1>4. QED
  BY <1>2, <1>3

\* msg_to_server.
LEMMA ToServerTurnsGood ==
  ASSUME NEW c \in Channels, Reader(c) = "msg_to_server", NEW m \in Msgs(c),
         NEW turn \in ToServerTurns(m)
  PROVE  GoodTurn("msg_to_server", m, turn)
<1> DEFINE t == "msg_to_server"
           n == <<"EdgeUpload", "upload">>
<1>0. m \in StatusMsgs \cup ToServers
  <2>1. c \in {<<"message", t>>, <<"msg_from_hub", t>>}
    BY DEF Channels, Reader, Tx, Services, Others
  <2>2. QED
    BY <2>1, MsgsAre DEF ToServers
<1>1. m[1] \in {"ServerStatus", "ToServer"} /\ ~ IsNotice(m)
  BY <1>0 DEF IsNotice, StatusMsgs, ToServers
<1>2. CASE turn = <<>>
  BY <1>1, <1>2, Drops
<1>3. CASE turn = <<Send(Tx, n)>>
  <2>1. n \in Msgs(Tx) /\ Follows(n, m)
    BY MsgsAre DEF TxMsgs, EdgeUploads, Follows, Keeps, IsNotice, Notices, Modes
  <2>2. Weight("message", n) = 1 /\ Weight(t, m) \in Nat \ {0}
    BY WeightTyped DEF Weight, Modes
  <2>3. QED
    BY <1>1, <1>3, <2>1, <2>2, OutsAre, Makes DEF Reader, Tx
<1>4. CASE m = <<"ToServer", "Batch">> /\ \E k \in 0..Tables : turn = [i \in 1..k |-> Send(Tx, n)]
  BY <1>4 DEF GoodTurn
<1>5. QED
  BY <1>0, <1>2, <1>3, <1>4 DEF StatusMsgs, ToServers, ToServerTurns

\* msg_to_hub.
LEMMA ToHubTurnsGood ==
  ASSUME NEW c \in Channels, Reader(c) = "msg_to_hub", NEW m \in Msgs(c),
         NEW turn \in ToHubTurns(m)
  PROVE  GoodTurn("msg_to_hub", m, turn)
<1>1. m \in LocalMsgs \/ m \in ToHubs \cup Acks
  <2>1. c \in {<<"message", "msg_to_hub">>, <<"msg_from_hub", "msg_to_hub">>,
               <<"msg_from_server", "msg_to_hub">>}
    BY DEF Channels, Reader, Tx, Services, Others
  <2>2. QED
    BY <2>1, MsgsAre
<1>2. CASE turn = <<>>
  BY <1>2, Drops
<1>3. CASE m \in ToHubs \cup Acks /\ turn = <<Lock("read", m)>>
  BY <1>3, Asks DEF LocksOf
<1>4. QED
  BY <1>1, <1>2, <1>3 DEF LocalMsgs, ToHubTurns

\* network_admin.
LEMMA AdminTurnsGood ==
  ASSUME NEW c \in Channels, Reader(c) = "network_admin", NEW m \in Msgs(c),
         NEW turn \in AdminTurns(m)
  PROVE  GoodTurn("network_admin", m, turn)
<1> DEFINE t == "network_admin"
<1>0. m \in Batches \cup Requests \cup Orders
  <2>1. c \in {<<"FromServer", t>>, <<"FromHub", t>>, <<"BatchNetwork", t>>}
    BY DEF Channels, Reader, Tx, Services, Others
  <2>2. QED
    BY <2>1, MsgsAre
<1>1. m[1] \in {"BatchNetwork", "FromHub", "FromServer"} /\ ~ IsNotice(m)
  BY <1>0 DEF IsNotice, Batches, Requests, Orders
<1>2. CASE m \in Orders /\ m[2] \in Notices
  <2>1. turn = <<Lock("read", m)>>
    BY <1>2 DEF AdminTurns, Orders, Notices, Modes
  <2>2. m = <<"FromServer", m[2]>>
    BY <1>2 DEF Orders
  <2>3. Lock("read", m) \in LocksOf(t)
    BY <1>2, <2>2 DEF LocksOf
  <2>4. QED
    BY <2>1, <2>3, Asks
<1>3. CASE m = <<"FromServer", "Settings">>
  <2> DEFINE n == <<"ToHub", "request">>
  <2>1. turn = <<Send(<<t, "network">>, n)>>
    BY <1>3 DEF AdminTurns, Notices, Modes
  <2>2. n \in Msgs(<<t, "network">>) /\ Follows(n, m)
    BY <1>3, MsgsAre DEF ToHubs, Follows, Keeps, IsNotice, Notices, Modes
  <2>3. Weight("network", n) <= Weight(t, m)
    BY <1>3 DEF Weight, Modes
  <2>4. QED
    BY <1>1, <2>1, <2>2, <2>3, OutsAre, Makes DEF Reader
<1>4. CASE m \in Batches \cup Requests \cup {<<"FromServer", "DeleteHub">>}
  <2>1. turn = <<Lock("write", m)>>
    BY <1>4 DEF AdminTurns, Batches, Requests, Notices, Modes
  <2>2. Lock("write", m) \in LocksOf(t)
    BY <1>4 DEF LocksOf
  <2>3. QED
    BY <2>1, <2>2, Asks
<1>5. QED
  BY <1>0, <1>2, <1>3, <1>4 DEF Orders, Changes

\* network_dba.
LEMMA DbaTurnsGood ==
  ASSUME NEW c \in Channels, Reader(c) = "network_dba", NEW m \in Msgs(c),
         NEW turn \in DbaTurns(m)
  PROVE  GoodTurn("network_dba", m, turn)
<1> DEFINE t == "network_dba"
           n == <<"DataCommand", "command">>
           to == <<t, "network">>
<1>0. m \in Changed \cup HubChanged
  <2>1. c \in {<<"networks", t>>, <<"hubs", t>>}
    BY DEF Channels, Reader, Tx, Services, Others
  <2>2. QED
    BY <2>1, MsgsAre
<1>1. m[1] \in {"NetworkChanged", "HubChanged"} /\ ~ IsNotice(m) /\ ~ IsNotice(n)
  BY <1>0 DEF IsNotice, Changed, HubChanged
<1>2. /\ n \in Msgs(to) /\ Follows(n, m) /\ to \in OutOf(t) /\ Reader(to) = "network"
      /\ Weight("network", n) = 1 /\ Weight(t, m) \in Nat \ {0}
  BY MsgsAre, OutsAre, WeightTyped
     DEF Commands, Follows, Keeps, IsNotice, Notices, Modes, Reader, Weight
<1>3. CASE m = <<"NetworkChanged", "gone">>
  <2>1. turn = <<Send(to, n), Send(to, n)>> /\ Weight(t, m) = 2
    BY <1>3 DEF DbaTurns, Weight
  <2>2. QED
    BY <1>1, <1>2, <2>1, MakesTwo
<1>4. CASE m # <<"NetworkChanged", "gone">>
  <2>1. turn = <<Send(to, n)>>
    BY <1>4 DEF DbaTurns
  <2>2. QED
    BY <1>1, <1>2, <2>1, Makes
<1>5. QED
  BY <1>3, <1>4

\* update_firmware_task.
LEMMA UpdateTurnsGood ==
  ASSUME NEW c \in Channels, Reader(c) = "update_firmware", NEW m \in Msgs(c),
         NEW turn \in UpdateTurns(m)
  PROVE  GoodTurn("update_firmware", m, turn)
<1> DEFINE t == "update_firmware"
           n == <<"ToServer", "message">>
           to == <<t, "firmware">>
<1>0. m = <<"FromServer", "UpdateFirmware">>
  <2>1. c = <<"firmware", t>>
    BY DEF Channels, Reader, Tx, Services, Others
  <2>2. QED
    BY <2>1, MsgsAre DEF Updates
<1>1. CASE turn = <<Lock("read", m)>>
  BY <1>0, <1>1, Asks DEF LocksOf, Updates
<1>2. CASE turn = <<Send(to, n)>>
  <2>1. /\ n \in Msgs(to) /\ Follows(n, m) /\ to \in OutOf(t) /\ Reader(to) = "firmware"
        /\ Weight("firmware", n) <= Weight(t, m) /\ ~ IsNotice(m)
    BY <1>0, MsgsAre, OutsAre
       DEF FirmwareMsgs, Follows, Keeps, IsNotice, Notices, Modes, Reader, Weight
  <2>2. QED
    BY <1>2, <2>1, Makes
<1>3. QED
  BY <1>1, <1>2 DEF UpdateTurns

\* What Core has for another service goes no further here.
LEMMA OthersTurns ==
  ASSUME NEW c \in Channels, Reader(c) \in Others, NEW m \in Msgs(c)
  PROVE  GoodTurn(Reader(c), m, <<>>)
<1>1. c \in {<<"core", s>> : s \in Others}
  BY DEF Channels, Reader, Tx, Services, Others
<1>2. ~ IsNotice(m)
  BY <1>1, MsgsAre DEF Others, Publishings, Ready, Updated, EdgeUploads, StatusMsgs,
     Commands, Reports, Beats, IsNotice
<1>3. QED
  BY <1>2, Drops

\* Whoever takes a message makes no more of it than it weighs.
LEMMA TurnsGood ==
  ASSUME NEW c \in Channels, Reader(c) \in Tasks, NEW m \in Msgs(c),
         NEW turn \in Turns(Reader(c), c, m)
  PROVE  GoodTurn(Reader(c), m, turn)
BY CoreTurns, MessageTurns, NetworkTurns, FirmwareTurns, FromHubTurnsGood,
   FromServerTurnsGood, ToServerTurnsGood, ToHubTurnsGood, AdminTurnsGood, DbaTurnsGood,
   UpdateTurnsGood, OthersTurns DEF Tasks, Others, Turns

\* What a task does once it has the lock: no more than the message weighs, and
\* what it holds the lock for is no business of msg_to_hub.
GoodHold(t, x, m, turn) ==
    \/ turn = <<>>
    \/ \E s \in SendsOf(t) \cup LocksOf(t) :
          turn = <<s>> /\ StepWeight(t, s) <= Weight(t, m) /\ Keeps(s.msg, m)
    \/ \E s1, s2 \in SendsOf(t) :
          /\ turn = <<s1, s2>> /\ StepWeight(t, s1) + StepWeight(t, s2) <= Weight(t, m)
          /\ Keeps(s1.msg, m) /\ Keeps(s2.msg, m)
    \/ \E s \in SendsOf(t) :
          /\ turn = <<s, Free(x)>> /\ Free(x) \in FreesOf(t)
          /\ StepWeight(t, s) <= Weight(t, m) /\ Keeps(s.msg, m) /\ Calm(s)
    \/ \E s1, s2 \in SendsOf(t) :
          /\ turn = <<s1, s2, Free(x)>> /\ Free(x) \in FreesOf(t)
          /\ StepWeight(t, s1) + StepWeight(t, s2) <= Weight(t, m)
          /\ Keeps(s1.msg, m) /\ Keeps(s2.msg, m) /\ Calm(s1) /\ Calm(s2)

\* msg_from_hub under the lock: the report, and the guard until it is sent.
LEMMA ReportHolds ==
  ASSUME NEW s \in LocksOf("msg_from_hub"), NEW turn \in UnderLock("msg_from_hub", s.msg)
  PROVE  GoodHold("msg_from_hub", s.do, s.msg, turn)
<1> DEFINE t == "msg_from_hub"
           n == <<"ToServer", "message">>
           to == <<t, "msg_to_server">>
<1>1. s.do = "read" /\ s.msg = <<"IncomingMessage", "Report">>
  BY LockIs DEF LocksOf
<1>2. turn = <<>> \/ turn = <<Send(to, n), Free("read")>>
  BY DEF UnderLock, ReportUnderLock
<1>3. to \in OutOf(t) /\ n \in Msgs(to)
  BY OutsAre, MsgsAre
<1>4. /\ Send(to, n) \in SendsOf(t) /\ Send(to, n).msg = n /\ Calm(Send(to, n))
      /\ StepWeight(t, Send(to, n)) = Weight(Reader(to), n)
  BY <1>3, SendIs, SendTyped, SendWeighs DEF Calm
<1>5. Weight(Reader(to), n) <= Weight(t, s.msg) /\ Keeps(n, s.msg)
  BY <1>1 DEF Weight, Modes, Keeps, Notices, Reader
<1>6. Free("read") \in FreesOf(t)
  BY DEF FreesOf
<1>7. QED
  BY <1>1, <1>2, <1>4, <1>5, <1>6 DEF GoodHold

\* update_firmware under the lock: one message, and the guard until it is sent.
LEMMA UpdateHolds ==
  ASSUME NEW s \in LocksOf("update_firmware"), NEW turn \in UnderLock("update_firmware", s.msg)
  PROVE  GoodHold("update_firmware", s.do, s.msg, turn)
<1> DEFINE t == "update_firmware"
           to == <<t, "firmware">>
<1>1. s.do = "read" /\ s.msg = <<"FromServer", "UpdateFirmware">>
  BY LockIs DEF LocksOf, Updates
<1>2. PICK n \in FirmwareMsgs : turn = <<Send(to, n), Free("read")>>
  BY DEF UnderLock, UpdateUnderLock, FirmwareMsgs
<1>3. to \in OutOf(t) /\ n \in Msgs(to)
  BY OutsAre, MsgsAre
<1>4. /\ Send(to, n) \in SendsOf(t) /\ Send(to, n).msg = n /\ Calm(Send(to, n))
      /\ StepWeight(t, Send(to, n)) = Weight(Reader(to), n)
  BY <1>3, SendIs, SendTyped, SendWeighs DEF Calm
<1>5. Weight(Reader(to), n) <= Weight(t, s.msg) /\ Keeps(n, s.msg)
  BY <1>1 DEF FirmwareMsgs, Weight, Modes, Keeps, Notices, Reader
<1>6. Free("read") \in FreesOf(t)
  BY DEF FreesOf
<1>7. QED
  BY <1>1, <1>2, <1>4, <1>5, <1>6 DEF GoodHold

-----------------------------------------------------------------------------
(* The turns under the lock.                                               *)

\* What the tasks ask the lock for, one by one.
LEMMA LocksAre ==
  /\ LocksOf("msg_from_hub") = {Lock("read", <<"IncomingMessage", "Report">>)}
  /\ LocksOf("msg_to_hub") = {Lock("read", m) : m \in ToHubs \cup Acks} \cup
        {Lock("read", <<"topic", x>>) : x \in Notices \cup {"request"}}
  /\ LocksOf("network_admin") =
        {Lock("read", <<"FromServer", x>>) : x \in Notices} \cup
        {Lock("write", <<"action", x>>) : x \in Notices} \cup
        {Lock("write", m) : m \in Batches \cup Requests \cup {<<"FromServer", "DeleteHub">>}}
  /\ LocksOf("update_firmware") = {Lock("read", m) : m \in Updates}
  /\ \A t \in Tasks \ {"msg_from_hub", "msg_to_hub", "network_admin", "update_firmware"} :
        LocksOf(t) = {}
BY DEF LocksOf, Tasks, Others

\* msg_to_hub under the lock: it publishes, or asks once more for the topic.
LEMMA ToHubHolds ==
  ASSUME NEW s \in LocksOf("msg_to_hub"), NEW turn \in UnderLock("msg_to_hub", s.msg)
  PROVE  GoodHold("msg_to_hub", s.do, s.msg, turn)
<1> DEFINE t == "msg_to_hub"
           n == <<"Serialized", "message">>
           m == s.msg
<1>1. m \in ToHubs \cup Acks \cup {<<"topic", x>> : x \in Notices \cup {"request"}}
  <2>1. \/ \E x \in ToHubs \cup Acks : s = Lock("read", x)
        \/ \E x \in Notices \cup {"request"} : s = Lock("read", <<"topic", x>>)
    BY LocksAre
  <2>2. QED
    BY <2>1 DEF Lock
<1>2. turn = <<>> \/ turn = <<Send(Tx, n)>>
        \/ /\ turn = <<Lock("read", <<"topic", m[2]>>)>>
           /\ m[1] = "ToHub" /\ m[2] \in Notices \cup {"request"}
  BY <1>1 DEF UnderLock, ToHubUnderLock, Publishes, ToHubs, Acks
<1>3. CASE turn = <<Send(Tx, n)>>
  <2>1. Tx \in OutOf(t) /\ n \in Msgs(Tx)
    BY OutsAre, MsgsAre DEF TxMsgs, Publishings
  <2>2. /\ Send(Tx, n) \in SendsOf(t) /\ Send(Tx, n).msg = n
        /\ StepWeight(t, Send(Tx, n)) = Weight("message", n)
    BY <2>1, SendIs, SendTyped, SendWeighs DEF Reader, Tx
  <2>3. Weight("message", n) = 1 /\ Weight(t, m) \in Nat \ {0} /\ Keeps(n, m)
    BY WeightTyped DEF Weight, Modes, Keeps, Notices
  <2>4. QED
    BY <1>3, <2>2, <2>3 DEF GoodHold
<1>4. CASE /\ turn = <<Lock("read", <<"topic", m[2]>>)>>
           /\ m[1] = "ToHub" /\ m[2] \in Notices \cup {"request"}
  <2> DEFINE l == Lock("read", <<"topic", m[2]>>)
  <2>1. l.msg = <<"topic", m[2]>> /\ l.do = "read"
    BY LockIs
  <2>3. l \in LocksOf(t)
    BY <1>4, LocksAre
  <2>2. StepWeight(t, l) = 1 /\ Weight(t, m) \in Nat \ {0} /\ Keeps(l.msg, m)
    BY <1>4, <2>1, WeightTyped DEF StepWeight, Weight, Modes, Keeps, Notices
  <2>4. QED
    BY <1>4, <2>3, <2>2 DEF GoodHold
<1>5. QED
  BY <1>2, <1>3, <1>4 DEF GoodHold

\* network_admin under the lock: what it tells the hubs and the database.
LEMMA AdminHolds ==
  ASSUME NEW s \in LocksOf("network_admin"), NEW turn \in UnderLock("network_admin", s.msg)
  PROVE  GoodHold("network_admin", s.do, s.msg, turn)
<1> DEFINE t == "network_admin"
           m == s.msg
           up == <<t, "network">>
           net == <<"networks", "network_dba">>
           hub == <<"hubs", "network_dba">>
           new == <<"HubChanged", "hub">>
<1>0. turn \in AdminUnderLock(m)
  BY DEF UnderLock
<1>1. /\ \A x \in ToHubs \cup Ready : /\ Send(up, x) \in SendsOf(t) /\ Send(up, x).msg = x
                                      /\ StepWeight(t, Send(up, x)) = Weight("network", x)
                                      /\ Calm(Send(up, x))
      /\ \A x \in Changed : /\ Send(net, x) \in SendsOf(t) /\ Send(net, x).msg = x
                            /\ StepWeight(t, Send(net, x)) = Weight("network_dba", x)
  <2>1. {up, net} \subseteq OutOf(t)
    BY OutsAre
  <2>2. Msgs(up) = ToHubs \cup Ready /\ Msgs(net) = Changed
    BY MsgsAre
  <2>3. /\ Reader(up) = "network" /\ Reader(net) = "network_dba"
        /\ up # <<"msg_from_hub", "msg_to_hub">>
    BY DEF Reader
  <2>4. \A x \in ToHubs \cup Ready :
           Send(up, x) \in SendsOf(t) /\ Send(up, x).msg = x /\ Send(up, x).to = up
             /\ StepWeight(t, Send(up, x)) = Weight("network", x)
    BY <2>1, <2>2, <2>3, SendTyped, SendIs, SendWeighs
  <2>5. QED
    BY <2>1, <2>2, <2>3, <2>4, SendTyped, SendIs, SendWeighs DEF Calm
<1>2. /\ Send(hub, new) \in SendsOf(t) /\ Send(hub, new).msg = new
      /\ StepWeight(t, Send(hub, new)) = 1 /\ Calm(Send(hub, new))
  <2>1. hub \in OutOf(t) /\ new \in Msgs(hub) /\ Reader(hub) = "network_dba"
    BY OutsAre, MsgsAre DEF HubChanged, Reader
  <2>2. Weight("network_dba", new) = 1
    BY DEF Weight, Modes
  <2>3. QED
    BY <2>1, <2>2, SendTyped, SendIs, SendWeighs DEF Calm
<1>3. \A x \in ToHubs \cup Ready : Weight("network", x) = 1
  BY DEF Weight, Modes, Notices, ToHubs, Ready
<1>4. Weight(t, m) \in Nat \ {0} /\ Free("write") \in FreesOf(t)
  BY WeightTyped DEF FreesOf
<1>5. \/ \E x \in Notices : s = Lock("read", <<"FromServer", x>>)
      \/ \E x \in Notices : s = Lock("write", <<"action", x>>)
      \/ \E b \in Batches : s = Lock("write", b)
      \/ s = Lock("write", <<"FromHub", "LinkageRequest">>)
      \/ s = Lock("write", <<"FromServer", "DeleteHub">>)
  BY LocksAre DEF Requests
<1>6. ASSUME NEW x \in Notices, s = Lock("read", <<"FromServer", x>>)
      PROVE  GoodHold(t, s.do, m, turn)
  <2> DEFINE l == Lock("write", <<"action", x>>)
  <2>1. m = <<"FromServer", x>>
    BY <1>6 DEF Lock
  <2>2. turn = <<>> \/ turn = <<l>>
    BY <1>0, <2>1 DEF AdminUnderLock, Decides, Notices, Modes
  <2>3. l.msg = <<"action", x>> /\ l.do = "write"
    BY LockIs
  <2>4. l \in LocksOf(t)
    BY LocksAre
  <2>5. StepWeight(t, l) <= Weight(t, m) /\ Keeps(l.msg, m)
    BY <2>1, <2>3 DEF StepWeight, Weight, Notices, Modes, Keeps
  <2>6. QED
    BY <2>2, <2>4, <2>5 DEF GoodHold
<1>7. ASSUME NEW x \in Notices, s = Lock("write", <<"action", x>>)
      PROVE  GoodHold(t, s.do, m, turn)
  <2> DEFINE tells == Send(up, <<"ToHub", x>>)
             stores == Send(net, <<"NetworkChanged", x>>)
  <2>1. m = <<"action", x>>
    BY <1>7 DEF Lock
  <2>2. turn = <<tells, stores>> \/ turn = <<stores>>
    BY <1>0, <2>1 DEF AdminUnderLock, Change, Notices, Modes
  <2>3. <<"ToHub", x>> \in ToHubs /\ <<"NetworkChanged", x>> \in Changed
    BY DEF ToHubs, Changed
  <2>4. Weight("network_dba", <<"NetworkChanged", x>>) + 1 <= Weight(t, m)
        /\ Weight("network_dba", <<"NetworkChanged", x>>) \in {1, 2}
    BY <2>1 DEF Weight, Notices, Modes
  <2>5. Keeps(<<"ToHub", x>>, m) /\ Keeps(<<"NetworkChanged", x>>, m)
    BY <2>1 DEF Keeps
  <2>6. QED
    BY <1>1, <1>3, <1>4, <2>2, <2>3, <2>4, <2>5 DEF GoodHold
<1>8. ASSUME NEW b \in Batches, s = Lock("write", b)
      PROVE  GoodHold(t, s.do, m, turn)
  <2>1. m = b /\ s.do = "write"
    BY <1>8 DEF Lock
  <2> DEFINE r == <<"NetworksReady", "networks">>
  <2>2. turn = <<Send(up, r), Free("write")>>
    BY <1>0, <2>1 DEF AdminUnderLock, Batches, Modes
  <2>3. r \in Ready /\ Keeps(r, m)
    BY DEF Ready, Keeps, Notices, Modes
  <2>4. QED
    BY <1>1, <1>3, <1>4, <2>1, <2>2, <2>3 DEF GoodHold
<1>9. ASSUME s = Lock("write", <<"FromHub", "LinkageRequest">>)
      PROVE  GoodHold(t, s.do, m, turn)
  <2>1. m = <<"FromHub", "LinkageRequest">> /\ s.do = "write"
    BY <1>9 DEF Lock
  <2> DEFINE r == <<"ToHub", "LinkageAck">>
  <2>2. turn = <<Send(hub, new)>> \/ turn = <<Send(up, r), Free("write")>>
    BY <1>0, <2>1 DEF AdminUnderLock
  <2>3. r \in ToHubs /\ Keeps(r, m) /\ Keeps(new, m)
    BY DEF ToHubs, Keeps, Notices, Modes
  <2>4. QED
    BY <1>1, <1>2, <1>3, <1>4, <2>1, <2>2, <2>3 DEF GoodHold
<1>10. ASSUME s = Lock("write", <<"FromServer", "DeleteHub">>)
       PROVE  GoodHold(t, s.do, m, turn)
  <2>1. m = <<"FromServer", "DeleteHub">> /\ s.do = "write"
    BY <1>10 DEF Lock
  <2> DEFINE r == <<"ToHub", "request">>
  <2>2. turn = <<Send(hub, new), Send(up, r), Free("write")>>
    BY <1>0, <2>1 DEF AdminUnderLock
  <2>3. r \in ToHubs /\ Keeps(r, m) /\ Keeps(new, m) /\ Weight(t, m) = 2
    BY <2>1 DEF ToHubs, Keeps, Notices, Modes, Weight
  <2>4. QED
    BY <1>1, <1>2, <1>3, <2>1, <2>2, <2>3, <1>4 DEF GoodHold
<1>11. QED
  BY <1>5, <1>6, <1>7, <1>8, <1>9, <1>10

\* Whoever has the lock makes no more of its message than it weighs.
LEMMA HoldsGood ==
  ASSUME NEW t \in Tasks, NEW s \in LocksOf(t), NEW turn \in UnderLock(t, s.msg)
  PROVE  GoodHold(t, s.do, s.msg, turn)
<1>1. t \in {"msg_from_hub", "msg_to_hub", "network_admin", "update_firmware"}
  BY LocksAre
<1>2. QED
  BY <1>1, ReportHolds, ToHubHolds, AdminHolds, UpdateHolds

-----------------------------------------------------------------------------
(* Sizes: the units of a function are those of its places.                 *)

\* The units of one place.
Row(p, i, w) == {<<p, i, k>> : k \in 1..w}
Part(p, ws)  == UNION {Row(p, i, ws[i]) : i \in DOMAIN ws}

\* Sets with a bijection between them have the same size.
LEMMA SameSize ==
  ASSUME NEW S, NEW T, IsFiniteSet(S), NEW f \in [S -> T],
         \A x, y \in S : f[x] = f[y] => x = y,
         \A y \in T : \E x \in S : f[x] = y
  PROVE  IsFiniteSet(T) /\ Cardinality(T) = Cardinality(S)
<1>1. f \in Bijection(S, T)
  BY Fun_IsBij
<1>2. QED
  BY <1>1, FS_Bijection, Fun_ExistsBij

\* A message of weight w has w units.
LEMMA RowSize ==
  ASSUME NEW p, NEW i, NEW w \in Nat
  PROVE  IsFiniteSet(Row(p, i, w)) /\ Cardinality(Row(p, i, w)) = w
<1> DEFINE f == [k \in 1..w |-> <<p, i, k>>]
<1>1. IsFiniteSet(1..w) /\ Cardinality(1..w) = w
  BY FS_Interval
<1>2. f \in [1..w -> Row(p, i, w)]
  BY DEF Row
<1>3. \A x, y \in 1..w : f[x] = f[y] => x = y
  OBVIOUS
<1>4. \A y \in Row(p, i, w) : \E x \in 1..w : f[x] = y
  BY DEF Row
<1> HIDE DEF f
<1>5. QED
  BY <1>1, <1>2, <1>3, <1>4, SameSize

\* A place that is empty has no units.
LEMMA PartEmpty ==
  ASSUME NEW p
  PROVE  Part(p, <<>>) = {} /\ IsFiniteSet(Part(p, <<>>)) /\ Cardinality(Part(p, <<>>)) = 0
<1>1. Part(p, <<>>) = {}
  BY DEF Part
<1>2. QED
  BY <1>1, FS_EmptySet

\* A union of sets that do not meet.
LEMMA Apart ==
  ASSUME NEW S, NEW T, IsFiniteSet(S), IsFiniteSet(T), S \cap T = {}
  PROVE  IsFiniteSet(S \cup T) /\ Cardinality(S \cup T) = Cardinality(S) + Cardinality(T)
BY FS_Union, FS_EmptySet, FS_CardinalityType

\* A message that comes into a place adds its weight.
LEMMA PartAppend ==
  ASSUME NEW p, NEW ws \in Seq(Nat), NEW w \in Nat, IsFiniteSet(Part(p, ws))
  PROVE  /\ IsFiniteSet(Part(p, Append(ws, w)))
         /\ Cardinality(Part(p, Append(ws, w))) = Cardinality(Part(p, ws)) + w
<1> DEFINE n == Len(ws) + 1
<1>1. /\ DOMAIN Append(ws, w) = 1..n /\ DOMAIN ws = 1..Len(ws) /\ Append(ws, w)[n] = w
      /\ \A i \in 1..Len(ws) : Append(ws, w)[i] = ws[i]
      /\ 1..n = (1..Len(ws)) \cup {n} /\ n \notin 1..Len(ws)
  OBVIOUS
<1>2. Part(p, Append(ws, w)) = Part(p, ws) \cup Row(p, n, w)
  BY <1>1 DEF Part
<1>3. Part(p, ws) \cap Row(p, n, w) = {}
  BY <1>1 DEF Part, Row
<1>4. IsFiniteSet(Row(p, n, w)) /\ Cardinality(Row(p, n, w)) = w
  BY RowSize
<1>5. QED
  BY <1>2, <1>3, <1>4, Apart

\* The first message that leaves a place takes its weight with it.
LEMMA PartTail ==
  ASSUME NEW p, NEW ws \in Seq(Nat), ws # <<>>, IsFiniteSet(Part(p, ws))
  PROVE  /\ IsFiniteSet(Part(p, Tail(ws)))
         /\ Cardinality(Part(p, ws)) = Head(ws) + Cardinality(Part(p, Tail(ws)))
<1> DEFINE n == Len(ws)
           first == Row(p, 1, ws[1])
           rest == Part(p, ws) \ first
           f == [x \in rest |-> <<p, x[2] - 1, x[3]>>]
<1>1. /\ n \in Nat /\ n > 0 /\ DOMAIN ws = 1..n /\ Head(ws) = ws[1] /\ ws[1] \in Nat
      /\ DOMAIN Tail(ws) = 1..(n - 1) /\ \A i \in 1..(n - 1) : Tail(ws)[i] = ws[i + 1]
  OBVIOUS
<1>2. Part(p, ws) = first \cup rest /\ first \cap rest = {} /\ first \subseteq Part(p, ws)
  BY <1>1 DEF Part
<1>3. IsFiniteSet(first) /\ Cardinality(first) = ws[1]
  BY <1>1, RowSize
<1>4. IsFiniteSet(rest)
  BY FS_Difference
<1>5. Cardinality(Part(p, ws)) = ws[1] + Cardinality(rest)
  BY <1>2, <1>3, <1>4, Apart
<1>6. \A x : x \in rest <=> \E i \in 2..n : \E k \in 1..ws[i] : x = <<p, i, k>>
  BY <1>1 DEF Part, Row
<1>7. \A x : x \in Part(p, Tail(ws)) <=>
              \E i \in 1..(n - 1) : \E k \in 1..ws[i + 1] : x = <<p, i, k>>
  <2>1. \A x : x \in Part(p, Tail(ws)) <=>
                \E i \in 1..(n - 1) : x \in Row(p, i, Tail(ws)[i])
    BY <1>1 DEF Part
  <2>2. QED
    BY <1>1, <2>1 DEF Row
<1>8. f \in [rest -> Part(p, Tail(ws))]
  <2>1. ASSUME NEW x \in rest
        PROVE  <<p, x[2] - 1, x[3]>> \in Part(p, Tail(ws))
    <3>1. PICK i \in 2..n : \E k \in 1..ws[i] : x = <<p, i, k>>
      BY <1>6
    <3>2. PICK k \in 1..ws[i] : x = <<p, i, k>>
      BY <3>1
    <3>3. i - 1 \in 1..(n - 1) /\ (i - 1) + 1 = i
      BY <1>1
    <3>4. <<p, i - 1, k>> \in Part(p, Tail(ws))
      BY <1>7, <3>2, <3>3
    <3>5. QED
      BY <3>2, <3>4
  <2>2. QED
    BY <2>1
<1>9. \A x, y \in rest : f[x] = f[y] => x = y
  <2>1. ASSUME NEW x \in rest, NEW y \in rest, f[x] = f[y]
        PROVE  x = y
    <3>1. PICK i \in 2..n : \E k \in 1..ws[i] : x = <<p, i, k>>
      BY <1>6
    <3>2. PICK j \in 2..n : \E l \in 1..ws[j] : y = <<p, j, l>>
      BY <1>6
    <3>3. PICK k, l : x = <<p, i, k>> /\ y = <<p, j, l>>
      BY <3>1, <3>2
    <3>4. <<p, i - 1, k>> = <<p, j - 1, l>>
      BY <2>1, <3>3
    <3>5. i - 1 = j - 1 /\ k = l
      BY <3>4
    <3>6. i = j
      BY <3>5, <1>1
    <3>7. QED
      BY <3>3, <3>5, <3>6
  <2>2. QED
    BY <2>1
<1>10. \A y \in Part(p, Tail(ws)) : \E x \in rest : f[x] = y
  <2>1. ASSUME NEW y \in Part(p, Tail(ws))
        PROVE  \E x \in rest : f[x] = y
    <3>1. PICK i \in 1..(n - 1) : \E k \in 1..ws[i + 1] : y = <<p, i, k>>
      BY <1>7
    <3>2. PICK k \in 1..ws[i + 1] : y = <<p, i, k>>
      BY <3>1
    <3>3. i + 1 \in 2..n /\ (i + 1) - 1 = i
      BY <1>1
    <3>4. <<p, i + 1, k>> \in rest
      BY <1>6, <3>2, <3>3
    <3>5. f[<<p, i + 1, k>>] = y
      BY <3>2, <3>3, <3>4
    <3>6. QED
      BY <3>4, <3>5
  <2>2. QED
    BY <2>1
<1> HIDE DEF f, rest
<1>11. IsFiniteSet(Part(p, Tail(ws))) /\ Cardinality(Part(p, Tail(ws))) = Cardinality(rest)
  BY <1>4, <1>8, <1>9, <1>10, SameSize
<1>12. QED
  BY <1>1, <1>5, <1>11

\* Short agendas.
LEMMA PartShort ==
  ASSUME NEW p, NEW w1 \in Nat, NEW w2 \in Nat, NEW w3 \in Nat
  PROVE  /\ IsFiniteSet(Part(p, <<w1>>)) /\ Cardinality(Part(p, <<w1>>)) = w1
         /\ IsFiniteSet(Part(p, <<w1, w2>>)) /\ Cardinality(Part(p, <<w1, w2>>)) = w1 + w2
         /\ IsFiniteSet(Part(p, <<w1, w2, w3>>))
         /\ Cardinality(Part(p, <<w1, w2, w3>>)) = w1 + w2 + w3
<1>1. <<>> \in Seq(Nat) /\ <<w1>> \in Seq(Nat) /\ <<w1, w2>> \in Seq(Nat)
  OBVIOUS
<1>2. <<w1>> = Append(<<>>, w1) /\ <<w1, w2>> = Append(<<w1>>, w2)
      /\ <<w1, w2, w3>> = Append(<<w1, w2>>, w3)
  OBVIOUS
<1>3. IsFiniteSet(Part(p, <<w1>>)) /\ Cardinality(Part(p, <<w1>>)) = w1
  <2>1. /\ IsFiniteSet(Part(p, Append(<<>>, w1)))
        /\ Cardinality(Part(p, Append(<<>>, w1))) = Cardinality(Part(p, <<>>)) + w1
    BY <1>1, PartEmpty, PartAppend
  <2>2. QED
    BY <1>2, <2>1, PartEmpty
<1>4. IsFiniteSet(Part(p, <<w1, w2>>)) /\ Cardinality(Part(p, <<w1, w2>>)) = w1 + w2
  <2>1. /\ IsFiniteSet(Part(p, Append(<<w1>>, w2)))
        /\ Cardinality(Part(p, Append(<<w1>>, w2))) = Cardinality(Part(p, <<w1>>)) + w2
    BY <1>1, <1>3, PartAppend
  <2>2. QED
    BY <1>2, <1>3, <2>1
<1>5. /\ IsFiniteSet(Part(p, <<w1, w2, w3>>))
      /\ Cardinality(Part(p, <<w1, w2, w3>>)) = w1 + w2 + w3
  <2>1. /\ IsFiniteSet(Part(p, Append(<<w1, w2>>, w3)))
        /\ Cardinality(Part(p, Append(<<w1, w2>>, w3))) = Cardinality(Part(p, <<w1, w2>>)) + w3
    BY <1>1, <1>4, PartAppend
  <2>2. QED
    BY <1>2, <1>4, <2>1
<1>6. QED
  BY <1>3, <1>4, <1>5

\* As many units as parts of one.
LEMMA PartOnes ==
  ASSUME NEW p, NEW n \in Nat
  PROVE  /\ IsFiniteSet(Part(p, [i \in 1..n |-> 1]))
         /\ Cardinality(Part(p, [i \in 1..n |-> 1])) = n
<1> DEFINE ws == [i \in 1..n |-> 1]
           f == [i \in 1..n |-> <<p, i, 1>>]
<1>1. \A x : x \in Part(p, ws) <=> \E i \in 1..n : x = <<p, i, 1>>
  <2>1. DOMAIN ws = 1..n /\ \A i \in 1..n : ws[i] = 1
    OBVIOUS
  <2> HIDE DEF ws
  <2>2. \A x : x \in Part(p, ws) <=> \E i \in 1..n : x \in Row(p, i, 1)
    BY <2>1 DEF Part
  <2>3. \A i : \A x : x \in Row(p, i, 1) <=> x = <<p, i, 1>>
    <3>1. \A k : k \in 1..1 <=> k = 1
      OBVIOUS
    <3>2. QED
      BY <3>1 DEF Row
  <2>4. QED
    BY <2>2, <2>3
<1> HIDE DEF ws
<1>2. f \in [1..n -> Part(p, ws)]
  BY <1>1
<1>3. \A x, y \in 1..n : f[x] = f[y] => x = y
  OBVIOUS
<1>4. \A y \in Part(p, ws) : \E x \in 1..n : f[x] = y
  BY <1>1
<1>5. IsFiniteSet(1..n) /\ Cardinality(1..n) = n
  BY FS_Interval
<1> HIDE DEF f
<1>6. IsFiniteSet(Part(p, ws)) /\ Cardinality(Part(p, ws)) = n
  BY <1>2, <1>3, <1>4, <1>5, SameSize
<1>7. QED
  BY <1>6 DEF ws

\* The units under way are those of the places.
LEMMA UnitsAre ==
  ASSUME NEW f
  PROVE  Units(f) = UNION {Part(p, f[p]) : p \in DOMAIN f}
BY DEF Units, Part, Row

\* Only one place changes.
LEMMA LoadChange ==
  ASSUME NEW f, NEW g, NEW p, IsFiniteSet(Units(f)), IsFiniteSet(Part(p, At(g, p))),
         \A q : q # p => (q \in DOMAIN g <=> q \in DOMAIN f),
         \A q : q # p /\ q \in DOMAIN f => g[q] = f[q]
  PROVE  /\ IsFiniteSet(Units(g)) /\ IsFiniteSet(Part(p, At(f, p)))
         /\ Cardinality(Units(g)) + Cardinality(Part(p, At(f, p)))
              = Cardinality(Units(f)) + Cardinality(Part(p, At(g, p)))
         /\ Cardinality(Part(p, At(f, p))) <= Cardinality(Units(f))
<1> DEFINE rest == UNION {Part(q, f[q]) : q \in DOMAIN f \ {p}}
<1>1. Units(f) = rest \cup Part(p, At(f, p))
  BY UnitsAre, PartEmpty DEF At
<1>2. Units(g) = rest \cup Part(p, At(g, p))
  <2>1. rest = UNION {Part(q, g[q]) : q \in DOMAIN g \ {p}}
    OBVIOUS
  <2>2. QED
    BY <2>1, UnitsAre, PartEmpty DEF At
<1>3. \A ws : rest \cap Part(p, ws) = {}
  BY DEF Part, Row
<1>4. IsFiniteSet(rest) /\ IsFiniteSet(Part(p, At(f, p)))
  BY <1>1, FS_Subset
<1> HIDE DEF rest
<1>5. Cardinality(Units(f)) = Cardinality(rest) + Cardinality(Part(p, At(f, p)))
  BY <1>1, <1>3, <1>4, Apart
<1>6. IsFiniteSet(Units(g))
      /\ Cardinality(Units(g)) = Cardinality(rest) + Cardinality(Part(p, At(g, p)))
  BY <1>2, <1>3, <1>4, Apart
<1>7. Cardinality(rest) \in Nat /\ Cardinality(Part(p, At(f, p))) \in Nat
      /\ Cardinality(Part(p, At(g, p))) \in Nat
  BY <1>4, FS_CardinalityType
<1>8. QED
  BY <1>4, <1>5, <1>6, <1>7

-----------------------------------------------------------------------------
(* The weight of channels and agendas, and how one change moves it.        *)

\* The weights of the messages of a channel and of the steps of a turn.
Weigh(r, q) == [i \in DOMAIN q |-> Weight(r, q[i])]
StepWeigh(t, a) == [i \in DOMAIN a |-> StepWeight(t, a[i])]
QueuedOf(ch) == [c \in DOMAIN ch |-> Weigh(Reader(c), ch[c])]
HeldOf(ag) == [t \in DOMAIN ag |-> StepWeigh(t, ag[t])]

\* The load is that of the channels and that of the agendas.
LEMMA LoadIs ==
  /\ Queued = QueuedOf(chan) /\ Held = HeldOf(agenda)
  /\ UnderWay = Cardinality(Units(QueuedOf(chan))) + Cardinality(Units(HeldOf(agenda)))
BY DEF Queued, Held, QueuedOf, HeldOf, Weigh, StepWeigh, UnderWay

\* What With makes of a function.
LEMMA WithIs ==
  ASSUME NEW f, NEW k, NEW v, NEW g, g = With(f, k, v)
  PROVE  /\ \A x : x \in DOMAIN g <=> (IF x = k THEN v # <<>> ELSE x \in DOMAIN f)
         /\ \A x \in DOMAIN g : g[x] = IF x = k THEN v ELSE f[x]
         /\ \A x : At(g, x) = IF x = k THEN v ELSE At(f, x)
<1>1. DOMAIN g = IF v = <<>> THEN DOMAIN f \ {k} ELSE DOMAIN f \cup {k}
  BY DEF With
<1>2. \A x \in DOMAIN g : g[x] = IF x = k THEN v ELSE f[x]
  BY DEF With
<1>3. \A x : x \in DOMAIN g <=> (IF x = k THEN v # <<>> ELSE x \in DOMAIN f)
  BY <1>1
<1>4. QED
  BY <1>2, <1>3 DEF At

\* The weight of a step is a number; only the end of a guard weighs nothing.
LEMMA StepWeightTyped ==
  ASSUME NEW t, NEW s
  PROVE  StepWeight(t, s) \in Nat
BY WeightTyped DEF StepWeight

\* The weights of a sequence, one for each of its elements.
LEMMA WeighTyped ==
  ASSUME NEW r, NEW S, NEW q \in Seq(S)
  PROVE  /\ Weigh(r, q) \in Seq(Nat) /\ StepWeigh(r, q) \in Seq(Nat)
         /\ Len(Weigh(r, q)) = Len(q) /\ Len(StepWeigh(r, q)) = Len(q)
         /\ \A i \in 1..Len(q) : /\ Weigh(r, q)[i] = Weight(r, q[i])
                                 /\ StepWeigh(r, q)[i] = StepWeight(r, q[i])
<1>1. DOMAIN q = 1..Len(q) /\ Len(q) \in Nat
  OBVIOUS
<1>2. \A i \in 1..Len(q) : Weight(r, q[i]) \in Nat /\ StepWeight(r, q[i]) \in Nat
  BY WeightTyped, StepWeightTyped
<1>3. QED
  BY <1>1, <1>2 DEF Weigh, StepWeigh

\* The weights of a channel that a message comes into.
LEMMA WeighAppend ==
  ASSUME NEW r, NEW S, NEW q \in Seq(S), NEW m \in S
  PROVE  Weigh(r, Append(q, m)) = Append(Weigh(r, q), Weight(r, m))
<1> DEFINE v == Append(q, m)
<1>1. v \in Seq(S) /\ Len(v) = Len(q) + 1 /\ Len(q) \in Nat
      /\ \A i \in 1..Len(v) : v[i] = IF i = Len(v) THEN m ELSE q[i]
  OBVIOUS
<1> HIDE DEF v
<1>2. Weigh(r, v) \in Seq(Nat) /\ Len(Weigh(r, v)) = Len(v)
      /\ \A i \in 1..Len(v) : Weigh(r, v)[i] = Weight(r, v[i])
  BY <1>1, WeighTyped
<1>3. Weigh(r, q) \in Seq(Nat) /\ Len(Weigh(r, q)) = Len(q)
      /\ \A i \in 1..Len(q) : Weigh(r, q)[i] = Weight(r, q[i])
  BY WeighTyped
<1>4. Weight(r, m) \in Nat
  BY WeightTyped
<1> DEFINE a == Weigh(r, v)
           b == Append(Weigh(r, q), Weight(r, m))
<1>5. b \in Seq(Nat) /\ Len(b) = Len(v)
      /\ \A i \in 1..Len(v) : b[i] = IF i = Len(v) THEN Weight(r, m) ELSE Weigh(r, q)[i]
  BY <1>1, <1>3, <1>4
<1>6. \A i \in 1..Len(v) : a[i] = b[i]
  BY <1>1, <1>2, <1>3, <1>5
<1> HIDE DEF a, b
<1>7. a = b
  BY <1>2, <1>5, <1>6, SeqEqual DEF a
<1>8. QED
  BY <1>7 DEF a, b, v

\* The weights of a channel or an agenda whose first element leaves.
LEMMA WeighTail ==
  ASSUME NEW r, NEW S, NEW q \in Seq(S), q # <<>>
  PROVE  /\ Weigh(r, Tail(q)) = Tail(Weigh(r, q)) /\ Head(Weigh(r, q)) = Weight(r, Head(q))
         /\ StepWeigh(r, Tail(q)) = Tail(StepWeigh(r, q))
         /\ Head(StepWeigh(r, q)) = StepWeight(r, Head(q))
         /\ Weigh(r, q) # <<>> /\ StepWeigh(r, q) # <<>>
<1> DEFINE v == Tail(q)
<1>1. v \in Seq(S) /\ Len(v) = Len(q) - 1 /\ Len(q) \in Nat /\ Len(q) > 0
      /\ \A i \in 1..Len(v) : v[i] = q[i + 1]
  OBVIOUS
<1> HIDE DEF v
<1>2. Weigh(r, v) \in Seq(Nat) /\ Len(Weigh(r, v)) = Len(v)
      /\ \A i \in 1..Len(v) : Weigh(r, v)[i] = Weight(r, v[i])
  BY <1>1, WeighTyped
<1>3. StepWeigh(r, v) \in Seq(Nat) /\ Len(StepWeigh(r, v)) = Len(v)
      /\ \A i \in 1..Len(v) : StepWeigh(r, v)[i] = StepWeight(r, v[i])
  BY <1>1, WeighTyped
<1>4. Weigh(r, q) \in Seq(Nat) /\ Len(Weigh(r, q)) = Len(q)
      /\ \A i \in 1..Len(q) : Weigh(r, q)[i] = Weight(r, q[i])
  BY WeighTyped
<1>5. StepWeigh(r, q) \in Seq(Nat) /\ Len(StepWeigh(r, q)) = Len(q)
      /\ \A i \in 1..Len(q) : StepWeigh(r, q)[i] = StepWeight(r, q[i])
  BY WeighTyped
<1>6. Tail(Weigh(r, q)) \in Seq(Nat) /\ Len(Tail(Weigh(r, q))) = Len(v)
      /\ \A i \in 1..Len(v) : Tail(Weigh(r, q))[i] = Weigh(r, q)[i + 1]
  BY <1>1, <1>4
<1>7. Tail(StepWeigh(r, q)) \in Seq(Nat) /\ Len(Tail(StepWeigh(r, q))) = Len(v)
      /\ \A i \in 1..Len(v) : Tail(StepWeigh(r, q))[i] = StepWeigh(r, q)[i + 1]
  BY <1>1, <1>5
<1>0. \A i \in 1..Len(v) : i \in 1..Len(q) /\ i + 1 \in 1..Len(q)
  BY <1>1
<1>8. Weigh(r, v) = Tail(Weigh(r, q))
  <2> DEFINE a == Weigh(r, v)
             b == Tail(Weigh(r, q))
  <2>1. \A i \in 1..Len(v) : a[i] = b[i]
    <3>1. TAKE i \in 1..Len(v)
    <3>2. a[i] = Weight(r, q[i + 1]) /\ b[i] = Weigh(r, q)[i + 1]
      BY <1>1, <1>2, <1>6
    <3>3. QED
      BY <1>0, <1>4, <3>2
  <2>2. a \in Seq(Nat) /\ b \in Seq(Nat) /\ Len(a) = Len(b) /\ Len(a) = Len(v)
    BY <1>2, <1>6
  <2> HIDE DEF a, b
  <2>3. a = b
    BY <2>1, <2>2, SeqEqual
  <2>4. QED
    BY <2>3 DEF a, b
<1>9. StepWeigh(r, v) = Tail(StepWeigh(r, q))
  <2> DEFINE a == StepWeigh(r, v)
             b == Tail(StepWeigh(r, q))
  <2>1. \A i \in 1..Len(v) : a[i] = b[i]
    <3>1. TAKE i \in 1..Len(v)
    <3>2. a[i] = StepWeight(r, q[i + 1]) /\ b[i] = StepWeigh(r, q)[i + 1]
      BY <1>1, <1>3, <1>7
    <3>3. QED
      BY <1>0, <1>5, <3>2
  <2>2. a \in Seq(Nat) /\ b \in Seq(Nat) /\ Len(a) = Len(b) /\ Len(a) = Len(v)
    BY <1>3, <1>7
  <2> HIDE DEF a, b
  <2>3. a = b
    BY <2>1, <2>2, SeqEqual
  <2>4. QED
    BY <2>3 DEF a, b
<1>10. QED
  BY <1>1, <1>4, <1>5, <1>8, <1>9 DEF v

\* The weights of nothing.
LEMMA WeighEmpty ==
  ASSUME NEW r
  PROVE  Weigh(r, <<>>) = <<>> /\ StepWeigh(r, <<>>) = <<>>
BY DEF Weigh, StepWeigh

\* One channel changes.
LEMMA QueuedWith ==
  ASSUME NEW old, NEW k, NEW v, NEW new, new = With(old, k, v),
         IsFiniteSet(Units(QueuedOf(old))), IsFiniteSet(Part(k, Weigh(Reader(k), v)))
  PROVE  /\ IsFiniteSet(Units(QueuedOf(new)))
         /\ IsFiniteSet(Part(k, Weigh(Reader(k), At(old, k))))
         /\ Cardinality(Units(QueuedOf(new))) + Cardinality(Part(k, Weigh(Reader(k), At(old, k))))
              = Cardinality(Units(QueuedOf(old))) + Cardinality(Part(k, Weigh(Reader(k), v)))
<1> DEFINE f == QueuedOf(old)
           g == QueuedOf(new)
<1>1. At(g, k) = Weigh(Reader(k), v) /\ At(f, k) = Weigh(Reader(k), At(old, k))
  BY WithIs, WeighEmpty DEF At, QueuedOf
<1>2. /\ \A q : q # k => (q \in DOMAIN new <=> q \in DOMAIN old)
      /\ \A q : q # k /\ q \in DOMAIN old => new[q] = old[q]
  BY WithIs
<1>3. /\ \A q : q # k => (q \in DOMAIN g <=> q \in DOMAIN f)
      /\ \A q : q # k /\ q \in DOMAIN f => g[q] = f[q]
  BY <1>2 DEF QueuedOf
<1> HIDE DEF f, g
<1>4. IsFiniteSet(Units(f)) /\ IsFiniteSet(Part(k, At(g, k)))
  BY <1>1 DEF f
<1>5. /\ IsFiniteSet(Units(g)) /\ IsFiniteSet(Part(k, At(f, k)))
      /\ Cardinality(Units(g)) + Cardinality(Part(k, At(f, k)))
           = Cardinality(Units(f)) + Cardinality(Part(k, At(g, k)))
  BY <1>3, <1>4, LoadChange
<1>6. QED
  BY <1>1, <1>5 DEF f, g

\* One agenda changes.
LEMMA HeldWith ==
  ASSUME NEW old, NEW k, NEW v, NEW new, new = With(old, k, v),
         IsFiniteSet(Units(HeldOf(old))), IsFiniteSet(Part(k, StepWeigh(k, v)))
  PROVE  /\ IsFiniteSet(Units(HeldOf(new)))
         /\ IsFiniteSet(Part(k, StepWeigh(k, At(old, k))))
         /\ Cardinality(Units(HeldOf(new))) + Cardinality(Part(k, StepWeigh(k, At(old, k))))
              = Cardinality(Units(HeldOf(old))) + Cardinality(Part(k, StepWeigh(k, v)))
<1> DEFINE f == HeldOf(old)
           g == HeldOf(new)
<1>1. At(g, k) = StepWeigh(k, v) /\ At(f, k) = StepWeigh(k, At(old, k))
  BY WithIs, WeighEmpty DEF At, HeldOf
<1>2. /\ \A q : q # k => (q \in DOMAIN new <=> q \in DOMAIN old)
      /\ \A q : q # k /\ q \in DOMAIN old => new[q] = old[q]
  BY WithIs
<1>3. /\ \A q : q # k => (q \in DOMAIN g <=> q \in DOMAIN f)
      /\ \A q : q # k /\ q \in DOMAIN f => g[q] = f[q]
  BY <1>2 DEF HeldOf
<1> HIDE DEF f, g
<1>4. IsFiniteSet(Units(f)) /\ IsFiniteSet(Part(k, At(g, k)))
  BY <1>1 DEF f
<1>5. /\ IsFiniteSet(Units(g)) /\ IsFiniteSet(Part(k, At(f, k)))
      /\ Cardinality(Units(g)) + Cardinality(Part(k, At(f, k)))
           = Cardinality(Units(f)) + Cardinality(Part(k, At(g, k)))
  BY <1>3, <1>4, LoadChange
<1>6. QED
  BY <1>1, <1>5 DEF f, g

\* A message joins a channel.
LEMMA QueuedAppend ==
  ASSUME NEW old, NEW k, NEW S, At(old, k) \in Seq(S), NEW m \in S,
         NEW new, new = With(old, k, Append(At(old, k), m)), IsFiniteSet(Units(QueuedOf(old)))
  PROVE  /\ IsFiniteSet(Units(QueuedOf(new)))
         /\ Cardinality(Units(QueuedOf(new)))
              = Cardinality(Units(QueuedOf(old))) + Weight(Reader(k), m)
<1> DEFINE q == At(old, k)
           ws == Weigh(Reader(k), q)
           w == Weight(Reader(k), m)
           A == Cardinality(Units(QueuedOf(old)))
           B == Cardinality(Units(QueuedOf(new)))
           C == Cardinality(Part(k, ws))
           D == Cardinality(Part(k, Append(ws, w)))
<1>1. ws \in Seq(Nat) /\ Weigh(Reader(k), Append(q, m)) = Append(ws, w)
  BY WeighTyped, WeighAppend
<1>2. w \in Nat
  BY WeightTyped
<1>3. IsFiniteSet(Part(k, ws))
  <2>1. Weigh(Reader(k), <<>>) = <<>> /\ IsFiniteSet(Part(k, <<>>))
    BY WeighEmpty, PartEmpty
  <2>2. QED
    BY <2>1, QueuedWith
<1>4. IsFiniteSet(Part(k, Append(ws, w))) /\ D = C + w
  BY <1>1, <1>2, <1>3, PartAppend
<1>5. IsFiniteSet(Units(QueuedOf(new))) /\ B + C = A + D
  <2> DEFINE v == Append(q, m)
  <2>1. /\ Part(k, Weigh(Reader(k), v)) = Part(k, Append(ws, w))
        /\ IsFiniteSet(Part(k, Weigh(Reader(k), v)))
    BY <1>1, <1>4
  <2>2. new = With(old, k, v) /\ q = At(old, k)
    BY <1>1
  <2> HIDE DEF v, q
  <2>3. /\ IsFiniteSet(Units(QueuedOf(new)))
        /\ Cardinality(Units(QueuedOf(new))) + Cardinality(Part(k, Weigh(Reader(k), q)))
             = Cardinality(Units(QueuedOf(old))) + Cardinality(Part(k, Weigh(Reader(k), v)))
    BY <2>1, <2>2, QueuedWith
  <2>4. QED
    BY <2>1, <2>3
<1>6. A \in Nat /\ B \in Nat /\ C \in Nat
  BY <1>3, <1>5, FS_CardinalityType
<1> HIDE DEF A, B, C, D, w
<1>7. B = A + w
  BY <1>2, <1>4, <1>5, <1>6
<1>8. QED
  BY <1>5, <1>7 DEF A, B, w

\* A message is taken from its channel.
LEMMA QueuedTail ==
  ASSUME NEW old, NEW k \in DOMAIN old, NEW S, old[k] \in Seq(S), old[k] # <<>>,
         NEW new, new = With(old, k, Tail(old[k])), IsFiniteSet(Units(QueuedOf(old)))
  PROVE  /\ IsFiniteSet(Units(QueuedOf(new)))
         /\ Cardinality(Units(QueuedOf(old)))
              = Cardinality(Units(QueuedOf(new))) + Weight(Reader(k), Head(old[k]))
<1> DEFINE q == old[k]
           ws == Weigh(Reader(k), q)
           w == Weight(Reader(k), Head(q))
           A == Cardinality(Units(QueuedOf(old)))
           B == Cardinality(Units(QueuedOf(new)))
           C == Cardinality(Part(k, ws))
           D == Cardinality(Part(k, Tail(ws)))
<1>1. /\ ws \in Seq(Nat) /\ ws # <<>> /\ Weigh(Reader(k), Tail(q)) = Tail(ws) /\ Head(ws) = w
      /\ q = At(old, k)
  BY WeighTyped, WeighTail DEF At
<1>2. w \in Nat
  BY WeightTyped
<1>3. IsFiniteSet(Part(k, ws))
  <2>1. Weigh(Reader(k), <<>>) = <<>> /\ IsFiniteSet(Part(k, <<>>))
    BY WeighEmpty, PartEmpty
  <2>2. QED
    BY <1>1, <2>1, QueuedWith
<1>4. IsFiniteSet(Part(k, Tail(ws))) /\ C = w + D
  BY <1>1, <1>3, PartTail
<1>5. IsFiniteSet(Units(QueuedOf(new))) /\ B + C = A + D
  <2> DEFINE v == Tail(q)
  <2>1. /\ Part(k, Weigh(Reader(k), v)) = Part(k, Tail(ws))
        /\ IsFiniteSet(Part(k, Weigh(Reader(k), v)))
    BY <1>1, <1>4
  <2>2. new = With(old, k, v) /\ q = At(old, k)
    BY <1>1
  <2> HIDE DEF v, q
  <2>3. /\ IsFiniteSet(Units(QueuedOf(new)))
        /\ Cardinality(Units(QueuedOf(new))) + Cardinality(Part(k, Weigh(Reader(k), q)))
             = Cardinality(Units(QueuedOf(old))) + Cardinality(Part(k, Weigh(Reader(k), v)))
    BY <2>1, <2>2, QueuedWith
  <2>4. QED
    BY <2>1, <2>3
<1>6. A \in Nat /\ B \in Nat /\ D \in Nat
  BY <1>4, <1>5, FS_CardinalityType
<1> HIDE DEF A, B, C, D, w
<1>7. A = B + w
  BY <1>2, <1>4, <1>5, <1>6
<1>8. QED
  BY <1>5, <1>7 DEF A, B, w

\* A step is done.
LEMMA HeldTail ==
  ASSUME NEW old, NEW k \in DOMAIN old, NEW S, old[k] \in Seq(S), old[k] # <<>>,
         NEW new, new = With(old, k, Tail(old[k])), IsFiniteSet(Units(HeldOf(old)))
  PROVE  /\ IsFiniteSet(Units(HeldOf(new)))
         /\ Cardinality(Units(HeldOf(old)))
              = Cardinality(Units(HeldOf(new))) + StepWeight(k, Head(old[k]))
<1> DEFINE q == old[k]
           ws == StepWeigh(k, q)
           w == StepWeight(k, Head(q))
           A == Cardinality(Units(HeldOf(old)))
           B == Cardinality(Units(HeldOf(new)))
           C == Cardinality(Part(k, ws))
           D == Cardinality(Part(k, Tail(ws)))
<1>1. /\ ws \in Seq(Nat) /\ ws # <<>> /\ StepWeigh(k, Tail(q)) = Tail(ws) /\ Head(ws) = w
      /\ q = At(old, k)
  BY WeighTyped, WeighTail DEF At
<1>2. w \in Nat
  BY StepWeightTyped
<1>3. IsFiniteSet(Part(k, ws))
  <2>1. StepWeigh(k, <<>>) = <<>> /\ IsFiniteSet(Part(k, <<>>))
    BY WeighEmpty, PartEmpty
  <2>2. QED
    BY <1>1, <2>1, HeldWith
<1>4. IsFiniteSet(Part(k, Tail(ws))) /\ C = w + D
  BY <1>1, <1>3, PartTail
<1>5. IsFiniteSet(Units(HeldOf(new))) /\ B + C = A + D
  <2> DEFINE v == Tail(q)
  <2>1. Part(k, StepWeigh(k, v)) = Part(k, Tail(ws)) /\ IsFiniteSet(Part(k, StepWeigh(k, v)))
    BY <1>1, <1>4
  <2>2. new = With(old, k, v) /\ q = At(old, k)
    BY <1>1
  <2> HIDE DEF v, q
  <2>3. /\ IsFiniteSet(Units(HeldOf(new)))
        /\ Cardinality(Units(HeldOf(new))) + Cardinality(Part(k, StepWeigh(k, q)))
             = Cardinality(Units(HeldOf(old))) + Cardinality(Part(k, StepWeigh(k, v)))
    BY <2>1, <2>2, HeldWith
  <2>4. QED
    BY <2>1, <2>3
<1>6. A \in Nat /\ B \in Nat /\ D \in Nat
  BY <1>4, <1>5, FS_CardinalityType
<1> HIDE DEF A, B, C, D, w
<1>7. A = B + w
  BY <1>2, <1>4, <1>5, <1>6
<1>8. QED
  BY <1>5, <1>7 DEF A, B, w

-----------------------------------------------------------------------------
(* The steps of an agenda, by their kind.                                  *)

\* The steps of a task, by their kind.
LEMMA SendsAre ==
  ASSUME NEW t, NEW s \in SendsOf(t)
  PROVE  /\ s.do = "send" /\ s.to \in OutOf(t) /\ s.msg \in Msgs(s.to)
         /\ s = Send(s.to, s.msg)
<1>1. PICK c \in OutOf(t) : \E m \in Msgs(c) : s = Send(c, m)
  BY DEF SendsOf
<1>2. PICK m \in Msgs(c) : s = Send(c, m)
  BY <1>1
<1>3. s.do = "send" /\ s.to = c /\ s.msg = m
  BY <1>2, SendIs
<1>4. QED
  BY <1>2, <1>3

\* What asks for the lock does nothing else.
LEMMA LocksLock ==
  ASSUME NEW t \in Tasks, NEW s \in LocksOf(t)
  PROVE  s.do \in {"read", "write"}
<1>1. \E x \in {"read", "write"} : \E m : s = Lock(x, m)
  <2>1. t \in {"msg_from_hub", "msg_to_hub", "network_admin", "update_firmware"}
    BY LocksAre
  <2>2. CASE t = "msg_to_hub"
    BY <2>2, LocksAre
  <2>3. CASE t = "network_admin"
    BY <2>3, LocksAre
  <2>4. QED
    BY <2>1, <2>2, <2>3, LocksAre
<1>2. QED
  BY <1>1, LockIs

\* What ends a guard does nothing else.
LEMMA FreesFree ==
  ASSUME NEW t, NEW s \in FreesOf(t)
  PROVE  s.do = "free" /\ \E x \in {"read", "write"} : s = Free(x)
BY DEF FreesOf, Free

\* The kind of a step tells which of the three it is.
LEMMA StepKinds ==
  ASSUME NEW t \in Tasks, NEW s \in StepsOf(t)
  PROVE  /\ s.do \in {"send", "read", "write", "free"}
         /\ s.do = "send" <=> s \in SendsOf(t)
         /\ s.do \in {"read", "write"} <=> s \in LocksOf(t)
         /\ s.do = "free" <=> s \in FreesOf(t)
<1>1. s \in SendsOf(t) => s.do = "send"
  BY SendsAre
<1>2. s \in LocksOf(t) => s.do \in {"read", "write"}
  BY LocksLock
<1>3. s \in FreesOf(t) => s.do = "free"
  BY FreesFree
<1>4. s \in SendsOf(t) \/ s \in LocksOf(t) \/ s \in FreesOf(t)
  BY DEF StepsOf
<1>5. QED
  BY <1>1, <1>2, <1>3, <1>4

\* The end of a reading guard is not that of a writing one.
LEMMA FreeModes == Free("read") # Free("write")
BY DEF Free

\* A task sends to others than itself.
LEMMA OutTyped ==
  ASSUME NEW t \in Tasks, NEW c \in OutOf(t)
  PROVE  c \in Channels /\ Reader(c) # t /\ Reader(c) \in Tasks
<1>1. CASE t \in {"core", "message"}
  BY <1>1, OutsAre DEF Channels, Reader, Services, Others, Tasks
<1>2. CASE t \in {"network", "firmware"}
  BY <1>2, OutsAre DEF Channels, Reader, Services, Others, Tasks
<1>3. CASE t \in {"msg_to_hub", "msg_from_hub", "msg_to_server", "msg_from_server"}
  BY <1>3, OutsAre DEF Channels, Reader, Tx, Tasks
<1>4. CASE t \in {"network_admin", "network_dba", "update_firmware"}
  BY <1>4, OutsAre DEF Channels, Reader, Tasks
<1>5. CASE t \in Others
  BY <1>5, OutsAre DEF Channels, Reader, Services, Others, Tasks
<1>6. QED
  BY <1>1, <1>2, <1>3, <1>4, <1>5 DEF Tasks

\* What comes in is what its channel carries.
LEMMA InputsTyped ==
  ASSUME NEW s \in DOMAIN Inputs, NEW m \in Inputs[s]
  PROVE  /\ s \in Others /\ s \in Tasks /\ <<s, "core">> \in OutOf(s)
         /\ <<s, "core">> \in Channels /\ Reader(<<s, "core">>) = "core"
         /\ m \in Msgs(<<s, "core">>) /\ m[1] # "BatchNetwork"
         /\ ~ IsNotice(m)
<1>1. s \in {"mqtt", "grpc", "data", "heartbeat"}
  BY DEF Inputs
<1>2. /\ s \in Others /\ s \in Tasks /\ <<s, "core">> \in OutOf(s)
      /\ <<s, "core">> \in Channels /\ Reader(<<s, "core">>) = "core"
  BY <1>1, OutsAre DEF Channels, Services, Others, Tasks, Reader
<1>3. CASE s = "mqtt"
  BY <1>2, <1>3, MsgsAre DEF Inputs, HubMsgs, LocalMsgs, Modes, IsNotice
<1>4. CASE s = "grpc"
  BY <1>2, <1>4, MsgsAre DEF Inputs, GrpcMsgs, Changes, Notices, IsNotice
<1>5. CASE s = "data"
  BY <1>2, <1>5, MsgsAre DEF Inputs, Inserted, Updated, Modes, IsNotice
<1>6. CASE s = "heartbeat"
  BY <1>2, <1>6, MsgsAre DEF Inputs, StatusMsgs, Modes, IsNotice
<1>7. QED
  BY <1>1, <1>2, <1>3, <1>4, <1>5, <1>6

\* The units of a short turn.
Sized(t, a, w) ==
    IsFiniteSet(Part(t, StepWeigh(t, a))) /\ Cardinality(Part(t, StepWeigh(t, a))) <= w

\* An agenda of nothing has no load.
LEMMA EmptySized ==
  ASSUME NEW t, NEW w \in Nat
  PROVE  Sized(t, <<>>, w)
<1>1. StepWeigh(t, <<>>) = <<>>
  BY WeighEmpty
<1>2. IsFiniteSet(Part(t, <<>>)) /\ Cardinality(Part(t, <<>>)) = 0
  BY PartEmpty
<1>3. QED
  BY <1>1, <1>2 DEF Sized

\* The load of an agenda of up to three steps.
LEMMA ShortSized ==
  ASSUME NEW t, NEW s1, NEW s2, NEW s3, NEW w \in Nat
  PROVE  /\ Sized(t, <<>>, w)
         /\ StepWeight(t, s1) <= w => Sized(t, <<s1>>, w)
         /\ StepWeight(t, s1) + StepWeight(t, s2) <= w => Sized(t, <<s1, s2>>, w)
         /\ StepWeight(t, s1) + StepWeight(t, s2) + StepWeight(t, s3) <= w
              => Sized(t, <<s1, s2, s3>>, w)
<1>1. /\ StepWeigh(t, <<s1>>) = <<StepWeight(t, s1)>>
      /\ StepWeigh(t, <<s1, s2>>) = <<StepWeight(t, s1), StepWeight(t, s2)>>
      /\ StepWeigh(t, <<s1, s2, s3>>)
           = <<StepWeight(t, s1), StepWeight(t, s2), StepWeight(t, s3)>>
  BY DEF StepWeigh
<1>2. /\ StepWeight(t, s1) \in Nat /\ StepWeight(t, s2) \in Nat /\ StepWeight(t, s3) \in Nat
  BY StepWeightTyped
<1> DEFINE w1 == StepWeight(t, s1)
           w2 == StepWeight(t, s2)
           w3 == StepWeight(t, s3)
<1>3. Sized(t, <<>>, w)
  BY EmptySized
<1> HIDE DEF w1, w2, w3
<1>4. /\ IsFiniteSet(Part(t, <<w1>>)) /\ Cardinality(Part(t, <<w1>>)) = w1
      /\ IsFiniteSet(Part(t, <<w1, w2>>)) /\ Cardinality(Part(t, <<w1, w2>>)) = w1 + w2
      /\ IsFiniteSet(Part(t, <<w1, w2, w3>>))
      /\ Cardinality(Part(t, <<w1, w2, w3>>)) = w1 + w2 + w3
  <2>1. w1 \in Nat /\ w2 \in Nat /\ w3 \in Nat
    BY <1>2 DEF w1, w2, w3
  <2>2. QED
    BY <2>1, PartShort
<1>5. /\ w1 <= w => Sized(t, <<s1>>, w)
      /\ w1 + w2 <= w => Sized(t, <<s1, s2>>, w)
      /\ w1 + w2 + w3 <= w => Sized(t, <<s1, s2, s3>>, w)
  <2>1. /\ StepWeigh(t, <<s1>>) = <<w1>> /\ StepWeigh(t, <<s1, s2>>) = <<w1, w2>>
        /\ StepWeigh(t, <<s1, s2, s3>>) = <<w1, w2, w3>>
    BY <1>1 DEF w1, w2, w3
  <2>2. QED
    BY <1>4, <2>1 DEF Sized
<1>6. QED
  BY <1>3, <1>5 DEF w1, w2, w3

\* A turn that begins: sends, or one request for the lock.
LEMMA TurnFits ==
  ASSUME NEW t \in Tasks, NEW m, NEW turn, GoodTurn(t, m, turn)
  PROVE  /\ turn \in Seq(SendsOf(t) \cup LocksOf(t)) /\ Shape(turn)
         /\ Sized(t, turn, Weight(t, m))
<1> DEFINE w == Weight(t, m)
<1>0. w \in Nat
  BY WeightTyped
<1>1. CASE turn = <<>>
  <2>1. turn \in Seq(SendsOf(t) \cup LocksOf(t)) /\ Shape(turn)
    BY <1>1 DEF Shape
  <2>2. QED
    BY <1>0, <1>1, <2>1, EmptySized
<1>2. ASSUME NEW s \in SendsOf(t) \cup LocksOf(t), turn = <<s>>, StepWeight(t, s) <= w
      PROVE  turn \in Seq(SendsOf(t) \cup LocksOf(t)) /\ Shape(turn) /\ Sized(t, turn, w)
  <2>1. turn \in Seq(SendsOf(t) \cup LocksOf(t)) /\ Shape(turn)
    <3>1. s.do # "free"
      BY SendsAre, LocksLock
    <3>2. QED
      BY <1>2, <3>1 DEF Shape
  <2>2. QED
    BY <1>0, <1>2, <2>1, ShortSized
<1>3. ASSUME NEW s1 \in SendsOf(t), NEW s2 \in SendsOf(t), turn = <<s1, s2>>,
             StepWeight(t, s1) + StepWeight(t, s2) <= w
      PROVE  turn \in Seq(SendsOf(t) \cup LocksOf(t)) /\ Shape(turn) /\ Sized(t, turn, w)
  <2>1. s1.do = "send" /\ s2.do = "send"
    BY SendsAre
  <2>2. turn \in Seq(SendsOf(t) \cup LocksOf(t)) /\ Shape(turn)
    BY <1>3, <2>1 DEF Shape
  <2>3. QED
    BY <1>0, <1>3, <2>2, ShortSized
<1>4. ASSUME t = "msg_to_server", m = <<"ToServer", "Batch">>, NEW n \in 0..Tables,
             turn = [i \in 1..n |-> Send(Tx, <<"EdgeUpload", "upload">>)]
      PROVE  turn \in Seq(SendsOf(t) \cup LocksOf(t)) /\ Shape(turn) /\ Sized(t, turn, w)
  <2> DEFINE s == Send(Tx, <<"EdgeUpload", "upload">>)
  <2>0. n \in Nat /\ n <= Tables
    BY BoundsAssumption
  <2>1. s \in SendsOf(t)
    <3>1. Tx \in OutOf(t) /\ <<"EdgeUpload", "upload">> \in Msgs(Tx)
      BY <1>4, OutsAre, MsgsAre DEF TxMsgs, EdgeUploads
    <3>2. QED
      BY <3>1, SendTyped
  <2>2. s.do = "send" /\ StepWeight(t, s) = 1
    BY SendIs, SendWeighs DEF Weight, Modes, Tx, Reader
  <2>3. turn \in Seq(SendsOf(t) \cup LocksOf(t)) /\ Shape(turn)
    <3>1. turn \in [1..n -> SendsOf(t) \cup LocksOf(t)]
      BY <1>4, <2>1
    <3>2. \A i \in DOMAIN turn : turn[i] = s
      BY <1>4
    <3>3. QED
      BY <2>0, <2>2, <3>1, <3>2 DEF Shape
  <2>4. StepWeigh(t, turn) = [i \in 1..n |-> 1]
    BY <1>4, <2>2 DEF StepWeigh
  <2>5. w = Tables
    BY <1>4 DEF Weight, Modes
  <2>6. QED
    BY <2>0, <2>3, <2>4, <2>5, PartOnes DEF Sized
<1>5. QED
  BY <1>1, <1>2, <1>3, <1>4 DEF GoodTurn

\* A turn that goes on under the lock.
LEMMA HoldFits ==
  ASSUME NEW t \in Tasks, NEW x \in {"read", "write"}, NEW m, NEW turn, GoodHold(t, x, m, turn)
  PROVE  /\ turn \in Seq(StepsOf(t)) /\ Shape(turn) /\ Sized(t, turn, Weight(t, m))
         /\ \A y : (\E i \in DOMAIN turn : turn[i] = Free(y)) => Free(y) = Free(x)
<1> DEFINE w == Weight(t, m)
           Goal == /\ turn \in Seq(StepsOf(t)) /\ Shape(turn) /\ Sized(t, turn, w)
                   /\ \A y : (\E i \in DOMAIN turn : turn[i] = Free(y)) => Free(y) = Free(x)
<1>0. w \in Nat
  BY WeightTyped
<1>1. /\ \A s \in SendsOf(t) : s \in StepsOf(t) /\ s.do = "send"
      /\ \A s \in LocksOf(t) : s \in StepsOf(t) /\ s.do # "free"
      /\ \A s \in FreesOf(t) : s \in StepsOf(t)
      /\ \A y : Free(y).do = "free"
  BY SendsAre, LocksLock DEF StepsOf, Free
<1>2. StepWeight(t, Free(x)) = 0
  BY <1>1 DEF StepWeight
<1>3. CASE turn = <<>>
  <2>1. turn \in Seq(StepsOf(t)) /\ Shape(turn) /\ DOMAIN turn = {}
    BY <1>3 DEF Shape
  <2>2. QED
    BY <1>0, <1>3, <2>1, EmptySized
<1>4. ASSUME NEW s \in SendsOf(t) \cup LocksOf(t), turn = <<s>>, StepWeight(t, s) <= w
      PROVE  Goal
  <2>1. turn \in Seq(StepsOf(t)) /\ Shape(turn) /\ \A i \in DOMAIN turn : turn[i].do # "free"
    BY <1>1, <1>4 DEF Shape
  <2>2. QED
    BY <1>0, <1>1, <1>4, <2>1, ShortSized
<1>5. ASSUME NEW s1 \in SendsOf(t), NEW s2 \in SendsOf(t), turn = <<s1, s2>>,
             StepWeight(t, s1) + StepWeight(t, s2) <= w
      PROVE  Goal
  <2>1. turn \in Seq(StepsOf(t)) /\ Shape(turn) /\ \A i \in DOMAIN turn : turn[i].do # "free"
    BY <1>1, <1>5 DEF Shape
  <2>2. QED
    BY <1>0, <1>1, <1>5, <2>1, ShortSized
<1>6. ASSUME NEW s \in SendsOf(t), turn = <<s, Free(x)>>, Free(x) \in FreesOf(t),
             StepWeight(t, s) <= w, Calm(s)
      PROVE  Goal
  <2>1. turn \in Seq(StepsOf(t)) /\ Shape(turn)
        /\ \A i \in DOMAIN turn : turn[i].do = "free" => turn[i] = Free(x)
    BY <1>1, <1>6 DEF Shape
  <2>2. StepWeight(t, s) + StepWeight(t, Free(x)) <= w
    BY <1>2, <1>6, StepWeightTyped
  <2>3. QED
    BY <1>0, <1>1, <1>6, <2>1, <2>2, ShortSized
<1>7. ASSUME NEW s1 \in SendsOf(t), NEW s2 \in SendsOf(t), turn = <<s1, s2, Free(x)>>,
             Free(x) \in FreesOf(t), StepWeight(t, s1) + StepWeight(t, s2) <= w,
             Calm(s1), Calm(s2)
      PROVE  Goal
  <2>1. turn \in Seq(StepsOf(t)) /\ Shape(turn)
        /\ \A i \in DOMAIN turn : turn[i].do = "free" => turn[i] = Free(x)
    BY <1>1, <1>7 DEF Shape
  <2>2. StepWeight(t, s1) + StepWeight(t, s2) + StepWeight(t, Free(x)) <= w
    BY <1>2, <1>7, StepWeightTyped
  <2>3. QED
    BY <1>0, <1>1, <1>7, <2>1, <2>2, ShortSized
<1>8. QED
  BY <1>3, <1>4, <1>5, <1>6, <1>7 DEF GoodHold

-----------------------------------------------------------------------------
(* The invariant with the bound on the load, and the steps that keep it.   *)

\* The bound on the load.
LoadOK == /\ IsFiniteSet(Units(QueuedOf(chan))) /\ IsFiniteSet(Units(HeldOf(agenda)))
          /\ Cardinality(Units(QueuedOf(chan))) + Cardinality(Units(HeldOf(agenda))) <= Load

\* The inductive invariant.
Safe == Inv /\ LoadOK

\* The two parts of the load are numbers.
LEMMA LoadTyped ==
  ASSUME LoadOK
  PROVE  /\ Cardinality(Units(QueuedOf(chan))) \in Nat
         /\ Cardinality(Units(HeldOf(agenda))) \in Nat
         /\ Load \in Nat
BY FS_CardinalityType, BoundsAssumption DEF LoadOK

\* A channel takes or gives a message.
LEMMA ChanChanges ==
  ASSUME ChanOK, NEW c \in Channels, Reader(c) \in Tasks, NEW q \in Seq(Msgs(c)),
         Len(q) <= Cap, chan' = With(chan, c, q)
  PROVE  ChanOK'
<1>1. /\ \A x : x \in DOMAIN chan' <=> (IF x = c THEN q # <<>> ELSE x \in DOMAIN chan)
      /\ \A x \in DOMAIN chan' : chan'[x] = IF x = c THEN q ELSE chan[x]
  BY WithIs
<1>2. q # <<>> => Len(q) \in 1..Cap
  BY BoundsAssumption
<1>3. DOMAIN chan' \subseteq {x \in Channels : Reader(x) \in Tasks}
  BY <1>1 DEF ChanOK
<1>4. ASSUME NEW x \in DOMAIN chan'
      PROVE  chan'[x] \in Seq(Msgs(x)) /\ Len(chan'[x]) \in 1..Cap
  BY <1>1, <1>2 DEF ChanOK
<1>5. QED
  BY <1>3, <1>4 DEF ChanOK

\* A task has another agenda.
LEMMA AgendaChanges ==
  ASSUME AgendaOK, NEW t \in Tasks, NEW a \in Seq(StepsOf(t)), Shape(a),
         agenda' = With(agenda, t, a)
  PROVE  AgendaOK'
<1>1. /\ \A x : x \in DOMAIN agenda' <=> (IF x = t THEN a # <<>> ELSE x \in DOMAIN agenda)
      /\ \A x \in DOMAIN agenda' : agenda'[x] = IF x = t THEN a ELSE agenda[x]
  BY WithIs
<1>2. DOMAIN agenda' \subseteq Tasks
  BY <1>1 DEF AgendaOK
<1>3. ASSUME NEW x \in DOMAIN agenda'
      PROVE  agenda'[x] \in Seq(StepsOf(x)) /\ agenda'[x] # <<>> /\ Shape(agenda'[x])
  <2>1. CASE x = t
    BY <1>1, <2>1
  <2>2. CASE x # t
    BY <1>1, <2>2 DEF AgendaOK
  <2>3. QED
    BY <2>1, <2>2
<1>4. QED
  BY <1>2, <1>3 DEF AgendaOK

\* Those who wait go on waiting.
LEMMA WaitStays ==
  ASSUME WaitOK, NEW t, NEW a, agenda' = With(agenda, t, a), waiting' = waiting,
         \A i \in DOMAIN waiting : waiting[i] # t
  PROVE  WaitOK'
<1>1. /\ \A x : x \in DOMAIN agenda' <=> (IF x = t THEN a # <<>> ELSE x \in DOMAIN agenda)
      /\ \A x \in DOMAIN agenda' : agenda'[x] = IF x = t THEN a ELSE agenda[x]
  BY WithIs
<1>2. ASSUME NEW i \in DOMAIN waiting
      PROVE  waiting[i] \in DOMAIN agenda' /\ WantsLock(waiting[i])'
  <2>1. waiting[i] \in DOMAIN agenda /\ waiting[i] # t
    BY DEF WaitOK
  <2>2. agenda'[waiting[i]] = agenda[waiting[i]] /\ waiting[i] \in DOMAIN agenda'
    BY <1>1, <2>1
  <2>3. QED
    BY <2>2 DEF WaitOK, WantsLock
<1>3. QED
  BY <1>2 DEF WaitOK

\* An agenda at whose end a guard is dropped.
HasFree(a, y) == \E i \in DOMAIN a : a[i] = Free(y)

\* Who holds the lock, by the agenda.
LEMMA HoldersAre ==
  ASSUME NEW M
  PROVE  \A t : t \in Holders(M) <=> t \in DOMAIN agenda /\ \E x \in M : HasFree(agenda[t], x)
BY DEF Holders, HasFree

\* Who holds the lock after the agenda of one task changed.
LEMMA HoldersNext ==
  ASSUME NEW t, NEW a, agenda' = With(agenda, t, a), NEW M
  PROVE  \A x : x \in Holders(M)' <=>
            (IF x = t THEN a # <<>> /\ \E y \in M : HasFree(a, y) ELSE x \in Holders(M))
<1>1. /\ \A x : x \in DOMAIN agenda' <=> (IF x = t THEN a # <<>> ELSE x \in DOMAIN agenda)
      /\ \A x \in DOMAIN agenda' : agenda'[x] = IF x = t THEN a ELSE agenda[x]
  BY WithIs
<1>2. \A x : x \in Holders(M)' <=> x \in DOMAIN agenda' /\ \E y \in M : HasFree(agenda'[x], y)
  BY DEF Holders, HasFree
<1>3. QED
  BY <1>1, <1>2, HoldersAre

\* No new guard: what was exclusive stays so.
LEMMA ExclusiveStays ==
  ASSUME Exclusive, NEW t, NEW a, agenda' = With(agenda, t, a),
         \A y : HasFree(a, y) => t \in DOMAIN agenda /\ HasFree(agenda[t], y)
  PROVE  Exclusive'
<1>1. ASSUME NEW M
      PROVE  \A x : x \in Holders(M)' => x \in Holders(M)
  <2>1. \A x : x \in Holders(M)' <=>
            (IF x = t THEN a # <<>> /\ \E y \in M : HasFree(a, y) ELSE x \in Holders(M))
    BY HoldersNext
  <2>2. QED
    BY <2>1, HoldersAre
<1>2. ASSUME NEW x \in Holders({"write"})'
      PROVE  Holders({"read", "write"})' = {x}
  <2>1. x \in Holders({"write"}) /\ Holders({"read", "write"}) = {x}
    BY <1>1, <1>2 DEF Exclusive
  <2>2. \A z : z \in Holders({"read", "write"})' => z = x
    BY <1>1, <2>1
  <2>3. x \in Holders({"read", "write"})'
    BY <1>2 DEF Holders
  <2>4. QED
    BY <2>2, <2>3
<1>3. QED
  BY <1>2 DEF Exclusive

\* A message that comes in keeps everything, by the room that is left for it.
LEMMA ArrivesSafe ==
  ASSUME Safe, NEW s \in DOMAIN Inputs, Arrives(s, Load - UnderWay)
  PROVE  Safe'
<1> DEFINE c == <<s, "core">>
<1>1. PICK m \in Inputs[s] : /\ Weight("core", m) <= Load - UnderWay
                             /\ agenda' = With(agenda, s, <<Send(c, m)>>)
  BY DEF Arrives
<1>2. /\ s \notin DOMAIN agenda
      /\ chan' = chan /\ waiting' = waiting /\ cache' = cache
  BY DEF Arrives
<1> DEFINE turn == <<Send(c, m)>>
           w == Weight("core", m)
<1>3. s \in Tasks /\ c \in OutOf(s) /\ Reader(c) = "core" /\ m \in Msgs(c)
  BY InputsTyped
<1>4. /\ Send(c, m) \in SendsOf(s) /\ Send(c, m).do = "send"
      /\ StepWeight(s, Send(c, m)) = w
  BY <1>3, SendIs, SendTyped, SendWeighs
<1>5. w \in Nat
  BY WeightTyped
<1>6. turn \in Seq(StepsOf(s)) /\ Shape(turn) /\ Sized(s, turn, w)
  <2>1. Send(c, m) \in StepsOf(s)
    BY <1>4 DEF StepsOf
  <2>2. w <= w
    BY <1>5
  <2> HIDE DEF c, w
  <2>3. Sized(s, turn, w)
    BY <1>4, <1>5, <2>2, ShortSized
  <2>4. turn \in Seq(StepsOf(s)) /\ Shape(turn)
    BY <1>4, <2>1 DEF Shape
  <2>5. QED
    BY <2>3, <2>4
<1>7. ChanOK'
  BY <1>2 DEF Safe, Inv, ChanOK
<1>8. AgendaOK'
  BY <1>1, <1>3, <1>6, AgendaChanges DEF Safe, Inv
<1>9. WaitOK'
  <2>1. \A i \in DOMAIN waiting : waiting[i] # s
    BY <1>2 DEF Safe, Inv, WaitOK
  <2>2. QED
    BY <1>1, <1>2, <2>1, WaitStays DEF Safe, Inv
<1>10. Exclusive' /\ cache' \in Modes \cup {"absent"}
  <2>1. \A y : ~ HasFree(turn, y)
    BY <1>4 DEF HasFree, Free
  <2>2. QED
    BY <1>1, <1>2, <2>1, ExclusiveStays DEF Safe, Inv
<1>11. LoadOK'
  <2> DEFINE A == Cardinality(Units(QueuedOf(chan)))
             B == Cardinality(Units(HeldOf(agenda)))
             B2 == Cardinality(Units(HeldOf(agenda')))
             d == Cardinality(Part(s, StepWeigh(s, turn)))
  <2>1. IsFiniteSet(Units(QueuedOf(chan))) /\ IsFiniteSet(Units(HeldOf(agenda)))
    BY DEF Safe, LoadOK
  <2>2. IsFiniteSet(Part(s, StepWeigh(s, turn))) /\ d <= w
    BY <1>6 DEF Sized
  <2>3. IsFiniteSet(Units(HeldOf(agenda'))) /\ B2 = B + d
    <3>1. At(agenda, s) = <<>>
      BY <1>2 DEF At
    <3>2. Cardinality(Part(s, StepWeigh(s, At(agenda, s)))) = 0
      BY <3>1, WeighEmpty, PartEmpty
    <3>3. /\ IsFiniteSet(Units(HeldOf(agenda')))
          /\ B2 + Cardinality(Part(s, StepWeigh(s, At(agenda, s)))) = B + d
      BY <1>1, <2>1, <2>2, HeldWith
    <3>4. B2 \in Nat
      BY <3>3, FS_CardinalityType
    <3> HIDE DEF B, d, B2
    <3>5. QED
      BY <3>2, <3>3, <3>4
  <2>4. UnderWay = A + B
    BY LoadIs
  <2>5. A \in Nat /\ B \in Nat /\ Load \in Nat /\ d \in Nat
    BY <2>2, FS_CardinalityType, LoadTyped DEF Safe
  <2>6. w <= Load - UnderWay
    BY <1>1
  <2> HIDE DEF A, B, B2, d, w
  <2>7. A + B2 <= Load
    BY <1>5, <2>2, <2>3, <2>4, <2>5, <2>6
  <2>8. QED
    BY <1>2, <2>1, <2>3, <2>7 DEF LoadOK, A, B2
<1>12. QED
  BY <1>7, <1>8, <1>9, <1>10, <1>11 DEF Safe, Inv

\* A turn that begins weighs no more than the message it began with.
LEMMA TakesSafe ==
  ASSUME Safe, NEW c \in DOMAIN chan, Takes(Reader(c), c)
  PROVE  Safe'
<1> DEFINE t == Reader(c)
           q == chan[c]
           m == Head(q)
<1>1. PICK turn \in Turns(t, c, m) : agenda' = With(agenda, t, turn)
  BY DEF Takes
<1>2. /\ t \notin DOMAIN agenda /\ chan' = With(chan, c, Tail(q))
      /\ waiting' = waiting /\ cache' = cache
  BY DEF Takes
<1>3. c \in Channels /\ t \in Tasks /\ q \in Seq(Msgs(c)) /\ q # <<>> /\ Len(q) \in 1..Cap
  BY DEF Safe, Inv, ChanOK
<1>4. m \in Msgs(c) /\ Tail(q) \in Seq(Msgs(c)) /\ Len(Tail(q)) <= Cap
  BY <1>3, BoundsAssumption
<1>5. GoodTurn(t, m, turn)
  BY <1>3, <1>4, TurnsGood
<1>6. /\ turn \in Seq(SendsOf(t) \cup LocksOf(t)) /\ Shape(turn)
      /\ Sized(t, turn, Weight(t, m))
  BY <1>3, <1>5, TurnFits
<1>7. turn \in Seq(StepsOf(t)) /\ \A i \in DOMAIN turn : turn[i].do # "free"
  <2>1. \A i \in DOMAIN turn : turn[i] \in SendsOf(t) \cup LocksOf(t)
    BY <1>6
  <2>2. \A s \in SendsOf(t) \cup LocksOf(t) : s \in StepsOf(t) /\ s.do # "free"
    BY <1>3, SendsAre, LocksLock DEF StepsOf
  <2>3. SendsOf(t) \cup LocksOf(t) \subseteq StepsOf(t)
    BY DEF StepsOf
  <2>4. QED
    BY <1>6, <2>1, <2>2, <2>3
<1>8. ChanOK' /\ AgendaOK'
  BY <1>1, <1>2, <1>3, <1>4, <1>6, <1>7, ChanChanges, AgendaChanges DEF Safe, Inv
<1>9. WaitOK'
  <2>1. \A i \in DOMAIN waiting : waiting[i] # t
    BY <1>2 DEF Safe, Inv, WaitOK
  <2>2. QED
    BY <1>1, <1>2, <2>1, WaitStays DEF Safe, Inv
<1>10. Exclusive' /\ cache' \in Modes \cup {"absent"}
  <2>1. \A y : ~ HasFree(turn, y)
    BY <1>7 DEF HasFree, Free
  <2>2. QED
    BY <1>1, <1>2, <2>1, ExclusiveStays DEF Safe, Inv
<1>11. LoadOK'
  <2> DEFINE A == Cardinality(Units(QueuedOf(chan)))
             B == Cardinality(Units(HeldOf(agenda)))
             A2 == Cardinality(Units(QueuedOf(chan')))
             B2 == Cardinality(Units(HeldOf(agenda')))
             w == Weight(t, m)
             d == Cardinality(Part(t, StepWeigh(t, turn)))
  <2>1. IsFiniteSet(Units(QueuedOf(chan))) /\ IsFiniteSet(Units(HeldOf(agenda)))
    BY DEF Safe, LoadOK
  <2>2. IsFiniteSet(Units(QueuedOf(chan'))) /\ A = A2 + w
    BY <1>2, <1>3, <2>1, QueuedTail
  <2>3. IsFiniteSet(Part(t, StepWeigh(t, turn))) /\ d <= w
    BY <1>6 DEF Sized
  <2>4. IsFiniteSet(Units(HeldOf(agenda'))) /\ B2 = B + d
    <3>1. At(agenda, t) = <<>>
      BY <1>2 DEF At
    <3>2. Cardinality(Part(t, StepWeigh(t, At(agenda, t)))) = 0
      BY <3>1, WeighEmpty, PartEmpty
    <3>3. /\ IsFiniteSet(Units(HeldOf(agenda')))
          /\ B2 + Cardinality(Part(t, StepWeigh(t, At(agenda, t)))) = B + d
      BY <1>1, <2>1, <2>3, HeldWith
    <3>4. B2 \in Nat
      BY <3>3, FS_CardinalityType
    <3> HIDE DEF B, d, B2
    <3>5. QED
      BY <3>2, <3>3, <3>4
  <2>5. A + B <= Load
    BY DEF Safe, LoadOK
  <2>6. /\ A2 \in Nat /\ B2 \in Nat /\ A \in Nat /\ B \in Nat /\ d \in Nat /\ w \in Nat
        /\ Load \in Nat
    BY <2>1, <2>2, <2>3, <2>4, FS_CardinalityType, WeightTyped, BoundsAssumption
  <2> HIDE DEF A, B, A2, B2, w, d
  <2>7. A2 + B2 <= Load
    BY <2>2, <2>3, <2>4, <2>5, <2>6
  <2>8. QED
    BY <2>2, <2>4, <2>7 DEF LoadOK, A2, B2
<1>12. QED
  BY <1>8, <1>9, <1>10, <1>11 DEF Safe, Inv

\* What is read of a channel, an empty one too.
LEMMA AtTyped ==
  ASSUME ChanOK, NEW c
  PROVE  At(chan, c) \in Seq(Msgs(c)) /\ Len(At(chan, c)) <= Cap
<1>1. CASE c \in DOMAIN chan
  BY <1>1 DEF At, ChanOK
<1>2. CASE c \notin DOMAIN chan
  BY <1>2, BoundsAssumption DEF At
<1>3. QED
  BY <1>1, <1>2

\* The agenda of a task, at its head.
LEMMA AtHead ==
  ASSUME Safe, NEW t \in DOMAIN agenda
  PROVE  /\ t \in Tasks /\ agenda[t] \in Seq(StepsOf(t)) /\ agenda[t] # <<>>
         /\ Head(agenda[t]) \in StepsOf(t) /\ Tail(agenda[t]) \in Seq(StepsOf(t))
         /\ Shape(agenda[t]) /\ Shape(Tail(agenda[t]))
         /\ Head(agenda[t]).do \in {"read", "write"} => agenda[t] = <<Head(agenda[t])>>
         /\ \A y : HasFree(Tail(agenda[t]), y) => HasFree(agenda[t], y)
<1> DEFINE a == agenda[t]
<1>1. t \in Tasks /\ a \in Seq(StepsOf(t)) /\ a # <<>> /\ Shape(a)
  BY DEF Safe, Inv, AgendaOK
<1>2. /\ Len(a) \in Nat /\ Len(a) >= 1 /\ Head(a) = a[1] /\ a[1] \in StepsOf(t)
      /\ Tail(a) \in Seq(StepsOf(t)) /\ Len(Tail(a)) = Len(a) - 1
      /\ \A i \in 1..(Len(a) - 1) : Tail(a)[i] = a[i + 1]
      /\ DOMAIN a = 1..Len(a) /\ DOMAIN Tail(a) = 1..(Len(a) - 1)
  BY <1>1
<1> HIDE DEF a
<1>3. \A i \in DOMAIN Tail(a) : i + 1 \in DOMAIN a /\ Tail(a)[i] = a[i + 1] /\ Len(a) # 1
  BY <1>2
<1>4. Shape(Tail(a))
  BY <1>1, <1>3 DEF Shape
<1>5. Head(a).do \in {"read", "write"} => a = <<Head(a)>>
  <2>1. Head(a).do \in {"read", "write"} => Len(a) = 1
    BY <1>1, <1>2 DEF Shape
  <2>2. Len(a) = 1 => a = <<a[1]>>
    BY <1>1, <1>2
  <2>3. QED
    BY <1>2, <2>1, <2>2
<1>6. \A y : HasFree(Tail(a), y) => HasFree(a, y)
  BY <1>3 DEF HasFree
<1>7. QED
  BY <1>1, <1>2, <1>4, <1>5, <1>6 DEF a

\* Only who asks for the lock waits for it.
LEMMA WaitersWant ==
  ASSUME Safe, NEW t \in DOMAIN agenda, ~ WantsLock(t)
  PROVE  \A i \in DOMAIN waiting : waiting[i] # t
BY DEF Safe, Inv, WaitOK

\* A step is done.
LEMMA StepDone ==
  ASSUME Safe, NEW t \in DOMAIN agenda, ~ WantsLock(t),
         agenda' = With(agenda, t, Tail(agenda[t])), waiting' = waiting, cache' = cache
  PROVE  AgendaOK' /\ WaitOK' /\ Exclusive' /\ cache' \in Modes \cup {"absent"}
<1>1. AgendaOK'
  BY AtHead, AgendaChanges DEF Safe, Inv
<1>2. WaitOK'
  BY WaitersWant, WaitStays DEF Safe, Inv
<1>3. Exclusive'
  BY AtHead, ExclusiveStays DEF Safe, Inv
<1>4. QED
  BY <1>1, <1>2, <1>3 DEF Safe, Inv

\* A message that goes on is one its channel may carry, and there is room for it.
LEMMA SendsSafe ==
  ASSUME Safe, NEW t \in DOMAIN agenda, Sends(t)
  PROVE  Safe'
<1> DEFINE a == agenda[t]
           s == Head(a)
           c == s.to
           m == s.msg
           q == At(chan, c)
<1>1. /\ s.do = "send" /\ agenda' = With(agenda, t, Tail(a))
      /\ waiting' = waiting /\ cache' = cache
  BY DEF Sends
<1>2. Len(q) < Cap /\ chan' = With(chan, c, Append(q, m))
  BY DEF Sends
<1>3. t \in Tasks /\ s \in StepsOf(t) /\ a \in Seq(StepsOf(t)) /\ a # <<>>
  BY AtHead
<1>4. s \in SendsOf(t)
  BY <1>1, <1>3, StepKinds
<1>5. c \in OutOf(t) /\ m \in Msgs(c) /\ s = Send(c, m)
  BY <1>4, SendsAre
<1>6. c \in Channels /\ Reader(c) \in Tasks
  BY <1>3, <1>5, OutTyped
<1>7. q \in Seq(Msgs(c))
  BY AtTyped DEF Safe, Inv
<1>8. AgendaOK' /\ WaitOK' /\ Exclusive' /\ cache' \in Modes \cup {"absent"}
  <2>1. ~ WantsLock(t)
    BY <1>1 DEF WantsLock
  <2>2. QED
    BY <1>1, <2>1, StepDone
<1>9. ChanOK'
  <2>1. Append(q, m) \in Seq(Msgs(c)) /\ Len(Append(q, m)) <= Cap
    BY <1>2, <1>5, <1>7, BoundsAssumption
  <2>2. QED
    BY <1>2, <1>6, <2>1, ChanChanges DEF Safe, Inv
<1>10. LoadOK'
  <2> DEFINE A == Cardinality(Units(QueuedOf(chan)))
             B == Cardinality(Units(HeldOf(agenda)))
             A2 == Cardinality(Units(QueuedOf(chan')))
             B2 == Cardinality(Units(HeldOf(agenda')))
             w == Weight(Reader(c), m)
  <2>1. IsFiniteSet(Units(QueuedOf(chan))) /\ IsFiniteSet(Units(HeldOf(agenda)))
    BY DEF Safe, LoadOK
  <2>2. w \in Nat /\ StepWeight(t, s) = w
    BY <1>5, SendWeighs, WeightTyped
  <2>3. IsFiniteSet(Units(HeldOf(agenda'))) /\ B = B2 + w
    <3>1. IsFiniteSet(Units(HeldOf(agenda'))) /\ B = B2 + StepWeight(t, s)
      BY <1>1, <1>3, <2>1, HeldTail
    <3>2. QED
      BY <2>2, <3>1
  <2>4. IsFiniteSet(Units(QueuedOf(chan'))) /\ A2 = A + w
    BY <1>2, <1>5, <1>7, <2>1, QueuedAppend
  <2>5. A + B <= Load
    BY DEF Safe, LoadOK
  <2>6. A2 \in Nat /\ B2 \in Nat /\ A \in Nat /\ B \in Nat /\ Load \in Nat
    BY <2>1, <2>3, <2>4, FS_CardinalityType, BoundsAssumption
  <2> HIDE DEF A, B, A2, B2, w
  <2>7. A2 + B2 <= Load
    BY <2>2, <2>3, <2>4, <2>5, <2>6
  <2>8. QED
    BY <2>3, <2>4, <2>7 DEF LoadOK, A2, B2
<1>11. QED
  BY <1>8, <1>9, <1>10 DEF Safe, Inv

\* The end of a guard.
LEMMA FreesSafe ==
  ASSUME Safe, NEW t \in DOMAIN agenda, Frees(t)
  PROVE  Safe'
<1> DEFINE a == agenda[t]
<1>1. /\ Head(a).do = "free" /\ agenda' = With(agenda, t, Tail(a))
      /\ chan' = chan /\ waiting' = waiting /\ cache' = cache
  BY DEF Frees
<1>2. AgendaOK' /\ WaitOK' /\ Exclusive' /\ cache' \in Modes \cup {"absent"}
  <2>1. ~ WantsLock(t)
    BY <1>1 DEF WantsLock
  <2>2. QED
    BY <1>1, <2>1, StepDone
<1>3. ChanOK'
  BY <1>1 DEF Safe, Inv, ChanOK
<1>4. LoadOK'
  <2>1. IsFiniteSet(Units(QueuedOf(chan))) /\ IsFiniteSet(Units(HeldOf(agenda)))
    BY DEF Safe, LoadOK
  <2>2. a \in Seq(StepsOf(t)) /\ a # <<>>
    BY AtHead
  <2>3. StepWeight(t, Head(a)) = 0
    BY <1>1 DEF StepWeight
  <2>4. /\ IsFiniteSet(Units(HeldOf(agenda')))
        /\ Cardinality(Units(HeldOf(agenda))) = Cardinality(Units(HeldOf(agenda'))) + 0
    BY <1>1, <2>1, <2>2, <2>3, HeldTail
  <2>5. Cardinality(Units(HeldOf(agenda'))) \in Nat
    BY <2>4, FS_CardinalityType
  <2>6. Cardinality(Units(HeldOf(agenda))) = Cardinality(Units(HeldOf(agenda')))
    BY <2>4, <2>5
  <2>7. QED
    BY <1>1, <2>1, <2>4, <2>6 DEF Safe, LoadOK
<1>5. QED
  BY <1>2, <1>3, <1>4 DEF Safe, Inv

\* A task that queues for the lock queues once.
LEMMA QueuesSafe ==
  ASSUME Safe, NEW t \in DOMAIN agenda, Queues(t)
  PROVE  Safe'
<1>1. /\ WantsLock(t) /\ waiting' = Append(waiting, t)
      /\ chan' = chan /\ agenda' = agenda /\ cache' = cache
  BY DEF Queues
<1>2. \A i \in DOMAIN waiting : waiting[i] # t
  BY DEF Queues, Contains
<1>3. t \in Tasks
  BY AtHead
<1>4. WaitOK'
  <2>1. waiting \in Seq(Tasks)
    BY DEF Safe, Inv, WaitOK
  <2>2. /\ waiting' \in Seq(Tasks) /\ Len(waiting) \in Nat
        /\ DOMAIN waiting' = 1..(Len(waiting) + 1) /\ DOMAIN waiting = 1..Len(waiting)
        /\ \A i \in DOMAIN waiting' : waiting'[i] = IF i \in DOMAIN waiting THEN waiting[i] ELSE t
        /\ \A i \in DOMAIN waiting' : i \notin DOMAIN waiting => i = Len(waiting) + 1
    BY <1>1, <1>3, <2>1
  <2>3. \A i \in DOMAIN waiting : waiting[i] \in DOMAIN agenda /\ WantsLock(waiting[i])
    BY DEF Safe, Inv, WaitOK
  <2>4. \A i \in DOMAIN waiting' : /\ waiting'[i] \in DOMAIN agenda'
                                  /\ Head(agenda'[waiting'[i]]).do \in {"read", "write"}
    <3>1. ASSUME NEW i \in DOMAIN waiting'
          PROVE  waiting'[i] \in DOMAIN agenda /\ WantsLock(waiting'[i])
      <4>1. CASE i \in DOMAIN waiting
        <5>1. waiting'[i] = waiting[i]
          BY <2>2, <4>1
        <5>2. QED
          BY <2>3, <4>1, <5>1
      <4>2. CASE i \notin DOMAIN waiting
        <5>1. waiting'[i] = t
          BY <2>2, <4>2
        <5>2. QED
          BY <1>1, <5>1
      <4>3. QED
        BY <4>1, <4>2
    <3>2. QED
      BY <1>1, <3>1 DEF WantsLock
  <2>5. \A i, j \in DOMAIN waiting' : waiting'[i] = waiting'[j] => i = j
    BY <1>2, <2>2 DEF Safe, Inv, WaitOK
  <2>6. QED
    BY <2>2, <2>4, <2>5 DEF WaitOK, WantsLock
<1>5. QED
  BY <1>1, <1>4 DEF Safe, Inv, ChanOK, AgendaOK, Exclusive, Holders, LoadOK

\* Only network_admin writes: it asks for that with the message that says what.
LEMMA LockMsgs ==
  ASSUME NEW t \in Tasks, NEW s \in LocksOf(t)
  PROVE  /\ s.msg[1] = "action" => s.msg[2] \in Notices
         /\ s.msg[1] = "BatchNetwork" => s.msg[2] \in Modes
         /\ s.msg = <<s.msg[1], s.msg[2]>>
<1>1. t \in {"msg_from_hub", "msg_to_hub", "network_admin", "update_firmware"}
  BY LocksAre
<1>2. CASE t = "msg_from_hub"
  BY <1>2, LocksAre DEF Lock
<1>3. CASE t = "msg_to_hub"
  BY <1>3, LocksAre DEF Lock, ToHubs, Acks
<1>4. CASE t = "network_admin"
  BY <1>4, LocksAre DEF Lock, Batches, Requests
<1>5. CASE t = "update_firmware"
  BY <1>5, LocksAre DEF Lock, Updates
<1>6. QED
  BY <1>1, <1>2, <1>3, <1>4, <1>5

\* Who has the lock next was the first to wait for it, or nobody waited.
LEMMA FirstInLine ==
  ASSUME Safe, NEW t \in DOMAIN agenda, Ahead(t) = {}
  PROVE  \/ waiting = <<>> /\ ~ Contains(waiting, t)
         \/ waiting # <<>> /\ waiting[1] = t /\ Contains(waiting, t)
<1>1. waiting \in Seq(Tasks)
  BY DEF Safe, Inv, WaitOK
<1>2. DOMAIN waiting = 1..Len(waiting) /\ Len(waiting) \in Nat
  BY <1>1
<1>3. CASE waiting = <<>>
  BY <1>3 DEF Contains
<1>4. CASE waiting # <<>>
  <2>1. 1 \in DOMAIN waiting /\ 1 \in 1..Len(waiting)
    BY <1>1, <1>2, <1>4
  <2>2. waiting[1] # t => waiting[1] \in Ahead(t)
    <3>1. \A j \in 1..1 : j = 1
      OBVIOUS
    <3>2. QED
      BY <2>1, <3>1 DEF Ahead
  <2>3. QED
    BY <1>4, <2>1, <2>2 DEF Contains
<1>5. QED
  BY <1>3, <1>4

\* A task that has the lock holds it with readers only, or alone.
LEMMA HasLockSafe ==
  ASSUME Safe, NEW t \in DOMAIN agenda, HasLock(t)
  PROVE  Safe'
<1> DEFINE s == Head(agenda[t])
           x == s.do
           m == s.msg
<1>1. WantsLock(t) /\ LockWaitsFor(t) = {} /\ chan' = chan
  BY DEF HasLock
<1>2. x \in {"read", "write"}
  BY <1>1 DEF WantsLock
<1>3. t \in Tasks /\ s \in StepsOf(t) /\ agenda[t] = <<s>>
  BY <1>2, AtHead
<1>4. s \in LocksOf(t)
  BY <1>2, <1>3, StepKinds
<1>5. PICK turn \in UnderLock(t, m) : agenda' = With(agenda, t, turn \o Tail(agenda[t]))
  BY DEF HasLock
<1>6. GoodHold(t, x, m, turn)
  BY <1>3, <1>4, HoldsGood
<1>7. /\ turn \in Seq(StepsOf(t)) /\ Shape(turn) /\ Sized(t, turn, Weight(t, m))
      /\ \A y : HasFree(turn, y) => Free(y) = Free(x)
  BY <1>2, <1>3, <1>6, HoldFits DEF HasFree
<1>8. agenda' = With(agenda, t, turn)
  <2>1. Tail(agenda[t]) = <<>>
    <3>1. \A z : Tail(<<z>>) = <<>>
      OBVIOUS
    <3>2. QED
      BY <1>3, <3>1
  <2>2. turn \o <<>> = turn
    BY <1>7
  <2>3. QED
    BY <1>5, <2>1, <2>2
<1>9. ChanOK' /\ AgendaOK'
  BY <1>1, <1>3, <1>7, <1>8, AgendaChanges DEF Safe, Inv, ChanOK
<1>10. WaitOK'
  <2>1. /\ waiting' = IF Contains(waiting, t) THEN Tail(waiting) ELSE waiting
        /\ Ahead(t) = {}
    BY <1>1 DEF HasLock, LockWaitsFor
  <2>2. waiting \in Seq(Tasks) /\ DOMAIN waiting = 1..Len(waiting) /\ Len(waiting) \in Nat
    BY DEF Safe, Inv, WaitOK
  <2>3. CASE waiting = <<>>
    <3>1. waiting' = <<>>
      BY <2>1, <2>3, FirstInLine
    <3>2. QED
      BY <3>1 DEF WaitOK
  <2>4. CASE waiting # <<>>
    <3>1. waiting' = Tail(waiting) /\ waiting[1] = t
      BY <2>1, <2>4, FirstInLine
    <3>2. /\ waiting' \in Seq(Tasks) /\ DOMAIN waiting' = 1..(Len(waiting) - 1)
          /\ \A i \in 1..(Len(waiting) - 1) : waiting'[i] = waiting[i + 1]
      BY <2>2, <2>4, <3>1
    <3>3. \A i \in DOMAIN waiting' : i + 1 \in DOMAIN waiting /\ i + 1 # 1 /\ i \in Nat
      BY <2>2, <3>2
    <3>4. 1 \in DOMAIN waiting
      BY <2>2, <2>4
    <3>5. /\ \A i, j \in DOMAIN waiting : waiting[i] = waiting[j] => i = j
          /\ \A i \in DOMAIN waiting : waiting[i] \in DOMAIN agenda /\ WantsLock(waiting[i])
      BY DEF Safe, Inv, WaitOK
    <3>6. \A i, j \in DOMAIN waiting' : waiting'[i] = waiting'[j] => i = j
      <4>1. TAKE i \in DOMAIN waiting', j \in DOMAIN waiting'
      <4>2. HAVE waiting'[i] = waiting'[j]
      <4>3. i + 1 = j + 1
        BY <3>2, <3>3, <3>5, <4>2
      <4>4. QED
        BY <3>3, <4>3
    <3>7. \A i \in DOMAIN waiting' : /\ waiting'[i] \in DOMAIN agenda'
                                    /\ Head(agenda'[waiting'[i]]).do \in {"read", "write"}
      <4>1. TAKE i \in DOMAIN waiting'
      <4> DEFINE u == waiting[i + 1]
      <4>2. waiting'[i] = u /\ u \in DOMAIN agenda /\ WantsLock(u) /\ u # t
        BY <3>1, <3>2, <3>3, <3>4, <3>5
      <4> HIDE DEF u
      <4>3. u \in DOMAIN agenda' /\ agenda'[u] = agenda[u]
        BY <1>8, <4>2, WithIs
      <4>4. QED
        BY <4>2, <4>3 DEF WantsLock
    <3>8. QED
      BY <3>2, <3>6, <3>7 DEF WaitOK, WantsLock
  <2>5. QED
    BY <2>3, <2>4
<1>11. Exclusive'
  <2>1. Against(x) = {}
    BY <1>1 DEF LockWaitsFor
  <2>2. \A M : \A z : z \in Holders(M)' => z \in Holders(M) \/ z = t
    BY <1>8, HoldersNext
  <2>3. CASE x = "write"
    <3>1. Holders({"read", "write"}) = {}
      BY <2>1, <2>3 DEF Against
    <3>2. ASSUME NEW z \in Holders({"write"})'
          PROVE  Holders({"read", "write"})' = {z}
      <4>1. z \in Holders({"read", "write"})'
        BY <3>2 DEF Holders
      <4>2. \A y : y \in Holders({"read", "write"})' => y = t
        BY <2>2, <3>1
      <4>3. QED
        BY <4>1, <4>2
    <3>3. QED
      BY <3>2 DEF Exclusive
  <2>4. CASE x = "read"
    <3>1. Holders({"write"}) = {}
      BY <2>1, <2>4 DEF Against
    <3>2. ~ HasFree(turn, "write")
      BY <1>7, <2>4, FreeModes
    <3>3. t \notin Holders({"write"})'
      BY <1>8, <3>2, HoldersNext
    <3>4. Holders({"write"})' = {}
      BY <2>2, <3>1, <3>3
    <3>5. QED
      BY <3>4 DEF Exclusive
  <2>5. QED
    BY <1>2, <2>3, <2>4
<1>12. cache' \in Modes \cup {"absent"}
  <2>1. cache' = IF m = <<"action", "gone">> THEN "absent"
               ELSE IF m[1] \in {"action", "BatchNetwork"} THEN m[2] ELSE cache
    BY DEF HasLock
  <2>2. /\ m[1] = "action" => m[2] \in Notices
        /\ m[1] = "BatchNetwork" => m[2] \in Modes
        /\ m = <<m[1], m[2]>>
    BY <1>3, <1>4, LockMsgs
  <2>3. cache \in Modes \cup {"absent"}
    BY DEF Safe, Inv
  <2> HIDE DEF m
  <2>4. CASE m = <<"action", "gone">>
    BY <2>1, <2>4
  <2>5. CASE m # <<"action", "gone">> /\ m[1] \in {"action", "BatchNetwork"}
    <3>1. cache' = m[2]
      BY <2>1, <2>5
    <3>2. m[2] \in Modes
      BY <2>2, <2>5 DEF Notices
    <3>3. QED
      BY <3>1, <3>2
  <2>6. CASE m[1] \notin {"action", "BatchNetwork"}
    BY <2>1, <2>3, <2>6
  <2>7. QED
    BY <2>4, <2>5, <2>6
<1>13. LoadOK'
  <2> DEFINE A == Cardinality(Units(QueuedOf(chan)))
             B == Cardinality(Units(HeldOf(agenda)))
             B2 == Cardinality(Units(HeldOf(agenda')))
             w == Weight(t, m)
             d == Cardinality(Part(t, StepWeigh(t, turn)))
  <2>1. IsFiniteSet(Units(QueuedOf(chan))) /\ IsFiniteSet(Units(HeldOf(agenda)))
    BY DEF Safe, LoadOK
  <2>2. IsFiniteSet(Part(t, StepWeigh(t, turn))) /\ d <= w
    BY <1>7 DEF Sized
  <2>3. Cardinality(Part(t, StepWeigh(t, At(agenda, t)))) = w
    <3>1. At(agenda, t) = <<s>> /\ StepWeight(t, s) = w
      BY <1>2, <1>3 DEF At, StepWeight
    <3>2. StepWeigh(t, <<s>>) = <<w>>
      BY <3>1 DEF StepWeigh
    <3>3. w \in Nat
      BY WeightTyped
    <3> HIDE DEF w
    <3>4. Cardinality(Part(t, <<w>>)) = w
      BY <3>3, PartShort
    <3>5. QED
      BY <3>1, <3>2, <3>4
  <2>4. IsFiniteSet(Units(HeldOf(agenda'))) /\ B2 + w = B + d
    BY <1>8, <2>1, <2>2, <2>3, HeldWith
  <2>5. A + B <= Load
    BY DEF Safe, LoadOK
  <2>6. /\ A \in Nat /\ B \in Nat /\ B2 \in Nat /\ d \in Nat /\ w \in Nat /\ Load \in Nat
    BY <2>1, <2>2, <2>4, FS_CardinalityType, WeightTyped, BoundsAssumption
  <2> HIDE DEF A, B, B2, w, d
  <2>7. A + B2 <= Load
    BY <2>2, <2>4, <2>5, <2>6
  <2>8. QED
    BY <1>1, <2>1, <2>4, <2>7 DEF LoadOK, A, B2
<1>14. QED
  BY <1>9, <1>10, <1>11, <1>12, <1>13 DEF Safe, Inv

\* The invariant holds at the start, with the batch of the networks or without.
LEMMA InitSafe ==
  ASSUME Init
  PROVE  Safe
<1>1. agenda = <<>> /\ waiting = <<>> /\ cache = "absent" /\ DOMAIN agenda = {}
  BY DEF Init
<1>2. AgendaOK /\ WaitOK /\ Exclusive /\ cache \in Modes \cup {"absent"}
  BY <1>1 DEF AgendaOK, WaitOK, Exclusive, Holders
<1>3. \A f : DOMAIN f = {} => Units(f) = {}
  BY DEF Units
<1>4. IsFiniteSet(Units(HeldOf(agenda))) /\ Cardinality(Units(HeldOf(agenda))) = 0
  <2>1. Units(HeldOf(agenda)) = {}
    BY <1>1, <1>3 DEF HeldOf
  <2>2. QED
    BY <2>1, FS_EmptySet
<1> DEFINE none == <<>>
<1>5. IsFiniteSet(Units(QueuedOf(none))) /\ Cardinality(Units(QueuedOf(none))) = 0
  <2>1. Units(QueuedOf(none)) = {}
    BY <1>3 DEF QueuedOf
  <2>2. QED
    BY <2>1, FS_EmptySet
<1>6. CASE chan = <<>>
  <2>1. ChanOK
    BY <1>6 DEF ChanOK
  <2>2. LoadOK
    BY <1>4, <1>5, <1>6, BoundsAssumption DEF LoadOK
  <2>3. QED
    BY <1>2, <2>1, <2>2 DEF Safe, Inv
<1>7. ASSUME NEW x \in Modes,
             chan = With(<<>>, <<"data", "core">>, <<<<"BatchNetwork", x>>>>)
      PROVE  Safe
  <2> DEFINE c == <<"data", "core">>
             b == <<"BatchNetwork", x>>
  <2>1. c \in Channels /\ Reader(c) = "core" /\ b \in Msgs(c)
    BY MsgsAre DEF Channels, Services, Others, Reader, Batches
  <2>2. DOMAIN chan = {c} /\ chan[c] = <<b>>
    <3>1. DOMAIN none = {} /\ <<b>> # <<>> /\ chan = With(none, c, <<b>>)
      BY <1>7
    <3> HIDE DEF c, b, none
    <3>2. /\ \A y : y \in DOMAIN chan <=> (IF y = c THEN <<b>> # <<>> ELSE y \in DOMAIN none)
          /\ \A y \in DOMAIN chan : chan[y] = IF y = c THEN <<b>> ELSE none[y]
      BY <3>1, WithIs
    <3>3. QED
      BY <3>1, <3>2
  <2>3. ChanOK
    <3>1. <<b>> \in Seq(Msgs(c)) /\ Len(<<b>>) \in 1..Cap
      BY <2>1, BoundsAssumption
    <3>2. Reader(c) \in Tasks
      BY <2>1 DEF Tasks
    <3> HIDE DEF c, b
    <3>3. QED
      BY <2>1, <2>2, <3>1, <3>2 DEF ChanOK
  <2>4. At(none, c) = <<>> /\ Append(<<>>, b) = <<b>>
    BY DEF At
  <2>5. chan = With(none, c, <<b>>)
    BY <1>7
  <2>6. Weight("core", b) = 1
    BY DEF Weight, Modes
  <2>7. IsFiniteSet(Units(QueuedOf(chan))) /\ Cardinality(Units(QueuedOf(chan))) = 0 + 1
    <3>1. chan = With(none, c, Append(At(none, c), b)) /\ At(none, c) \in Seq(Msgs(c))
      <4>1. none \in Seq(Msgs(c))
        OBVIOUS
      <4> HIDE DEF c
      <4>2. QED
        BY <2>4, <2>5, <4>1
    <3> HIDE DEF c, b, none
    <3>2. /\ IsFiniteSet(Units(QueuedOf(chan)))
          /\ Cardinality(Units(QueuedOf(chan)))
               = Cardinality(Units(QueuedOf(none))) + Weight(Reader(c), b)
      BY <1>5, <2>1, <3>1, QueuedAppend
    <3>3. QED
      BY <1>5, <2>1, <2>6, <3>2
  <2>8. LoadOK
    BY <1>4, <2>7, BoundsAssumption DEF LoadOK
  <2>9. QED
    BY <1>2, <2>3, <2>8 DEF Safe, Inv
<1>8. QED
  BY <1>6, <1>7 DEF Init

\* What one step does of it.
LEMMA NextCases ==
  ASSUME Next
  PROVE  \/ \E s \in DOMAIN Inputs : Arrives(s, Load - UnderWay)
         \/ \E c \in DOMAIN chan : Takes(Reader(c), c)
         \/ \E t \in DOMAIN agenda : Sends(t) \/ Queues(t) \/ HasLock(t) \/ Frees(t)
BY DEF Next

\* Every step keeps the invariant.
LEMMA NextSafe ==
  ASSUME Safe, [Next]_vars
  PROVE  Safe'
<1>1. CASE Next
  BY <1>1, NextCases, ArrivesSafe, TakesSafe, SendsSafe, QueuesSafe, HasLockSafe, FreesSafe
<1>2. CASE UNCHANGED vars
  BY <1>2 DEF vars, Safe, Inv, ChanOK, AgendaOK, WaitOK, WantsLock, Exclusive, Holders, LoadOK
<1>3. QED
  BY <1>1, <1>2

\* The inductive invariant: each channel carries the messages its reader knows
\* (core/domain.rs 235-509 and the select! loops), each agenda the steps of its
\* task, a writer is alone, and the load is bounded.
THEOREM AlwaysSafe == Spec => []Safe
<1>1. Init => Safe
  BY InitSafe
<1>2. Safe /\ [Next]_vars => Safe'
  BY NextSafe
<1>3. QED
  BY <1>1, <1>2, PTL DEF Spec

\* TypeOK is part of the invariant.
LEMMA SafeIsTyped ==
  ASSUME Safe
  PROVE  TypeOK
<1>1. /\ DOMAIN chan \subseteq Channels /\ DOMAIN agenda \subseteq Tasks
      /\ \A c \in DOMAIN chan : Len(chan[c]) \in 1..Cap
      /\ \A t \in DOMAIN agenda : agenda[t] # <<>>
      /\ waiting \in Seq(Tasks) /\ cache \in Modes \cup {"absent"}
  BY DEF Safe, Inv, ChanOK, AgendaOK, WaitOK
<1>2. \A t \in Holders({"write"}) : Holders({"read", "write"}) = {t}
  BY DEF Safe, Inv, Exclusive
<1>3. UnderWay <= Load
  BY LoadIs DEF Safe, LoadOK
<1>4. QED
  BY <1>1, <1>2, <1>3 DEF TypeOK

\* The variables keep their types, the channels their capacity, a writer holds
\* the lock alone, and no task multiplies what it was given: for every capacity,
\* load and number of tables, and whatever comes in.
THEOREM TypeCorrect == Spec => []TypeOK
<1>1. Safe => TypeOK
  BY SafeIsTyped
<1>2. QED
  BY <1>1, AlwaysSafe, PTL

-----------------------------------------------------------------------------
(* Circular waits.                                                         *)

\* A set of numbers that is not empty has a least one.
LEMMA Least ==
  ASSUME NEW I, I \subseteq Nat, I # {}
  PROVE  \E i \in I : \A j \in I : i <= j
<1>1. \E R : IsWellFoundedOn(R, Nat) /\ \A x, y \in Nat : x < y => <<x, y>> \in R
  <2> DEFINE R == OpToRel(<, Nat)
  <2>1. IsWellFoundedOn(R, Nat)
    BY NatLessThanWellFounded
  <2>2. \A x, y \in Nat : x < y => <<x, y>> \in R
    BY DEF OpToRel
  <2>3. QED
    BY <2>1, <2>2, Zenon
<1>2. PICK R : IsWellFoundedOn(R, Nat) /\ \A x, y \in Nat : x < y => <<x, y>> \in R
  BY <1>1
<1>3. PICK i \in I : \A j \in I : ~ (<<j, i>> \in R)
  <2>1. IsWellFoundedOn(R, Nat)
    BY <1>2
  <2>2. QED
    BY <2>1, WFMin, Zenon
<1>4. \A j \in I : ~ (j < i)
  BY <1>2, <1>3
<1>5. QED
  BY <1>4

\* Where every weight is at least one, the first unit of each.
LEMMA FirstUnits ==
  ASSUME NEW f, NEW p \in DOMAIN f, NEW n \in Nat,
         \A i \in 1..n : i \in DOMAIN f[p] /\ f[p][i] \in Nat \ {0}
  PROVE  Part(p, [i \in 1..n |-> 1]) \subseteq Units(f)
<1> DEFINE ws == [i \in 1..n |-> 1]
<1>1. ASSUME NEW x \in Part(p, ws)
      PROVE  x \in Units(f)
  <2>1. PICK i \in 1..n : x \in Row(p, i, ws[i])
    BY <1>1 DEF Part
  <2>2. x \in Row(p, i, 1)
    BY <2>1
  <2>3. x \in Row(p, i, f[p][i])
    <3>1. f[p][i] \in Nat \ {0}
      OBVIOUS
    <3>2. \A k \in 1..1 : k \in 1..f[p][i]
      BY <3>1
    <3>3. QED
      BY <2>2, <3>2 DEF Row
  <2>4. x \in Part(p, f[p])
    BY <2>3 DEF Part
  <2>5. QED
    BY <2>4, UnitsAre
<1>2. QED
  BY <1>1

\* Two places with n messages each hold 2 n units.
LEMMA TwoOf ==
  ASSUME NEW f, NEW p \in DOMAIN f, NEW q \in DOMAIN f, p # q, NEW n \in Nat,
         \A i \in 1..n : i \in DOMAIN f[p] /\ f[p][i] \in Nat \ {0},
         \A i \in 1..n : i \in DOMAIN f[q] /\ f[q][i] \in Nat \ {0},
         IsFiniteSet(Units(f))
  PROVE  n + n <= Cardinality(Units(f))
<1> DEFINE P == Part(p, [i \in 1..n |-> 1])
           Q == Part(q, [i \in 1..n |-> 1])
<1>1. IsFiniteSet(P) /\ Cardinality(P) = n /\ IsFiniteSet(Q) /\ Cardinality(Q) = n
  BY PartOnes
<1>2. P \cap Q = {}
  BY DEF Part, Row
<1>3. P \subseteq Units(f) /\ Q \subseteq Units(f)
  BY FirstUnits
<1> HIDE DEF P, Q
<1>4. IsFiniteSet(P \cup Q) /\ Cardinality(P \cup Q) = n + n
  BY <1>1, <1>2, Apart
<1>5. P \cup Q \in SUBSET Units(f)
  BY <1>3
<1>6. Cardinality(P \cup Q) <= Cardinality(Units(f))
  BY <1>5, FS_Subset
<1>7. QED
  BY <1>4, <1>6

\* A task that waits for room: the channel is full, and its reader is another task.
LEMMA WaitsForRoom ==
  ASSUME Safe, NEW t \in DOMAIN agenda, Head(agenda[t]).do = "send", WaitsFor(t) # {}
  PROVE  LET c == Head(agenda[t]).to
         IN  /\ c \in DOMAIN chan /\ Len(chan[c]) = Cap /\ c \in OutOf(t)
             /\ WaitsFor(t) = {Reader(c)} /\ Reader(c) # t
<1> DEFINE s == Head(agenda[t])
           c == s.to
<1>1. t \in Tasks /\ s \in StepsOf(t)
  BY AtHead
<1>2. s \in SendsOf(t)
  BY <1>1, StepKinds
<1>3. c \in OutOf(t)
  BY <1>2, SendsAre
<1>4. Reader(c) # t
  BY <1>1, <1>3, OutTyped
<1>5. Len(At(chan, c)) = Cap /\ WaitsFor(t) = {Reader(c)}
  BY DEF WaitsFor
<1>6. c \in DOMAIN chan
  BY <1>5, BoundsAssumption DEF At
<1>7. Len(chan[c]) = Cap
  BY <1>5, <1>6 DEF At
<1>8. QED
  BY <1>3, <1>4, <1>5, <1>6, <1>7

\* Two tasks that wait for room in different channels are more than what is let in.
LEMMA TwoFull ==
  ASSUME Safe, NEW t \in DOMAIN agenda, NEW u \in DOMAIN agenda, t # u,
         NEW c \in DOMAIN chan, NEW d \in DOMAIN chan, c # d,
         Len(chan[c]) = Cap, Len(chan[d]) = Cap,
         Head(agenda[t]).do = "send", Head(agenda[u]).do = "send"
  PROVE  2 * Cap + 2 <= Load
<1>0. Cap \in Nat /\ Load \in Nat
  BY BoundsAssumption
<1>1. Cap + Cap <= Cardinality(Units(QueuedOf(chan)))
  <2> DEFINE f == QueuedOf(chan)
  <2>1. c \in DOMAIN f /\ d \in DOMAIN f
    BY DEF QueuedOf
  <2>2. ASSUME NEW x \in DOMAIN chan, Len(chan[x]) = Cap
        PROVE  \A i \in 1..Cap : i \in DOMAIN f[x] /\ f[x][i] \in Nat \ {0}
    <3>1. DOMAIN chan[x] = 1..Cap
      BY <2>2 DEF Safe, Inv, ChanOK
    <3>2. f[x] = Weigh(Reader(x), chan[x])
      BY DEF QueuedOf
    <3>3. QED
      BY <3>1, <3>2, WeightTyped DEF Weigh
  <2>3. IsFiniteSet(Units(f))
    BY DEF Safe, LoadOK
  <2> HIDE DEF f
  <2>4. Cap + Cap <= Cardinality(Units(f))
    BY <1>0, <2>1, <2>2, <2>3, TwoOf
  <2>5. QED
    BY <2>4 DEF f
<1>2. 1 + 1 <= Cardinality(Units(HeldOf(agenda)))
  <2> DEFINE f == HeldOf(agenda)
  <2>1. t \in DOMAIN f /\ u \in DOMAIN f
    BY DEF HeldOf
  <2>2. ASSUME NEW x \in DOMAIN agenda, Head(agenda[x]).do = "send"
        PROVE  \A i \in 1..1 : i \in DOMAIN f[x] /\ f[x][i] \in Nat \ {0}
    <3>1. agenda[x] \in Seq(StepsOf(x)) /\ agenda[x] # <<>>
      BY AtHead
    <3>2. 1 \in DOMAIN agenda[x] /\ agenda[x][1].do = "send"
      BY <2>2, <3>1
    <3>3. f[x] = StepWeigh(x, agenda[x])
      BY DEF HeldOf
    <3>4. StepWeight(x, agenda[x][1]) \in Nat \ {0}
      BY <3>2, WeightTyped DEF StepWeight
    <3>5. 1 \in DOMAIN f[x] /\ f[x][1] \in Nat \ {0}
      BY <3>2, <3>3, <3>4 DEF StepWeigh
    <3>6. \A i \in 1..1 : i = 1
      OBVIOUS
    <3>7. QED
      BY <3>5, <3>6
  <2>3. IsFiniteSet(Units(f))
    BY DEF Safe, LoadOK
  <2> HIDE DEF f
  <2>4. 1 + 1 <= Cardinality(Units(f))
    BY <2>1, <2>2, <2>3, TwoOf
  <2>5. QED
    BY <2>4 DEF f
<1>3. Cardinality(Units(QueuedOf(chan))) + Cardinality(Units(HeldOf(agenda))) <= Load
      /\ Cardinality(Units(QueuedOf(chan))) \in Nat /\ Cardinality(Units(HeldOf(agenda))) \in Nat
  BY LoadTyped DEF Safe, LoadOK
<1>4. QED
  BY <1>0, <1>1, <1>2, <1>3

\* A task that holds the lock and is held up waits for room, in a channel
\* whose reader never asks for the lock.
LEMMA HolderSends ==
  ASSUME Safe, NEW t, t \in Holders({"read", "write"}), WaitsFor(t) # {}
  PROVE  /\ t \in DOMAIN agenda /\ Head(agenda[t]).do = "send"
         /\ \A r \in WaitsFor(t) : LocksOf(r) = {}
<1> DEFINE a == agenda[t]
<1>1. t \in DOMAIN agenda /\ \E x \in {"read", "write"}, i \in DOMAIN a : a[i] = Free(x)
  BY DEF Holders
<1>2. /\ t \in Tasks /\ a \in Seq(StepsOf(t)) /\ a # <<>> /\ Head(a) \in StepsOf(t) /\ Shape(a)
      /\ Head(a).do \in {"read", "write"} => a = <<Head(a)>>
  BY <1>1, AtHead
<1>3. PICK i \in DOMAIN a : a[i].do = "free"
  BY <1>1 DEF Free
<1>4. Head(a) = a[1] /\ 1 \in DOMAIN a
  BY <1>2
<1>5. Head(a).do # "free"
  BY DEF WaitsFor
<1>6. Head(a).do \notin {"read", "write"}
  <2>1. ASSUME Head(a).do \in {"read", "write"}
        PROVE  FALSE
    <3>1. Len(a) = 1
      BY <1>2, <1>4, <2>1 DEF Shape
    <3>2. i = 1
      BY <1>2, <3>1
    <3>3. QED
      BY <1>3, <1>4, <2>1, <3>2
  <2>2. QED
    BY <2>1
<1>7. Head(a).do = "send"
  BY <1>2, <1>5, <1>6, StepKinds
<1>8. Calm(Head(a))
  BY <1>2, <1>3, <1>4, <1>7 DEF Shape
<1>9. a[i] \in FreesOf(t)
  BY <1>2, <1>3, StepKinds
<1>10. t \in {"msg_from_hub", "update_firmware", "network_admin"}
  BY <1>9 DEF FreesOf
<1>11. Head(a).to \in OutOf(t) /\ WaitsFor(t) = {Reader(Head(a).to)}
  BY <1>1, <1>7, WaitsForRoom
<1>12. Reader(Head(a).to) \in {"message", "msg_to_server", "firmware", "network", "network_dba"}
  BY <1>8, <1>10, <1>11, OutsAre DEF Calm, Reader, Tx
<1>13. LocksOf(Reader(Head(a).to)) = {}
  BY <1>12, LocksAre DEF Tasks
<1>14. QED
  BY <1>1, <1>7, <1>11, <1>13

\* A circle has two tasks that wait for room, one served by the other.
LEMMA CircleSends ==
  ASSUME Safe, NEW S, S # {},
         \A t \in S : t \in DOMAIN agenda /\ WaitsFor(t) \cap S # {}
  PROVE  \E t \in S : \E u \in S : /\ u \in WaitsFor(t) /\ Head(agenda[t]).do = "send"
                                 /\ Head(agenda[u]).do = "send"
<1>0. \A t \in S : /\ Head(agenda[t]).do \in {"send", "read", "write"}
                   /\ LocksOf(t) = {} => Head(agenda[t]).do = "send"
  <2>1. TAKE t \in S
  <2>2. t \in Tasks /\ Head(agenda[t]) \in StepsOf(t) /\ WaitsFor(t) # {}
    BY AtHead
  <2>3. Head(agenda[t]).do # "free"
    BY <2>2 DEF WaitsFor
  <2>4. QED
    BY <2>2, <2>3, StepKinds
<1>1. CASE \A t \in S : Head(agenda[t]).do = "send"
  <2>1. PICK t \in S : TRUE
    OBVIOUS
  <2>2. PICK u \in S : u \in WaitsFor(t)
    BY <2>1
  <2>3. QED
    BY <1>1, <2>2
<1>2. CASE \E t \in S : Head(agenda[t]).do # "send"
  <2>1. PICK t \in S : Head(agenda[t]).do \in {"read", "write"}
    BY <1>0, <1>2
  <2> DEFINE H == Holders({"read", "write"})
  <2>2. \A u \in S : Head(agenda[u]).do \in {"read", "write"} =>
                      WaitsFor(u) \subseteq H \cup Ahead(u)
    <3>1. TAKE u \in S
    <3>2. HAVE Head(agenda[u]).do \in {"read", "write"}
    <3>3. WaitsFor(u) = LockWaitsFor(u)
      BY <3>2 DEF WaitsFor
    <3>4. Against(Head(agenda[u]).do) \subseteq H
      BY DEF Against, Holders
    <3>5. QED
      BY <3>3, <3>4 DEF LockWaitsFor
  <2>3. \E h \in S : h \in H
    <3>1. CASE \E u \in S : u \in Ahead(t)
      <4> DEFINE I == {i \in DOMAIN waiting : waiting[i] \in S}
      <4>1. I \subseteq Nat /\ DOMAIN waiting = 1..Len(waiting) /\ Len(waiting) \in Nat
        BY DEF Safe, Inv, WaitOK
      <4>2. I # {}
        BY <3>1 DEF Ahead
      <4>3. PICK i \in I : \A j \in I : i <= j
        BY <4>1, <4>2, Least
      <4> DEFINE u == waiting[i]
      <4>4. u \in S /\ Head(agenda[u]).do \in {"read", "write"} /\ i \in DOMAIN waiting
        BY DEF Safe, Inv, WaitOK, WantsLock
      <4>5. \A v \in Ahead(u) : v \notin S
        <5>1. ASSUME NEW v \in Ahead(u), v \in S
              PROVE  FALSE
          <6>1. PICK j \in DOMAIN waiting : /\ waiting[j] = v
                                            /\ \A k \in 1..j : waiting[k] # u
            BY <5>1 DEF Ahead
          <6>2. j \in I
            BY <5>1, <6>1
          <6>3. i <= j /\ i \in 1..j
            BY <4>1, <4>3, <6>2
          <6>4. QED
            BY <6>1, <6>3
        <5>2. QED
          BY <5>1
      <4>6. PICK h \in S : h \in WaitsFor(u)
        BY <4>4
      <4> HIDE DEF u
      <4>7. h \in H
        BY <2>2, <4>4, <4>5, <4>6
      <4>8. QED
        BY <4>7
    <3>2. CASE \A u \in S : u \notin Ahead(t)
      <4>1. PICK h \in S : h \in WaitsFor(t)
        OBVIOUS
      <4>2. QED
        BY <2>1, <2>2, <3>2, <4>1
    <3>3. QED
      BY <3>1, <3>2
  <2>4. PICK h \in S : h \in H
    BY <2>3
  <2>5. WaitsFor(h) # {}
    OBVIOUS
  <2>6. /\ h \in DOMAIN agenda /\ Head(agenda[h]).do = "send"
        /\ \A r \in WaitsFor(h) : LocksOf(r) = {}
    BY <2>4, <2>5, HolderSends
  <2>7. PICK r \in S : r \in WaitsFor(h)
    BY <2>4
  <2>8. Head(agenda[r]).do = "send"
    BY <1>0, <2>6, <2>7
  <2>9. QED
    BY <2>6, <2>7, <2>8
<1>3. QED
  BY <1>1, <1>2

\* In a circle two channels are full and somebody holds one message more for each.
LEMMA SafeIsFree ==
  ASSUME Safe, Load <= 2 * Cap + 1
  PROVE  NoCircularWait
<1> DEFINE blocked == {t \in DOMAIN agenda : WaitsFor(t) # {}}
<1>1. ASSUME NEW S \in (SUBSET blocked) \ {{}}, \A t \in S : WaitsFor(t) \cap S # {}
      PROVE  FALSE
  <2>1. S # {} /\ \A t \in S : t \in DOMAIN agenda /\ WaitsFor(t) # {}
    OBVIOUS
  <2>2. PICK t \in S, u \in S : /\ u \in WaitsFor(t) /\ Head(agenda[t]).do = "send"
                                /\ Head(agenda[u]).do = "send"
    BY <1>1, <2>1, CircleSends
  <2> DEFINE c == Head(agenda[t]).to
             d == Head(agenda[u]).to
  <2>3. /\ c \in DOMAIN chan /\ Len(chan[c]) = Cap /\ WaitsFor(t) = {Reader(c)}
        /\ Reader(c) # t
    BY <2>1, <2>2, WaitsForRoom
  <2>4. d \in DOMAIN chan /\ Len(chan[d]) = Cap /\ Reader(d) # u
    BY <2>1, <2>2, WaitsForRoom
  <2>5. u = Reader(c)
    BY <2>2, <2>3
  <2>6. c # d /\ t # u
    BY <2>3, <2>4, <2>5
  <2>7. 2 * Cap + 2 <= Load
    BY <2>1, <2>2, <2>3, <2>4, <2>6, TwoFull
  <2>8. QED
    BY <2>7, BoundsAssumption
<1>2. QED
  BY <1>1 DEF NoCircularWait

\* No tasks wait for each other in a circle while no more than two channels full
\* of messages and one more are under way: message/logic.rs 278-357,
\* network/logic.rs 97-148 and firmware/logic.rs 70-114 hold the lock over sends,
\* and none of them closes a circle.
THEOREM NoCircularWaitHolds ==
  ASSUME Load <= 2 * Cap + 1
  PROVE  Spec => []NoCircularWait
<1>1. Safe => NoCircularWait
  BY SafeIsFree
<1>2. QED
  BY <1>1, AlwaysSafe, PTL

-----------------------------------------------------------------------------
(* The way of the notices, in stages.                                      *)

\* The notices of one stage of the way.
NoNotice(q) == \A i \in DOMAIN q : ~ IsNotice(q[i])
LastTells(q, x) ==
    \E i \in DOMAIN q : /\ IsNotice(q[i]) /\ q[i][2] = x
                        /\ \A j \in DOMAIN q : j > i => ~ IsNotice(q[j])

Content(s) == IF s.do = "free" THEN <<"free", "lock">> ELSE s.msg
HoldsOf(a) == [i \in DOMAIN a |-> Content(a[i])]

Stages == 1..9

\* The stages: the odd ones are the agendas of tasks, the even ones channels.
WayOf(ch, ag) ==
    <<HoldsOf(At(ag, "network_admin")), At(ch, <<"network_admin", "network">>),
      HoldsOf(At(ag, "network")),       At(ch, <<"network", "core">>),
      HoldsOf(At(ag, "core")),          At(ch, <<"core", "message">>),
      HoldsOf(At(ag, "message")),       At(ch, <<"message", "msg_to_hub">>),
      HoldsOf(At(ag, "msg_to_hub"))>>
NewestOf(W, x) ==
    \E k \in Stages : LastTells(W[k], x) /\ \A l \in Stages : l < k => NoNotice(W[l])

\* The way of the notices, by its channels and agendas.
LEMMA WayIs == Way = WayOf(chan, agenda)
<1>1. \A t : Holds(t) = HoldsOf(At(agenda, t))
  BY DEF Holds, HoldsOf, Content, At
<1>2. QED
  BY <1>1 DEF Way, WayOf

\* The newest notice, by the stages of the way.
LEMMA NewestIs ==
  ASSUME NEW x
  PROVE  Newest(x) <=> NewestOf(WayOf(chan, agenda), x)
<1> DEFINE W == WayOf(chan, agenda)
<1>1. Way = W
  BY WayIs
<1>2. DOMAIN W = Stages
  BY DEF WayOf, Stages
<1>3. \A k \in Stages : \A l : l \in 1..k <=> (l \in Stages /\ l < k) \/ l = k
  BY DEF Stages
<1> HIDE DEF W
<1>4. ASSUME NEW k \in Stages
      PROVE  (\E i \in DOMAIN W[k] : /\ IsNotice(W[k][i]) /\ W[k][i][2] = x
                                     /\ \A l \in 1..k : \A j \in DOMAIN W[l] :
                                          l < k \/ j > i => ~ IsNotice(W[l][j]))
             <=> LastTells(W[k], x) /\ \A l \in Stages : l < k => NoNotice(W[l])
  <2>1. ASSUME NEW i \in DOMAIN W[k]
        PROVE  (\A l \in 1..k : \A j \in DOMAIN W[l] : l < k \/ j > i => ~ IsNotice(W[l][j]))
               <=> /\ \A j \in DOMAIN W[k] : j > i => ~ IsNotice(W[k][j])
                   /\ \A l \in Stages : l < k => NoNotice(W[l])
    <3>1. ~ (k < k)
      BY DEF Stages
    <3>2. QED
      BY <1>3, <3>1 DEF NoNotice
  <2>2. QED
    BY <2>1 DEF LastTells
<1>5. QED
  BY <1>1, <1>2, <1>4 DEF Newest, NewestOf, W

\* What leaves a stage, and what joins it.
LEMMA StageTail ==
  ASSUME NEW S, NEW q \in Seq(S), q # <<>>
  PROVE  /\ \A x : LastTells(Tail(q), x) => LastTells(q, x)
         /\ ~ IsNotice(Head(q)) /\ NoNotice(Tail(q)) => NoNotice(q)
         /\ IsNotice(Head(q)) /\ NoNotice(Tail(q)) => LastTells(q, Head(q)[2])
<1> DEFINE n == Len(q)
           v == Tail(q)
<1>1. /\ n \in Nat /\ n >= 1 /\ DOMAIN q = 1..n /\ DOMAIN v = 1..(n - 1)
      /\ \A i \in 1..(n - 1) : v[i] = q[i + 1]
      /\ Head(q) = q[1]
  OBVIOUS
<1> HIDE DEF n, v
<1>2. \A j \in DOMAIN q : j = 1 \/ (j - 1 \in DOMAIN v /\ q[j] = v[j - 1])
  <2>1. \A j \in 1..n : j # 1 => j - 1 \in 1..(n - 1) /\ (j - 1) + 1 = j
    BY <1>1
  <2>2. QED
    BY <1>1, <2>1
<1>3. ASSUME NEW x, LastTells(v, x)
      PROVE  LastTells(q, x)
  <2>1. PICK i \in DOMAIN v : /\ IsNotice(v[i]) /\ v[i][2] = x
                              /\ \A j \in DOMAIN v : j > i => ~ IsNotice(v[j])
    BY <1>3 DEF LastTells
  <2>2. i + 1 \in DOMAIN q /\ q[i + 1] = v[i] /\ i \in Nat
    BY <1>1
  <2>3. \A j \in DOMAIN q : j > i + 1 => j # 1 /\ j - 1 > i
    BY <1>1, <2>2
  <2>4. \A j \in DOMAIN q : j > i + 1 => ~ IsNotice(q[j])
    BY <1>2, <2>1, <2>3
  <2>5. QED
    BY <2>1, <2>2, <2>4 DEF LastTells
<1>4. ~ IsNotice(Head(q)) /\ NoNotice(v) => NoNotice(q)
  BY <1>1, <1>2 DEF NoNotice
<1>5. IsNotice(Head(q)) /\ NoNotice(v) => LastTells(q, Head(q)[2])
  <2>1. HAVE IsNotice(Head(q)) /\ NoNotice(v)
  <2>2. 1 \in DOMAIN q /\ \A j \in DOMAIN q : j > 1 => j # 1
    BY <1>1
  <2>3. \A j \in DOMAIN q : j > 1 => ~ IsNotice(q[j])
    BY <1>2, <2>1, <2>2 DEF NoNotice
  <2>4. QED
    BY <1>1, <2>1, <2>2, <2>3 DEF LastTells
<1>6. QED
  BY <1>3, <1>4, <1>5 DEF v

\* A message that comes into a stage: a notice is the newest there.
LEMMA StageAppend ==
  ASSUME NEW S, NEW q \in Seq(S), NEW m \in S
  PROVE  /\ NoNotice(Append(q, m)) => NoNotice(q) /\ ~ IsNotice(m)
         /\ ~ IsNotice(m) => \A x : LastTells(Append(q, m), x) => LastTells(q, x)
         /\ IsNotice(m) => \A x : LastTells(Append(q, m), x) => x = m[2]
<1> DEFINE n == Len(q)
           v == Append(q, m)
<1>1. /\ n \in Nat /\ DOMAIN q = 1..n /\ DOMAIN v = 1..(n + 1) /\ v[n + 1] = m
      /\ \A i \in 1..n : v[i] = q[i] /\ i \in 1..(n + 1) /\ n + 1 > i
      /\ \A i \in 1..(n + 1) : i \in 1..n \/ i = n + 1
      /\ n + 1 \in 1..(n + 1)
  OBVIOUS
<1> HIDE DEF n, v
<1>2. NoNotice(v) => NoNotice(q) /\ ~ IsNotice(m)
  BY <1>1 DEF NoNotice
<1>3. ASSUME ~ IsNotice(m), NEW x, LastTells(v, x)
      PROVE  LastTells(q, x)
  <2>1. PICK i \in DOMAIN v : /\ IsNotice(v[i]) /\ v[i][2] = x
                              /\ \A j \in DOMAIN v : j > i => ~ IsNotice(v[j])
    BY <1>3 DEF LastTells
  <2>2. i \in 1..n
    BY <1>1, <1>3, <2>1
  <2>3. QED
    BY <1>1, <2>1, <2>2 DEF LastTells
<1>4. ASSUME IsNotice(m), NEW x, LastTells(v, x)
      PROVE  x = m[2]
  <2>1. PICK i \in DOMAIN v : /\ IsNotice(v[i]) /\ v[i][2] = x
                              /\ \A j \in DOMAIN v : j > i => ~ IsNotice(v[j])
    BY <1>4 DEF LastTells
  <2>2. i \notin 1..n
    BY <1>1, <1>4, <2>1
  <2>3. QED
    BY <1>1, <2>1, <2>2
<1>5. QED
  BY <1>2, <1>3, <1>4 DEF v

\* The tail of a sequence, element by element.
LEMMA TailIs ==
  ASSUME NEW S, NEW q \in Seq(S), q # <<>>
  PROVE  Tail(q) = [i \in 1..(Len(q) - 1) |-> q[i + 1]]
<1> DEFINE v == Tail(q)
           n == Len(q) - 1
<1>1. v \in Seq(S) /\ Len(v) = n /\ \A i \in 1..n : v[i] = q[i + 1]
  OBVIOUS
<1> HIDE DEF v, n
<1>2. v = [i \in 1..n |-> v[i]]
  BY <1>1
<1>3. QED
  BY <1>1, <1>2 DEF v, n

\* The sequences of a stage that an agenda makes.
LEMMA HoldsTail ==
  ASSUME NEW S, NEW a \in Seq(S), a # <<>>
  PROVE  /\ HoldsOf(Tail(a)) = Tail(HoldsOf(a)) /\ Head(HoldsOf(a)) = Content(Head(a))
         /\ HoldsOf(a) # <<>> /\ \E T : HoldsOf(a) \in Seq(T)
<1> DEFINE n == Len(a)
           T == {Content(a[i]) : i \in 1..n}
           b == HoldsOf(a)
<1>1. n \in Nat /\ n >= 1 /\ DOMAIN a = 1..n
  OBVIOUS
<1>2. b = [i \in 1..n |-> Content(a[i])]
  BY <1>1 DEF HoldsOf
<1>3. b \in Seq(T) /\ Len(b) = n /\ b[1] = Content(Head(a)) /\ b # <<>>
  <2>1. b \in [1..n -> T]
    BY <1>2
  <2> HIDE DEF T
  <2>2. b \in Seq(T) /\ Len(b) = n
    BY <1>1, <2>1
  <2>3. 1 \in 1..n
    BY <1>1
  <2>4. QED
    BY <1>1, <1>2, <2>2, <2>3
<1>4. HoldsOf(Tail(a)) = Tail(b)
  <2>1. DOMAIN Tail(a) = 1..(n - 1) /\ \A i \in 1..(n - 1) : Tail(a)[i] = a[i + 1]
    OBVIOUS
  <2>2. HoldsOf(Tail(a)) = [i \in 1..(n - 1) |-> Content(a[i + 1])]
    BY <2>1 DEF HoldsOf
  <2>3. \A i \in 1..(n - 1) : b[i + 1] = Content(a[i + 1])
    BY <1>1, <1>2
  <2> HIDE DEF b, T, n
  <2>4. Tail(b) = [i \in 1..(n - 1) |-> b[i + 1]]
    BY <1>3, TailIs
  <2>5. QED
    BY <2>2, <2>3, <2>4
<1>5. QED
  BY <1>3, <1>4 DEF b

\* Steps that neither add a notice nor take one away.
LEMMA Silent ==
  ASSUME NEW V, NEW W, NEW x,
         \A k \in Stages : /\ NoNotice(V[k]) => NoNotice(W[k])
                           /\ LastTells(V[k], x) => LastTells(W[k], x)
  PROVE  NewestOf(V, x) => NewestOf(W, x)
BY DEF NewestOf

\* A notice goes from one stage to the next.
LEMMA Moves ==
  ASSUME NEW V, NEW W, NEW x, NEW k \in Stages, k + 1 \in Stages, NEW y,
         \A l \in Stages : l # k /\ l # k + 1 => V[l] = W[l],
         LastTells(V[k], x) => LastTells(W[k], x),
         NoNotice(V[k]) => LastTells(W[k], y),
         LastTells(V[k + 1], x) => x = y,
         ~ NoNotice(V[k + 1])
  PROVE  NewestOf(V, x) => NewestOf(W, x)
<1>1. SUFFICES ASSUME NEW l \in Stages, LastTells(V[l], x),
                      \A j \in Stages : j < l => NoNotice(V[j])
               PROVE  NewestOf(W, x)
  BY DEF NewestOf
<1>2. /\ l < k \/ l = k \/ l = k + 1 \/ k + 1 < l
      /\ k < k + 1
      /\ \A j \in Stages : j < k => j # k /\ j # k + 1 /\ j < k + 1
      /\ \A j \in Stages : l < k /\ j < l => j < k
  BY DEF Stages
<1>3. CASE l < k
  BY <1>1, <1>2, <1>3 DEF NewestOf
<1>4. CASE l = k
  BY <1>1, <1>2, <1>4 DEF NewestOf
<1>5. CASE l = k + 1
  BY <1>1, <1>2, <1>5 DEF NewestOf
<1>6. CASE k + 1 < l
  BY <1>1, <1>6
<1>7. QED
  BY <1>2, <1>3, <1>4, <1>5, <1>6

\* A notice leaves the way at its end.
LEMMA Ends ==
  ASSUME NEW V, NEW W, NEW x, NEW k \in Stages,
         \A l \in Stages : l < k => V[l] = W[l],
         LastTells(V[k], x) => LastTells(W[k], x),
         \A l \in Stages : k < l => ~ LastTells(V[l], x)
  PROVE  NewestOf(V, x) => NewestOf(W, x)
<1>1. SUFFICES ASSUME NEW l \in Stages, LastTells(V[l], x),
                      \A j \in Stages : j < l => NoNotice(V[j])
               PROVE  NewestOf(W, x)
  BY DEF NewestOf
<1>2. /\ l < k \/ l = k \/ k < l
      /\ \A j \in Stages : l < k /\ j < l => j < k
  BY DEF Stages
<1>3. QED
  BY <1>1, <1>2 DEF NewestOf

\* The tasks and the channels of the way.
TaskAt(k) == CASE k = 1 -> "network_admin" [] k = 3 -> "network" [] k = 5 -> "core"
               [] k = 7 -> "message" [] k = 9 -> "msg_to_hub"
ChanAt(k) == CASE k = 2 -> <<"network_admin", "network">> [] k = 4 -> <<"network", "core">>
               [] k = 6 -> <<"core", "message">> [] k = 8 -> <<"message", "msg_to_hub">>

\* The stages that are tasks and those that are channels.
Odd  == {1, 3, 5, 7, 9}
Even == {2, 4, 6, 8}

\* Tasks and channels take turns on the way.
LEMMA WayAt ==
  /\ Stages = Odd \cup Even
  /\ \A k \in Odd : k \in Stages /\ k \notin Even
  /\ \A k \in Even : k \in Stages /\ k \notin Odd /\ k + 1 \in Odd
  /\ \A k \in Odd : k # 9 => k + 1 \in Even
  /\ \A ch, ag : /\ \A k \in Odd : WayOf(ch, ag)[k] = HoldsOf(At(ag, TaskAt(k)))
                 /\ \A k \in Even : WayOf(ch, ag)[k] = At(ch, ChanAt(k))
  /\ \A k, l \in Odd : TaskAt(k) = TaskAt(l) => k = l
  /\ \A k, l \in Even : ChanAt(k) = ChanAt(l) => k = l
<1>1. /\ Stages = Odd \cup Even
      /\ \A k \in Odd : k \in Stages /\ k \notin Even
      /\ \A k \in Even : k \in Stages /\ k \notin Odd /\ k + 1 \in Odd
      /\ \A k \in Odd : k # 9 => k + 1 \in Even
  BY DEF Stages, Odd, Even
<1>2. /\ TaskAt(1) = "network_admin" /\ TaskAt(3) = "network" /\ TaskAt(5) = "core"
      /\ TaskAt(7) = "message" /\ TaskAt(9) = "msg_to_hub"
      /\ ChanAt(2) = <<"network_admin", "network">> /\ ChanAt(4) = <<"network", "core">>
      /\ ChanAt(6) = <<"core", "message">> /\ ChanAt(8) = <<"message", "msg_to_hub">>
  BY DEF TaskAt, ChanAt
<1>3. ASSUME NEW ch, NEW ag
      PROVE  /\ \A k \in Odd : WayOf(ch, ag)[k] = HoldsOf(At(ag, TaskAt(k)))
             /\ \A k \in Even : WayOf(ch, ag)[k] = At(ch, ChanAt(k))
  BY <1>2 DEF Odd, Even, WayOf
<1>4. \A k, l \in Odd : TaskAt(k) = TaskAt(l) => k = l
  BY <1>2 DEF Odd
<1>5. \A k, l \in Even : ChanAt(k) = ChanAt(l) => k = l
  BY <1>2 DEF Even
<1>6. QED
  BY <1>1, <1>3, <1>4, <1>5

\* Only the channels of the way carry notices, each from one task to the next.
LEMMA NoticeChannels ==
  ASSUME NEW c \in Channels, NEW m \in Msgs(c), IsNotice(m)
  PROVE  \E k \in Even : c = ChanAt(k)
<1>1. \A n \in TxMsgs \cup FirmwareMsgs \cup HubMsgs \cup LocalMsgs \cup GrpcMsgs \cup StatusMsgs
           \cup Batches \cup Acks \cup ToServers \cup Commands \cup Ready \cup Inserted
           \cup Updated \cup Changed \cup HubChanged : ~ IsNotice(n)
  BY DEF TxMsgs, FirmwareMsgs, HubMsgs, LocalMsgs, GrpcMsgs, StatusMsgs, Batches, Acks,
         ToServers, Commands, Ready, Inserted, Updated, Changed, HubChanged, Reports,
         Requests, Updates, Beats, Orders, EdgeUploads, Publishings, IsNotice, Notices, Modes
<1>2. /\ m \notin TxMsgs /\ m \notin FirmwareMsgs /\ m \notin HubMsgs /\ m \notin LocalMsgs
      /\ m \notin GrpcMsgs /\ m \notin StatusMsgs /\ m \notin Batches /\ m \notin Acks
      /\ m \notin ToServers /\ m \notin Commands /\ m \notin Ready /\ m \notin Inserted
      /\ m \notin Updated /\ m \notin Changed /\ m \notin HubChanged
      /\ m \notin Reports /\ m \notin Requests /\ m \notin Updates /\ m \notin Orders
      /\ m \notin Beats /\ m \notin EdgeUploads /\ m \notin Publishings
  BY <1>1 DEF TxMsgs
<1>3. m # <<"ToServer", "Batch">> /\ m # <<"ToServer", "message">>
  BY DEF IsNotice
<1>4. c \in {<<"network_admin", "network">>, <<"network", "core">>, <<"core", "message">>,
             <<"message", "msg_to_hub">>}
  BY <1>2, <1>3, MsgsAre DEF Channels, Services, Others
<1>5. QED
  BY <1>4 DEF Even, ChanAt

\* A task that sends a notice is on the way, and so is the channel
LEMMA NoticesGo ==
  ASSUME NEW t \in Tasks, NEW c \in OutOf(t), NEW m \in Msgs(c), IsNotice(m)
  PROVE  \E k \in Odd : k # 9 /\ t = TaskAt(k) /\ c = ChanAt(k + 1)
<1>1. c \in Channels
  BY OutTyped
<1>2. \E k \in Even : c = ChanAt(k)
  BY <1>1, NoticeChannels
<1>3. c \in {<<"network_admin", "network">>, <<"network", "core">>, <<"core", "message">>,
             <<"message", "msg_to_hub">>}
  BY <1>2 DEF Even, ChanAt
<1>4. \/ t = "network_admin" /\ c = <<"network_admin", "network">>
      \/ t = "network" /\ c = <<"network", "core">>
      \/ t = "core" /\ c = <<"core", "message">>
      \/ t = "message" /\ c = <<"message", "msg_to_hub">>
  BY <1>3, OutsAre DEF Tasks, Others, Tx
<1>5. QED
  BY <1>4 DEF Odd, TaskAt, ChanAt

\* it sends it into; the task that takes it is the next of the way.
LEMMA NoticesCome ==
  ASSUME NEW k \in Even
  PROVE  Reader(ChanAt(k)) = TaskAt(k + 1) /\ ChanAt(k) \in Channels
BY DEF Even, ChanAt, TaskAt, Reader, Channels, Services

-----------------------------------------------------------------------------
(* The start comes before the changes.                                     *)

\* A task makes of a message only what follows from it.
LEMMA TurnKeeps ==
  ASSUME NEW t \in Tasks, NEW m, NEW turn, GoodTurn(t, m, turn)
  PROVE  /\ \A i \in DOMAIN turn : /\ turn[i].do # "free" /\ Keeps(turn[i].msg, m)
                                   /\ IsNotice(turn[i].msg) => turn[i].msg = m /\ IsNotice(m)
         /\ IsNotice(m) => \/ turn = <<>> /\ t = "msg_to_hub"
                           \/ \E s : turn = <<s>> /\ s.do # "free" /\ s.msg = m
<1>1. \A s \in SendsOf(t) \cup LocksOf(t) : s.do # "free"
  BY SendsAre, LocksLock
<1>2. CASE turn = <<>> /\ (IsNotice(m) => t = "msg_to_hub")
  BY <1>2
<1>3. ASSUME NEW s \in SendsOf(t) \cup LocksOf(t), turn = <<s>>,
             Follows(s.msg, m), IsNotice(m) => s.msg = m
      PROVE  /\ \A i \in DOMAIN turn : turn[i] = s
             /\ s.do # "free" /\ Keeps(s.msg, m) /\ (IsNotice(s.msg) => s.msg = m)
  <2>1. \A i \in DOMAIN turn : turn[i] = s
    BY <1>3
  <2>2. QED
    BY <1>1, <1>3, <2>1 DEF Follows
<1>4. ASSUME NEW s1 \in SendsOf(t), NEW s2 \in SendsOf(t), turn = <<s1, s2>>, ~ IsNotice(m),
             Follows(s1.msg, m), Follows(s2.msg, m), ~ IsNotice(s1.msg), ~ IsNotice(s2.msg)
      PROVE  \A i \in DOMAIN turn : /\ turn[i].do # "free" /\ Keeps(turn[i].msg, m)
                                    /\ ~ IsNotice(turn[i].msg)
  <2>1. \A i \in DOMAIN turn : turn[i] = s1 \/ turn[i] = s2
    BY <1>4
  <2>2. QED
    BY <1>1, <1>4, <2>1 DEF Follows
<1>5. ASSUME m = <<"ToServer", "Batch">>,
             NEW n \in 0..Tables,
             turn = [i \in 1..n |-> Send(Tx, <<"EdgeUpload", "upload">>)]
      PROVE  /\ \A i \in DOMAIN turn : /\ turn[i].do # "free" /\ Keeps(turn[i].msg, m)
                                       /\ ~ IsNotice(turn[i].msg)
             /\ ~ IsNotice(m)
  <2> DEFINE u == <<"EdgeUpload", "upload">>
  <2>1. Keeps(u, m) /\ ~ IsNotice(u) /\ ~ IsNotice(m)
    BY <1>5 DEF Keeps, IsNotice, Notices, Modes
  <2>2. \A i \in DOMAIN turn : turn[i] = Send(Tx, u)
    BY <1>5
  <2> HIDE DEF u
  <2>3. \A i \in DOMAIN turn : turn[i].do # "free" /\ turn[i].msg = u
    BY <2>2, SendIs
  <2>4. QED
    BY <2>1, <2>3
<1>6. QED
  BY <1>2, <1>3, <1>4, <1>5 DEF GoodTurn

\* What a task does under the lock follows from the message it asked with.
LEMMA HoldKeeps ==
  ASSUME NEW t \in Tasks, NEW x, NEW m, NEW turn, GoodHold(t, x, m, turn)
  PROVE  \A i \in DOMAIN turn : turn[i].do # "free" => Keeps(turn[i].msg, m)
<1> DEFINE K(s) == s.do # "free" => Keeps(s.msg, m)
<1>0. K(Free(x))
  BY DEF Free
<1> HIDE DEF K
<1>1. \A s : turn = <<s>> /\ K(s) => \A i \in DOMAIN turn : K(turn[i])
  <2>1. \A s : turn = <<s>> => \A i \in DOMAIN turn : turn[i] = s
    OBVIOUS
  <2>2. QED
    BY <2>1
<1>2. \A s1, s2 : turn = <<s1, s2>> /\ K(s1) /\ K(s2) => \A i \in DOMAIN turn : K(turn[i])
  <2>1. \A s1, s2 : turn = <<s1, s2>> => \A i \in DOMAIN turn : turn[i] = s1 \/ turn[i] = s2
    OBVIOUS
  <2>2. QED
    BY <2>1
<1>3. \A s1, s2, s3 : turn = <<s1, s2, s3>> /\ K(s1) /\ K(s2) /\ K(s3)
                        => \A i \in DOMAIN turn : K(turn[i])
  <2>1. \A s1, s2, s3 : turn = <<s1, s2, s3>> =>
           \A i \in DOMAIN turn : turn[i] = s1 \/ turn[i] = s2 \/ turn[i] = s3
    OBVIOUS
  <2>2. QED
    BY <2>1
<1>4. \A s : Keeps(s.msg, m) => K(s)
  BY DEF K
<1>5. turn = <<>> => \A i \in DOMAIN turn : K(turn[i])
  OBVIOUS
<1>6. \A i \in DOMAIN turn : K(turn[i])
  <2>1. CASE turn = <<>>
    BY <1>5, <2>1
  <2>2. ASSUME NEW s, turn = <<s>>, Keeps(s.msg, m)
        PROVE  \A i \in DOMAIN turn : K(turn[i])
    BY <1>1, <1>4, <2>2
  <2>3. ASSUME NEW s1, NEW s2, turn = <<s1, s2>>, Keeps(s1.msg, m), Keeps(s2.msg, m)
        PROVE  \A i \in DOMAIN turn : K(turn[i])
    BY <1>2, <1>4, <2>3
  <2>4. ASSUME NEW s, turn = <<s, Free(x)>>, Keeps(s.msg, m)
        PROVE  \A i \in DOMAIN turn : K(turn[i])
    BY <1>0, <1>2, <1>4, <2>4
  <2>5. ASSUME NEW s1, NEW s2, turn = <<s1, s2, Free(x)>>, Keeps(s1.msg, m), Keeps(s2.msg, m)
        PROVE  \A i \in DOMAIN turn : K(turn[i])
    BY <1>0, <1>3, <1>4, <2>5
  <2>6. QED
    BY <2>1, <2>2, <2>3, <2>4, <2>5 DEF GoodHold
<1>7. QED
  BY <1>6 DEF K

\* What is on the way, in a channel or with a task.
Flies(m) ==
    \/ \E c \in DOMAIN chan : \E i \in DOMAIN chan[c] : chan[c][i] = m
    \/ \E t \in DOMAIN agenda : \E i \in DOMAIN agenda[t] :
          agenda[t][i].do # "free" /\ agenda[t][i].msg = m

\* What follows from a message that is somewhere.
Known(n) == \E m : Flies(m) /\ Keeps(n, m)

\* The start and what passes it, by the messages that are anywhere.
LEMMA FliesIs ==
  /\ Loading <=> \E m : Flies(m) /\ m[1] = "BatchNetwork"
  /\ StartIsFirst <=> (Loading => \A m : Flies(m) => Passes(m))
<1>1. Loading <=> \E m : Flies(m) /\ m[1] = "BatchNetwork"
  BY DEF Loading, Flies
<1>2. StartIsFirst <=> (Loading => \A m : Flies(m) => Passes(m))
  BY DEF StartIsFirst, Flies
<1>3. QED
  BY <1>1, <1>2

\* What is anywhere is known.
LEMMA FliesKnown ==
  ASSUME NEW m, Flies(m)
  PROVE  Known(m)
BY DEF Known, Keeps

\* What only follows from what was there keeps the start apart from the changes.
LEMMA StartStays ==
  ASSUME StartIsFirst,
         \A c \in DOMAIN chan' : \A i \in DOMAIN chan'[c] : Known(chan'[c][i]),
         \A t \in DOMAIN agenda' : \A i \in DOMAIN agenda'[t] :
            agenda'[t][i].do # "free" => Known(agenda'[t][i].msg)
  PROVE  StartIsFirst'
<1>1. \A n : Flies(n)' => Known(n)
  BY DEF Flies
<1>2. StartIsFirst => (Loading => \A m : Flies(m) => Passes(m))
  BY FliesIs
<1>3. ASSUME Loading', NEW n, Flies(n)'
      PROVE  Passes(n)
  <2>1. PICK b : Flies(b)' /\ b[1] = "BatchNetwork"
    BY <1>3 DEF Loading, Flies
  <2>2. PICK m : Flies(m) /\ Keeps(b, m)
    BY <1>1, <2>1 DEF Known
  <2>3. Loading
    BY <2>1, <2>2, FliesIs DEF Keeps
  <2>4. PICK o : Flies(o) /\ Keeps(n, o)
    BY <1>1, <1>3 DEF Known
  <2>5. Passes(o)
    BY <1>2, <2>3, <2>4
  <2>6. QED
    BY <2>4, <2>5 DEF Keeps, Passes
<1>4. QED
  BY <1>3 DEF StartIsFirst, Flies

\* A channel that changes carries what is known.
LEMMA ChanKnown ==
  ASSUME NEW c, NEW q, chan' = With(chan, c, q), \A i \in DOMAIN q : Known(q[i])
  PROVE  \A d \in DOMAIN chan' : \A i \in DOMAIN chan'[d] : Known(chan'[d][i])
<1>1. /\ \A x : x \in DOMAIN chan' <=> (IF x = c THEN q # <<>> ELSE x \in DOMAIN chan)
      /\ \A x \in DOMAIN chan' : chan'[x] = IF x = c THEN q ELSE chan[x]
  BY WithIs
<1>2. \A d \in DOMAIN chan : \A i \in DOMAIN chan[d] : Known(chan[d][i])
  BY FliesKnown DEF Flies
<1>3. QED
  BY <1>1, <1>2

\* An agenda that changes holds what is known.
LEMMA AgendaKnown ==
  ASSUME NEW t, NEW a, agenda' = With(agenda, t, a),
         \A i \in DOMAIN a : a[i].do # "free" => Known(a[i].msg)
  PROVE  \A u \in DOMAIN agenda' : \A i \in DOMAIN agenda'[u] :
            agenda'[u][i].do # "free" => Known(agenda'[u][i].msg)
<1>1. /\ \A x : x \in DOMAIN agenda' <=> (IF x = t THEN a # <<>> ELSE x \in DOMAIN agenda)
      /\ \A x \in DOMAIN agenda' : agenda'[x] = IF x = t THEN a ELSE agenda[x]
  BY WithIs
<1>2. \A u \in DOMAIN agenda : \A i \in DOMAIN agenda[u] :
         agenda[u][i].do # "free" => Known(agenda[u][i].msg)
  BY FliesKnown DEF Flies
<1>3. QED
  BY <1>1, <1>2

\* Everything in a channel or an agenda is known.
LEMMA AllKnown ==
  /\ \A d \in DOMAIN chan : \A i \in DOMAIN chan[d] : Known(chan[d][i])
  /\ \A u \in DOMAIN agenda : \A i \in DOMAIN agenda[u] :
        agenda[u][i].do # "free" => Known(agenda[u][i].msg)
BY FliesKnown DEF Flies

\* Every element of a tail was one of the sequence.
LEMMA TailElems ==
  ASSUME NEW S, NEW q \in Seq(S), q # <<>>
  PROVE  \A i \in DOMAIN Tail(q) : \E j \in DOMAIN q : Tail(q)[i] = q[j]
<1> DEFINE n == Len(q)
           v == Tail(q)
<1>1. n \in Nat /\ DOMAIN q = 1..n /\ DOMAIN v = 1..(n - 1) /\ \A i \in 1..(n - 1) : v[i] = q[i + 1]
  OBVIOUS
<1> HIDE DEF n, v
<1>2. \A i \in 1..(n - 1) : i + 1 \in 1..n
  BY <1>1
<1>3. QED
  BY <1>1, <1>2 DEF v

\* The elements of a sequence that one more came into.
LEMMA AppendElems ==
  ASSUME NEW S, NEW q \in Seq(S), NEW m \in S
  PROVE  \A i \in DOMAIN Append(q, m) :
            Append(q, m)[i] = m \/ \E j \in DOMAIN q : Append(q, m)[i] = q[j]
OBVIOUS

\* A turn that begins: what it makes of a change is a change.
LEMMA TakesStart ==
  ASSUME Safe, StartIsFirst, NEW c \in DOMAIN chan, Takes(Reader(c), c)
  PROVE  StartIsFirst'
<1> DEFINE t == Reader(c)
           q == chan[c]
           m == Head(q)
<1>1. PICK turn \in Turns(t, c, m) : agenda' = With(agenda, t, turn)
  BY DEF Takes
<1>2. chan' = With(chan, c, Tail(q))
  BY DEF Takes
<1>3. c \in Channels /\ t \in Tasks /\ q \in Seq(Msgs(c)) /\ q # <<>>
  BY DEF Safe, Inv, ChanOK
<1>4. m \in Msgs(c) /\ 1 \in DOMAIN q /\ q[1] = m
  BY <1>3
<1>5. GoodTurn(t, m, turn)
  BY <1>3, <1>4, TurnsGood
<1>6. Flies(m)
  BY <1>4 DEF Flies
<1>7. \A i \in DOMAIN turn : turn[i].do # "free" => Known(turn[i].msg)
  BY <1>3, <1>5, <1>6, TurnKeeps DEF Known
<1>8. \A i \in DOMAIN Tail(q) : Known(Tail(q)[i])
  BY <1>3, TailElems, AllKnown
<1>9. QED
  BY <1>1, <1>2, <1>7, <1>8, ChanKnown, AgendaKnown, StartStays

\* What is left of an agenda was known before.
LEMMA TailKnown ==
  ASSUME Safe, NEW t \in DOMAIN agenda
  PROVE  \A i \in DOMAIN Tail(agenda[t]) :
            Tail(agenda[t])[i].do # "free" => Known(Tail(agenda[t])[i].msg)
<1>1. agenda[t] \in Seq(StepsOf(t)) /\ agenda[t] # <<>>
  BY AtHead
<1>2. QED
  BY <1>1, TailElems, AllKnown

\* A message that goes on is the same message.
LEMMA SendsStart ==
  ASSUME Safe, StartIsFirst, NEW t \in DOMAIN agenda, Sends(t)
  PROVE  StartIsFirst'
<1> DEFINE a == agenda[t]
           s == Head(a)
           c == s.to
           m == s.msg
           q == At(chan, c)
<1>1. s.do = "send" /\ agenda' = With(agenda, t, Tail(a))
  BY DEF Sends
<1>2. chan' = With(chan, c, Append(q, m))
  BY DEF Sends
<1>3. t \in Tasks /\ s \in StepsOf(t) /\ a \in Seq(StepsOf(t)) /\ a # <<>>
  BY AtHead
<1>4. m \in Msgs(c) /\ q \in Seq(Msgs(c))
  BY <1>1, <1>3, StepKinds, SendsAre, AtTyped DEF Safe, Inv
<1>5. Known(m)
  <2>1. 1 \in DOMAIN a /\ a[1] = s
    BY <1>3
  <2>2. QED
    BY <1>1, <2>1, AllKnown
<1>6. \A i \in DOMAIN q : Known(q[i])
  BY AllKnown DEF At
<1>7. \A i \in DOMAIN Append(q, m) : Known(Append(q, m)[i])
  BY <1>4, <1>5, <1>6, AppendElems
<1>8. \A d \in DOMAIN chan' : \A i \in DOMAIN chan'[d] : Known(chan'[d][i])
  BY <1>2, <1>7, ChanKnown
<1>9. QED
  BY <1>1, <1>8, TailKnown, AgendaKnown, StartStays

\* The end of a guard tells nobody anything.
LEMMA FreesStart ==
  ASSUME Safe, StartIsFirst, NEW t \in DOMAIN agenda, Frees(t)
  PROVE  StartIsFirst'
<1>1. agenda' = With(agenda, t, Tail(agenda[t])) /\ chan' = chan
  BY DEF Frees
<1>2. \A d \in DOMAIN chan' : \A i \in DOMAIN chan'[d] : Known(chan'[d][i])
  BY <1>1, AllKnown
<1>3. QED
  BY <1>1, <1>2, TailKnown, AgendaKnown, StartStays

\* The turn of whoever has the lock next.
LEMMA HasLockTurn ==
  ASSUME Safe, NEW t \in DOMAIN agenda, HasLock(t)
  PROVE  LET s == Head(agenda[t])
         IN  /\ t \in Tasks /\ s \in LocksOf(t) /\ agenda[t] = <<s>>
             /\ \E turn \in UnderLock(t, s.msg) :
                   agenda' = With(agenda, t, turn) /\ GoodHold(t, s.do, s.msg, turn)
<1> DEFINE s == Head(agenda[t])
<1>1. s.do \in {"read", "write"}
  BY DEF HasLock, WantsLock
<1>2. t \in Tasks /\ s \in StepsOf(t) /\ agenda[t] = <<s>>
  BY <1>1, AtHead
<1>3. s \in LocksOf(t)
  BY <1>1, <1>2, StepKinds
<1>4. PICK turn \in UnderLock(t, s.msg) : agenda' = With(agenda, t, turn \o Tail(agenda[t]))
  BY DEF HasLock
<1>5. GoodHold(t, s.do, s.msg, turn)
  BY <1>2, <1>3, HoldsGood
<1>6. turn \in Seq(StepsOf(t))
  BY <1>1, <1>2, <1>5, HoldFits
<1>7. agenda' = With(agenda, t, turn)
  <2>1. Tail(agenda[t]) = <<>>
    <3>1. \A z : Tail(<<z>>) = <<>>
      OBVIOUS
    <3>2. QED
      BY <1>2, <3>1
  <2>2. turn \o <<>> = turn
    BY <1>6
  <2>3. QED
    BY <1>4, <2>1, <2>2
<1>8. QED
  BY <1>2, <1>3, <1>5, <1>7

\* What is done under the lock: the start makes no notices.
LEMMA HasLockStart ==
  ASSUME Safe, StartIsFirst, NEW t \in DOMAIN agenda, HasLock(t)
  PROVE  StartIsFirst'
<1> DEFINE s == Head(agenda[t])
<1>1. t \in Tasks /\ s \in LocksOf(t) /\ agenda[t] = <<s>>
  BY HasLockTurn
<1>2. PICK turn : agenda' = With(agenda, t, turn) /\ GoodHold(t, s.do, s.msg, turn)
  BY HasLockTurn
<1>3. chan' = chan
  BY DEF HasLock
<1>4. Flies(s.msg)
  <2>1. s.do # "free"
    BY <1>1, LocksLock
  <2>2. 1 \in DOMAIN agenda[t] /\ agenda[t][1] = s
    BY <1>1
  <2>3. QED
    BY <2>1, <2>2 DEF Flies
<1>5. \A i \in DOMAIN turn : turn[i].do # "free" => Known(turn[i].msg)
  BY <1>1, <1>2, <1>4, HoldKeeps DEF Known
<1>6. \A d \in DOMAIN chan' : \A i \in DOMAIN chan'[d] : Known(chan'[d][i])
  BY <1>3, AllKnown
<1>7. QED
  BY <1>2, <1>5, <1>6, AgendaKnown, StartStays

\* The server sends no change before the start is over.
LEMMA ArrivesStart ==
  ASSUME Safe, StartIsFirst, NEW s \in DOMAIN Inputs, Arrives(s, Load - UnderWay)
  PROVE  StartIsFirst'
<1> DEFINE c == <<s, "core">>
<1>1. PICK m \in Inputs[s] : /\ m[2] \in Notices => ~ Loading
                             /\ agenda' = With(agenda, s, <<Send(c, m)>>)
  BY DEF Arrives
<1>2. chan' = chan
  BY DEF Arrives
<1>3. m[1] # "BatchNetwork"
  BY InputsTyped
<1>4. \A n : Flies(n)' => n = m \/ Flies(n)
  <2> DEFINE a == <<Send(c, m)>>
  <2>1. \A i \in DOMAIN a : a[i].msg = m
    BY SendIs
  <2>2. agenda' = With(agenda, s, a)
    BY <1>1
  <2> HIDE DEF a, c
  <2>3. \A t \in DOMAIN agenda' :
            agenda'[t] = a \/ (t \in DOMAIN agenda /\ agenda'[t] = agenda[t])
    BY <2>2, WithIs
  <2>4. \A t \in DOMAIN agenda' : \A i \in DOMAIN agenda'[t] :
            agenda'[t][i].do # "free" => agenda'[t][i].msg = m \/ Flies(agenda'[t][i].msg)
    BY <2>1, <2>3 DEF Flies
  <2>5. QED
    BY <1>2, <2>4 DEF Flies
<1>5. ASSUME Loading', NEW n, Flies(n)'
      PROVE  Passes(n)
  <2>1. PICK b : Flies(b)' /\ b[1] = "BatchNetwork"
    BY <1>5 DEF Loading, Flies
  <2>2. Loading
    BY <1>3, <1>4, <2>1, FliesIs
  <2>3. Passes(m)
    BY <1>1, <2>2 DEF Passes
  <2>4. QED
    BY <1>4, <1>5, <2>2, <2>3, FliesIs
<1>6. QED
  BY <1>5 DEF StartIsFirst, Flies

\* At the start there is nothing else.
LEMMA InitStart ==
  ASSUME Init
  PROVE  StartIsFirst
<1>1. DOMAIN agenda = {}
  BY DEF Init
<1>2. CASE chan = <<>>
  BY <1>1, <1>2 DEF StartIsFirst
<1>3. ASSUME NEW x \in Modes,
             chan = With(<<>>, <<"data", "core">>, <<<<"BatchNetwork", x>>>>)
      PROVE  StartIsFirst
  <2> DEFINE c == <<"data", "core">>
             b == <<"BatchNetwork", x>>
             none == <<>>
  <2>1. b[1] = "BatchNetwork"
    OBVIOUS
  <2>2. DOMAIN none = {} /\ chan = With(none, c, <<b>>)
    BY <1>3
  <2> HIDE DEF c, b, none
  <2>3. /\ \A y : y \in DOMAIN chan <=> (IF y = c THEN <<b>> # <<>> ELSE y \in DOMAIN none)
        /\ \A y \in DOMAIN chan : chan[y] = IF y = c THEN <<b>> ELSE none[y]
    BY <2>2, WithIs
  <2>4. \A d \in DOMAIN chan : chan[d] = <<b>>
    BY <2>2, <2>3
  <2>5. \A d \in DOMAIN chan : \A i \in DOMAIN chan[d] : chan[d][i] = b
    BY <2>4
  <2>6. QED
    BY <1>1, <2>1, <2>5 DEF StartIsFirst, Passes
<1>4. QED
  BY <1>2, <1>3 DEF Init

\* Every step keeps the start apart from the changes.
LEMMA NextStart ==
  ASSUME Safe, StartIsFirst, [Next]_vars
  PROVE  StartIsFirst'
<1>1. CASE Next
  <2>1. ASSUME NEW t \in DOMAIN agenda, Queues(t)
        PROVE  StartIsFirst'
    BY <2>1 DEF Queues, StartIsFirst, Loading
  <2>2. QED
    BY <1>1, <2>1, NextCases, ArrivesStart, TakesStart, SendsStart, HasLockStart, FreesStart
<1>2. CASE UNCHANGED vars
  BY <1>2 DEF vars, StartIsFirst, Loading
<1>3. QED
  BY <1>1, <1>2

-----------------------------------------------------------------------------
(* The newest notice.                                                      *)

\* The newest notice, by stages, tells the mode of the cache.
Current == \A x \in Modes : NewestOf(WayOf(chan, agenda), x) => cache = x

\* The property, by the stages of the way.
LEMMA CurrentIs ==
  ASSUME Current
  PROVE  NewestNoticeIsCurrent
BY NewestIs DEF Current, NewestNoticeIsCurrent

\* A stage without a notice tells nothing.
LEMMA NoneTells ==
  ASSUME NEW q, NoNotice(q)
  PROVE  \A x : ~ LastTells(q, x)
BY DEF NoNotice, LastTells

\* What a stage shows of an agenda.
LEMMA HoldsNone ==
  ASSUME NEW a, \A i \in DOMAIN a : a[i].do # "free" => ~ IsNotice(a[i].msg)
  PROVE  NoNotice(HoldsOf(a))
<1>1. ~ IsNotice(<<"free", "lock">>)
  BY DEF IsNotice
<1>2. \A i \in DOMAIN a : HoldsOf(a)[i] = Content(a[i])
  BY DEF HoldsOf
<1>3. \A i \in DOMAIN a : ~ IsNotice(Content(a[i]))
  BY <1>1 DEF Content
<1>4. DOMAIN HoldsOf(a) = DOMAIN a
  BY DEF HoldsOf
<1>5. QED
  BY <1>2, <1>3, <1>4 DEF NoNotice

\* A task at its select! tells nothing.
LEMMA HoldsEmpty ==
  ASSUME NEW a, a = <<>>
  PROVE  NoNotice(HoldsOf(a)) /\ \A x : ~ LastTells(HoldsOf(a), x)
<1>1. DOMAIN a = {}
  OBVIOUS
<1>2. NoNotice(HoldsOf(a))
  BY <1>1, HoldsNone
<1>3. QED
  BY <1>2, NoneTells

\* A task with one step left tells what its message says.
LEMMA HoldsOne ==
  ASSUME NEW s, s.do # "free", NEW a, a = <<s>>
  PROVE  /\ NoNotice(HoldsOf(a)) <=> ~ IsNotice(s.msg)
         /\ \A x : LastTells(HoldsOf(a), x) <=> IsNotice(s.msg) /\ s.msg[2] = x
<1> DEFINE b == HoldsOf(a)
<1>1. DOMAIN a = {1} /\ a[1] = s
  OBVIOUS
<1>2. DOMAIN b = {1} /\ b[1] = s.msg
  BY <1>1 DEF HoldsOf, Content
<1> HIDE DEF b
<1>3. NoNotice(b) <=> ~ IsNotice(s.msg)
  BY <1>2 DEF NoNotice
<1>4. \A x : LastTells(b, x) <=> IsNotice(s.msg) /\ s.msg[2] = x
  BY <1>2 DEF LastTells
<1>5. QED
  BY <1>3, <1>4 DEF b

\* What changes of the way when an agenda or a channel changes.
LEMMA TaskStages ==
  ASSUME NEW t, NEW a, agenda' = With(agenda, t, a), NEW k \in Odd
  PROVE  WayOf(chan', agenda')[k] =
            IF TaskAt(k) = t THEN HoldsOf(a) ELSE WayOf(chan, agenda)[k]
<1>1. At(agenda', TaskAt(k)) = IF TaskAt(k) = t THEN a ELSE At(agenda, TaskAt(k))
  BY WithIs
<1>2. /\ WayOf(chan', agenda')[k] = HoldsOf(At(agenda', TaskAt(k)))
      /\ WayOf(chan, agenda)[k] = HoldsOf(At(agenda, TaskAt(k)))
  BY WayAt
<1>3. QED
  BY <1>1, <1>2

\* One channel changed: what the stages that are channels hold now.
LEMMA ChanStages ==
  ASSUME NEW c, NEW q, chan' = With(chan, c, q), NEW k \in Even
  PROVE  WayOf(chan', agenda')[k] = IF ChanAt(k) = c THEN q ELSE WayOf(chan, agenda)[k]
<1>1. At(chan', ChanAt(k)) = IF ChanAt(k) = c THEN q ELSE At(chan, ChanAt(k))
  BY WithIs
<1>2. /\ WayOf(chan', agenda')[k] = At(chan', ChanAt(k))
      /\ WayOf(chan, agenda)[k] = At(chan, ChanAt(k))
  BY WayAt
<1>3. QED
  BY <1>1, <1>2

\* What did not change is the same on the way.
LEMMA StillStages ==
  /\ agenda' = agenda => \A k \in Odd : WayOf(chan', agenda')[k] = WayOf(chan, agenda)[k]
  /\ chan' = chan => \A k \in Even : WayOf(chan', agenda')[k] = WayOf(chan, agenda)[k]
BY WayAt

\* What comes in is not on the way yet.
LEMMA ArrivesCurrent ==
  ASSUME Safe, Current, NEW s \in DOMAIN Inputs, Arrives(s, Load - UnderWay)
  PROVE  Current'
<1> DEFINE V == WayOf(chan', agenda')
           W == WayOf(chan, agenda)
<1>1. PICK a : agenda' = With(agenda, s, a)
  BY DEF Arrives
<1>2. chan' = chan /\ cache' = cache
  BY DEF Arrives
<1>3. \A k \in Odd : TaskAt(k) # s
  BY DEF Odd, TaskAt, Inputs
<1>4. \A k \in Stages : V[k] = W[k]
  BY <1>1, <1>2, <1>3, TaskStages, StillStages, WayAt
<1> HIDE DEF V, W
<1>5. \A x : NewestOf(V, x) => NewestOf(W, x)
  BY <1>4, Silent
<1>6. QED
  BY <1>2, <1>5 DEF Current, V, W

\* A channel gives its first message.
LEMMA GivesStages ==
  ASSUME Safe, NEW c \in DOMAIN chan, chan' = With(chan, c, Tail(chan[c])), NEW x,
         NEW k \in Even
  PROVE  LET V == WayOf(chan', agenda')
             W == WayOf(chan, agenda)
             m == Head(chan[c])
         IN  /\ ChanAt(k) # c => V[k] = W[k]
             /\ LastTells(V[k], x) => LastTells(W[k], x)
             /\ ~ IsNotice(m) /\ NoNotice(V[k]) => NoNotice(W[k])
             /\ ChanAt(k) = c /\ IsNotice(m) /\ NoNotice(V[k]) => LastTells(W[k], m[2])
<1> DEFINE V == WayOf(chan', agenda')
           W == WayOf(chan, agenda)
           q == chan[c]
           m == Head(q)
<1>1. q \in Seq(Msgs(c)) /\ q # <<>>
  BY DEF Safe, Inv, ChanOK
<1>2. V[k] = IF ChanAt(k) = c THEN Tail(q) ELSE W[k]
  BY ChanStages
<1>3. ChanAt(k) = c => W[k] = q
  BY WayAt DEF At
<1>4. /\ LastTells(Tail(q), x) => LastTells(q, x)
      /\ ~ IsNotice(m) /\ NoNotice(Tail(q)) => NoNotice(q)
      /\ IsNotice(m) /\ NoNotice(Tail(q)) => LastTells(q, m[2])
  BY <1>1, StageTail
<1> HIDE DEF V, W, m
<1>5. QED
  BY <1>2, <1>3, <1>4 DEF V, W, m

\* A notice is taken by the next task of the way, as it is.
LEMMA TakesCurrent ==
  ASSUME Safe, Current, NEW c \in DOMAIN chan, Takes(Reader(c), c)
  PROVE  Current'
<1> DEFINE t == Reader(c)
           q == chan[c]
           m == Head(q)
           V == WayOf(chan', agenda')
           W == WayOf(chan, agenda)
<1>1. PICK turn \in Turns(t, c, m) : agenda' = With(agenda, t, turn)
  BY DEF Takes
<1>2. chan' = With(chan, c, Tail(q)) /\ t \notin DOMAIN agenda /\ cache' = cache
  BY DEF Takes
<1>3. c \in Channels /\ t \in Tasks /\ q \in Seq(Msgs(c)) /\ q # <<>>
  BY DEF Safe, Inv, ChanOK
<1>4. m \in Msgs(c)
  BY <1>3
<1>5. GoodTurn(t, m, turn)
  BY <1>3, <1>4, TurnsGood
<1>6. \A k \in Odd : V[k] = IF TaskAt(k) = t THEN HoldsOf(turn) ELSE W[k]
  BY <1>1, TaskStages
<1>7. \A k \in Odd : TaskAt(k) = t => NoNotice(W[k]) /\ \A x : ~ LastTells(W[k], x)
  <2>1. At(agenda, t) = <<>>
    BY <1>2 DEF At
  <2>2. \A k \in Odd : TaskAt(k) = t => W[k] = HoldsOf(At(agenda, t))
    BY WayAt
  <2>3. NoNotice(HoldsOf(At(agenda, t))) /\ \A x : ~ LastTells(HoldsOf(At(agenda, t)), x)
    BY <2>1, HoldsEmpty
  <2>4. QED
    BY <2>2, <2>3
<1>8. \A x : \A k \in Even :
          /\ ChanAt(k) # c => V[k] = W[k]
          /\ LastTells(V[k], x) => LastTells(W[k], x)
          /\ ~ IsNotice(m) /\ NoNotice(V[k]) => NoNotice(W[k])
          /\ ChanAt(k) = c /\ IsNotice(m) /\ NoNotice(V[k]) => LastTells(W[k], m[2])
  BY <1>2, GivesStages
<1>9. /\ \A i \in DOMAIN turn : /\ turn[i].do # "free"
                                /\ IsNotice(turn[i].msg) => turn[i].msg = m /\ IsNotice(m)
      /\ IsNotice(m) => \/ turn = <<>> /\ t = "msg_to_hub"
                        \/ \E s : turn = <<s>> /\ s.do # "free" /\ s.msg = m
  BY <1>3, <1>5, TurnKeeps
<1> HIDE DEF V, W, m, t
<1>10. CASE ~ IsNotice(m)
  <2>1. NoNotice(HoldsOf(turn))
    BY <1>9, <1>10, HoldsNone
  <2>2. \A x : ~ LastTells(HoldsOf(turn), x)
    BY <2>1, NoneTells
  <2>3. ASSUME NEW x
        PROVE  NewestOf(V, x) => NewestOf(W, x)
    <3>1. \A k \in Stages : /\ NoNotice(V[k]) => NoNotice(W[k])
                            /\ LastTells(V[k], x) => LastTells(W[k], x)
      BY <1>6, <1>7, <1>8, <1>10, <2>2, WayAt
    <3>2. QED
      BY <3>1, Silent
  <2>4. QED
    BY <1>2, <2>3 DEF Current, V, W
<1>11. CASE IsNotice(m)
  <2>1. PICK k \in Even : c = ChanAt(k)
    BY <1>3, <1>4, <1>11, NoticeChannels
  <2>2. t = TaskAt(k + 1) /\ k \in Stages /\ k + 1 \in Stages /\ k + 1 \in Odd
    BY <2>1, NoticesCome, WayAt DEF t
  <2>3. \A l \in Stages : l # k /\ l # k + 1 => V[l] = W[l]
    BY <1>6, <1>8, <2>1, <2>2, WayAt
  <2>4. ASSUME NEW x
        PROVE  NewestOf(V, x) => NewestOf(W, x)
    <3>1. LastTells(V[k], x) => LastTells(W[k], x)
      BY <1>8
    <3>2. CASE turn = <<>> /\ t = "msg_to_hub"
      <4>1. k = 8
        BY <2>1, <2>2, <3>2 DEF Even, TaskAt
      <4>2. \A l \in Stages : (l < k => l # k /\ l # k + 1) /\ (k < l => l = k + 1)
        BY <4>1 DEF Stages
      <4>3. ~ LastTells(V[k + 1], x)
        BY <1>6, <2>2, <3>2, HoldsEmpty
      <4>4. \A l \in Stages : l < k => V[l] = W[l]
        BY <2>3, <4>2
      <4>5. \A l \in Stages : k < l => ~ LastTells(V[l], x)
        BY <4>2, <4>3
      <4>6. QED
        BY <2>2, <3>1, <4>4, <4>5, Ends
    <3>3. ASSUME NEW s, turn = <<s>>, s.do # "free", s.msg = m
          PROVE  NewestOf(V, x) => NewestOf(W, x)
      <4>1. V[k + 1] = HoldsOf(turn)
        BY <1>6, <2>2
      <4>2. ~ NoNotice(HoldsOf(turn)) /\ (LastTells(HoldsOf(turn), x) => x = m[2])
        BY <1>11, <3>3, HoldsOne
      <4>3. NoNotice(V[k]) => LastTells(W[k], m[2])
        BY <1>8, <1>11, <2>1
      <4>4. QED
        BY <2>2, <2>3, <3>1, <4>1, <4>2, <4>3, Moves
    <3>4. QED
      BY <1>9, <1>11, <3>2, <3>3
  <2>5. QED
    BY <1>2, <2>4 DEF Current, V, W
<1>12. QED
  BY <1>10, <1>11

\* A task has done its first step.
LEMMA DoneStages ==
  ASSUME Safe, NEW t \in DOMAIN agenda, agenda' = With(agenda, t, Tail(agenda[t])), NEW x,
         NEW k \in Odd
  PROVE  LET V == WayOf(chan', agenda')
             W == WayOf(chan, agenda)
             m == Content(Head(agenda[t]))
         IN  /\ TaskAt(k) # t => V[k] = W[k]
             /\ LastTells(V[k], x) => LastTells(W[k], x)
             /\ ~ IsNotice(m) /\ NoNotice(V[k]) => NoNotice(W[k])
             /\ TaskAt(k) = t /\ IsNotice(m) /\ NoNotice(V[k]) => LastTells(W[k], m[2])
<1> DEFINE V == WayOf(chan', agenda')
           W == WayOf(chan, agenda)
           a == agenda[t]
           b == HoldsOf(a)
           m == Content(Head(a))
<1>1. a \in Seq(StepsOf(t)) /\ a # <<>>
  BY AtHead
<1>2. V[k] = IF TaskAt(k) = t THEN HoldsOf(Tail(a)) ELSE W[k]
  BY TaskStages
<1>3. TaskAt(k) = t => W[k] = b
  BY WayAt DEF At
<1>4. HoldsOf(Tail(a)) = Tail(b) /\ Head(b) = m /\ b # <<>> /\ \E T : b \in Seq(T)
  BY <1>1, HoldsTail
<1> HIDE DEF V, W, m, b
<1>5. /\ LastTells(Tail(b), x) => LastTells(b, x)
      /\ ~ IsNotice(m) /\ NoNotice(Tail(b)) => NoNotice(b)
      /\ IsNotice(m) /\ NoNotice(Tail(b)) => LastTells(b, m[2])
  BY <1>4, StageTail
<1>6. QED
  BY <1>2, <1>3, <1>4, <1>5 DEF V, W, m

\* The end of a guard is no notice.
LEMMA FreesCurrent ==
  ASSUME Safe, Current, NEW t \in DOMAIN agenda, Frees(t)
  PROVE  Current'
<1> DEFINE V == WayOf(chan', agenda')
           W == WayOf(chan, agenda)
           m == Content(Head(agenda[t]))
<1>1. /\ agenda' = With(agenda, t, Tail(agenda[t])) /\ chan' = chan /\ cache' = cache
      /\ Head(agenda[t]).do = "free"
  BY DEF Frees
<1>2. ~ IsNotice(m)
  BY <1>1 DEF Content, IsNotice
<1>3. \A x : \A k \in Odd : /\ LastTells(V[k], x) => LastTells(W[k], x)
                            /\ ~ IsNotice(m) /\ NoNotice(V[k]) => NoNotice(W[k])
  BY <1>1, DoneStages
<1>4. \A k \in Even : V[k] = W[k]
  BY <1>1, StillStages
<1> HIDE DEF V, W, m
<1>5. \A x : NewestOf(V, x) => NewestOf(W, x)
  BY <1>2, <1>3, <1>4, Silent, WayAt
<1>6. QED
  BY <1>1, <1>5 DEF Current, V, W

\* A notice is sent into the next channel of the way, as it is.
LEMMA SendsCurrent ==
  ASSUME Safe, Current, NEW t \in DOMAIN agenda, Sends(t)
  PROVE  Current'
<1> DEFINE s == Head(agenda[t])
           c == s.to
           m == s.msg
           q == At(chan, c)
           V == WayOf(chan', agenda')
           W == WayOf(chan, agenda)
<1>1. s.do = "send" /\ agenda' = With(agenda, t, Tail(agenda[t])) /\ cache' = cache
  BY DEF Sends
<1>2. chan' = With(chan, c, Append(q, m))
  BY DEF Sends
<1>3. t \in Tasks /\ c \in OutOf(t) /\ m \in Msgs(c) /\ q \in Seq(Msgs(c))
  BY <1>1, AtHead, StepKinds, SendsAre, AtTyped DEF Safe, Inv
<1>4. Content(s) = m
  BY <1>1 DEF Content
<1>5. \A x : \A k \in Odd :
         /\ TaskAt(k) # t => V[k] = W[k]
         /\ LastTells(V[k], x) => LastTells(W[k], x)
         /\ ~ IsNotice(m) /\ NoNotice(V[k]) => NoNotice(W[k])
         /\ TaskAt(k) = t /\ IsNotice(m) /\ NoNotice(V[k]) => LastTells(W[k], m[2])
  BY <1>1, <1>4, DoneStages
<1>6. \A k \in Even : ChanAt(k) = c => W[k] = q
  BY WayAt
<1>7. \A k \in Even : V[k] = W[k] \/ (ChanAt(k) = c /\ V[k] = Append(q, m))
  BY <1>2, ChanStages
<1>8. /\ NoNotice(Append(q, m)) => NoNotice(q) /\ ~ IsNotice(m)
      /\ ~ IsNotice(m) => \A x : LastTells(Append(q, m), x) => LastTells(q, x)
      /\ IsNotice(m) => \A x : LastTells(Append(q, m), x) => x = m[2]
  BY <1>3, StageAppend
<1>9. CASE ~ IsNotice(m)
  <2> HIDE DEF V, W, m, c, q
  <2>1. ASSUME NEW x
        PROVE  NewestOf(V, x) => NewestOf(W, x)
    <3>1. \A k \in Stages : /\ NoNotice(V[k]) => NoNotice(W[k])
                            /\ LastTells(V[k], x) => LastTells(W[k], x)
      BY <1>5, <1>6, <1>7, <1>8, <1>9, WayAt
    <3>2. QED
      BY <3>1, Silent
  <2>2. QED
    BY <1>1, <2>1 DEF Current, V, W
<1>10. CASE IsNotice(m)
  <2>1. PICK k \in Odd : k # 9 /\ t = TaskAt(k) /\ c = ChanAt(k + 1)
    BY <1>3, <1>10, NoticesGo
  <2>2. k \in Stages /\ k + 1 \in Stages /\ k + 1 \in Even
    BY <2>1, WayAt
  <2>3. V[k + 1] = Append(q, m)
    <3>1. \A j \in Even : V[j] = IF ChanAt(j) = c THEN Append(q, m) ELSE W[j]
      BY <1>2, ChanStages
    <3> HIDE DEF V, W, c, q, m
    <3>2. QED
      BY <2>1, <2>2, <3>1
  <2>4. \A l \in Stages : l # k /\ l # k + 1 => V[l] = W[l]
    BY <1>5, <1>7, <2>1, <2>2, WayAt
  <2> HIDE DEF V, W, m, c, q
  <2>5. ASSUME NEW x
        PROVE  NewestOf(V, x) => NewestOf(W, x)
    <3> DEFINE y == m[2]
    <3>1. LastTells(V[k], x) => LastTells(W[k], x)
      BY <1>5
    <3>2. NoNotice(V[k]) => LastTells(W[k], y)
      BY <1>5, <1>10, <2>1
    <3>3. ~ NoNotice(V[k + 1])
      BY <1>8, <1>10, <2>3
    <3>4. LastTells(V[k + 1], x) => x = y
      BY <1>8, <1>10, <2>3
    <3>5. k \in Stages /\ k + 1 \in Stages
      BY <2>2
    <3> HIDE DEF y
    <3>6. QED
      BY <2>4, <3>1, <3>2, <3>3, <3>4, <3>5, Moves
  <2>6. QED
    BY <1>1, <2>5 DEF Current, V, W
<1>11. QED
  BY <1>9, <1>10

\* msg_to_hub passes a notice to its second look or is done with it.
LEMMA ToHubTells ==
  ASSUME NEW s \in LocksOf("msg_to_hub"), NEW turn \in UnderLock("msg_to_hub", s.msg),
         NEW a, a = <<s>>, NEW x, LastTells(HoldsOf(turn), x)
  PROVE  LastTells(HoldsOf(a), x)
<1> DEFINE m == s.msg
<1>1. m \in ToHubs \cup Acks \cup {<<"topic", z>> : z \in Notices \cup {"request"}}
  <2>1. \/ \E z \in ToHubs \cup Acks : s = Lock("read", z)
        \/ \E z \in Notices \cup {"request"} : s = Lock("read", <<"topic", z>>)
    BY LocksAre
  <2>2. QED
    BY <2>1 DEF Lock
<1>2. turn = <<>> \/ turn = <<Send(Tx, <<"Serialized", "message">>)>>
        \/ /\ turn = <<Lock("read", <<"topic", m[2]>>)>>
           /\ m[1] = "ToHub" /\ m[2] \in Notices \cup {"request"}
  BY <1>1 DEF UnderLock, ToHubUnderLock, Publishes, ToHubs, Acks
<1>3. turn # <<>>
  BY HoldsEmpty
<1>4. turn # <<Send(Tx, <<"Serialized", "message">>)>>
  <2> DEFINE n == <<"Serialized", "message">>
  <2>1. Send(Tx, n).do # "free" /\ Send(Tx, n).msg = n /\ ~ IsNotice(n)
    BY SendIs DEF IsNotice
  <2> HIDE DEF n
  <2>2. \A b : b = <<Send(Tx, n)>> => ~ LastTells(HoldsOf(b), x)
    BY <2>1, HoldsOne
  <2>3. QED
    BY <2>2 DEF n
<1>5. turn = <<Lock("read", <<"topic", m[2]>>)>> /\ m[1] = "ToHub"
  BY <1>2, <1>3, <1>4
<1>6. IsNotice(<<"topic", m[2]>>) /\ m[2] = x
  <2> DEFINE l == Lock("read", <<"topic", m[2]>>)
             n == <<"topic", m[2]>>
  <2>1. l.do # "free" /\ l.msg = n /\ n[2] = m[2]
    BY LockIs
  <2> HIDE DEF l, n
  <2>2. turn = <<l>>
    BY <1>5 DEF l, n
  <2>3. IsNotice(l.msg) /\ l.msg[2] = x
    BY <2>1, <2>2, HoldsOne
  <2>4. QED
    BY <2>1, <2>3 DEF n
<1>7. IsNotice(m)
  BY <1>5, <1>6 DEF IsNotice
<1>8. s.do # "free"
  BY LocksLock DEF Tasks
<1>9. QED
  BY <1>6, <1>7, <1>8, HoldsOne

\* What network_admin tells under the lock, and what becomes of the cache.
LEMMA AdminTells ==
  ASSUME NEW s \in LocksOf("network_admin"), NEW turn \in UnderLock("network_admin", s.msg)
  PROVE  /\ ~ IsNotice(s.msg) /\ s.do # "free"
         /\ \/ /\ s.msg[1] = "action" /\ s.msg[2] \in Notices
               /\ \E n : \E d : /\ turn = <<n, d>> /\ ~ IsNotice(d.msg)
                                /\ n.do = "send" /\ d.do = "send"
                                /\ n.msg = <<"ToHub", s.msg[2]>>
            \/ /\ s.msg[1] = "action" /\ cache = "absent" /\ NoNotice(HoldsOf(turn))
            \/ /\ s.msg[1] # "action" /\ NoNotice(HoldsOf(turn))
<1> DEFINE t == "network_admin"
           m == s.msg
           up == <<t, "network">>
           net == <<"networks", "network_dba">>
           hub == <<"hubs", "network_dba">>
           K(z) == z.do # "free" => ~ IsNotice(z.msg)
<1>0. turn \in AdminUnderLock(m)
  BY DEF UnderLock
<1>1. /\ \A c, n : Send(c, n).do = "send" /\ Send(c, n).msg = n
      /\ \A x, n : Lock(x, n).do = x /\ Lock(x, n).msg = n
  BY SendIs, LockIs
<1>2. \/ \E x \in Notices : s = Lock("read", <<"FromServer", x>>)
      \/ \E x \in Notices : s = Lock("write", <<"action", x>>)
      \/ \E b \in Batches : s = Lock("write", b)
      \/ s = Lock("write", <<"FromHub", "LinkageRequest">>)
      \/ s = Lock("write", <<"FromServer", "DeleteHub">>)
  BY LocksAre DEF Requests
<1>3. ~ IsNotice(m) /\ s.do # "free"
  <2>1. m[1] \in {"FromServer", "action", "BatchNetwork", "FromHub"}
    <3>1. \/ \E x \in Notices : m = <<"FromServer", x>> \/ m = <<"action", x>>
          \/ \E b \in Batches : m = b
          \/ m = <<"FromHub", "LinkageRequest">> \/ m = <<"FromServer", "DeleteHub">>
      <4>1. \A x, n : s = Lock(x, n) => m = n
        BY <1>1
      <4> HIDE DEF m
      <4>2. QED
        BY <1>2, <4>1
    <3> HIDE DEF m
    <3>2. QED
      BY <3>1 DEF Batches
  <2>2. s.do # "free"
    BY LocksLock DEF Tasks
  <2>3. QED
    BY <2>1, <2>2 DEF IsNotice
<1>4. K(Free("write"))
  BY DEF Free
<1>5. \A c, n : ~ IsNotice(n) => K(Send(c, n))
  BY <1>1
<1>5a. \A x, n : ~ IsNotice(n) => K(Lock(x, n))
  BY <1>1
<1>6. /\ ~ IsNotice(<<"HubChanged", "hub">>) /\ ~ IsNotice(<<"NetworksReady", "networks">>)
      /\ ~ IsNotice(<<"ToHub", "request">>) /\ ~ IsNotice(<<"ToHub", "LinkageAck">>)
      /\ \A x : ~ IsNotice(<<"NetworkChanged", x>>) /\ ~ IsNotice(<<"action", x>>)
  BY DEF IsNotice, Notices, Modes
<1> HIDE DEF K
<1>7. /\ turn = <<>> => NoNotice(HoldsOf(turn))
      /\ \A z : turn = <<z>> /\ K(z) => NoNotice(HoldsOf(turn))
      /\ \A y, z : turn = <<y, z>> /\ K(y) /\ K(z) => NoNotice(HoldsOf(turn))
      /\ \A v, y, z : turn = <<v, y, z>> /\ K(v) /\ K(y) /\ K(z) => NoNotice(HoldsOf(turn))
  <2>1. (\A i \in DOMAIN turn : K(turn[i])) => NoNotice(HoldsOf(turn))
    BY HoldsNone DEF K
  <2>2. \A z : turn = <<z>> => \A i \in DOMAIN turn : turn[i] = z
    OBVIOUS
  <2>3. \A y, z : turn = <<y, z>> => \A i \in DOMAIN turn : turn[i] = y \/ turn[i] = z
    OBVIOUS
  <2>4. \A v, y, z : turn = <<v, y, z>> =>
           \A i \in DOMAIN turn : turn[i] = v \/ turn[i] = y \/ turn[i] = z
    OBVIOUS
  <2>5. turn = <<>> => DOMAIN turn = {}
    OBVIOUS
  <2>6. turn = <<>> => NoNotice(HoldsOf(turn))
    BY <2>1, <2>5
  <2>7. ASSUME NEW z, turn = <<z>>, K(z)
        PROVE  NoNotice(HoldsOf(turn))
    BY <2>1, <2>2, <2>7
  <2>8. ASSUME NEW y, NEW z, turn = <<y, z>>, K(y), K(z)
        PROVE  NoNotice(HoldsOf(turn))
    BY <2>1, <2>3, <2>8
  <2>9. ASSUME NEW v, NEW y, NEW z, turn = <<v, y, z>>, K(v), K(y), K(z)
        PROVE  NoNotice(HoldsOf(turn))
    BY <2>1, <2>4, <2>9
  <2>10. QED
    BY <2>6, <2>7, <2>8, <2>9
<1>8. ASSUME NEW x \in Notices, s = Lock("read", <<"FromServer", x>>)
      PROVE  m[1] # "action" /\ NoNotice(HoldsOf(turn))
  <2> DEFINE l == Lock("write", <<"action", x>>)
  <2>1. m = <<"FromServer", x>>
    BY <1>1, <1>8
  <2>2. turn = <<>> \/ turn = <<l>>
    BY <1>0, <2>1 DEF AdminUnderLock, Decides, Notices, Modes
  <2>3. K(l)
    BY <1>5a, <1>6
  <2> HIDE DEF l
  <2>4. NoNotice(HoldsOf(turn))
    BY <1>7, <2>2, <2>3
  <2>5. m[1] # "action"
    BY <2>1
  <2>6. QED
    BY <2>4, <2>5
<1>9. ASSUME NEW x \in Notices, s = Lock("write", <<"action", x>>)
      PROVE  /\ m[1] = "action" /\ m[2] \in Notices
             /\ \/ \E n : \E d : /\ turn = <<n, d>> /\ ~ IsNotice(d.msg)
                                 /\ n.do = "send" /\ d.do = "send"
                                 /\ n.msg = <<"ToHub", m[2]>>
                \/ cache = "absent" /\ NoNotice(HoldsOf(turn))
  <2> DEFINE tells == Send(up, <<"ToHub", x>>)
             stores == Send(net, <<"NetworkChanged", x>>)
  <2>1. m = <<"action", x>> /\ m[2] = x /\ m[1] = "action"
    BY <1>1, <1>9
  <2>2. turn = <<tells, stores>> \/ (turn = <<stores>> /\ cache = "absent")
    <3>1. turn = Change(x)
      <4>1. x # "DeleteHub" /\ x # "LinkageRequest"
        BY DEF Notices, Modes
      <4> HIDE DEF m
      <4>2. AdminUnderLock(m) = {Change(x)}
        BY <2>1, <4>1 DEF AdminUnderLock
      <4>3. QED
        BY <1>0, <4>2
    <3>2. QED
      BY <3>1 DEF Change
  <2>3. /\ tells.do = "send" /\ tells.msg = <<"ToHub", x>>
        /\ stores.do = "send" /\ ~ IsNotice(stores.msg) /\ K(stores)
    <3>1. tells.do = "send" /\ tells.msg = <<"ToHub", x>>
      BY <1>1
    <3>2. stores.do = "send" /\ stores.msg = <<"NetworkChanged", x>>
      BY <1>1
    <3>3. K(stores)
      BY <1>5, <1>6
    <3>4. QED
      BY <1>6, <3>1, <3>2, <3>3
  <2> HIDE DEF tells, stores
  <2>4. CASE turn = <<tells, stores>>
    BY <2>1, <2>3, <2>4
  <2>5. CASE turn = <<stores>> /\ cache = "absent"
    BY <1>7, <2>1, <2>3, <2>5
  <2>6. QED
    BY <2>2, <2>4, <2>5
<1>10. ASSUME NEW b \in Batches, s = Lock("write", b)
       PROVE  m[1] # "action" /\ NoNotice(HoldsOf(turn))
  <2> DEFINE r == Send(up, <<"NetworksReady", "networks">>)
  <2>1. m = b /\ m[1] = "BatchNetwork"
    BY <1>1, <1>10 DEF Batches
  <2>2. turn = <<r, Free("write")>>
    BY <1>0, <2>1 DEF AdminUnderLock, Batches, Modes
  <2>3. K(r)
    BY <1>5, <1>6
  <2> HIDE DEF r
  <2>4. NoNotice(HoldsOf(turn))
    BY <1>4, <1>7, <2>2, <2>3
  <2>5. QED
    BY <2>1, <2>4
<1>11. ASSUME s = Lock("write", <<"FromHub", "LinkageRequest">>)
       PROVE  m[1] # "action" /\ NoNotice(HoldsOf(turn))
  <2> DEFINE r == Send(up, <<"ToHub", "LinkageAck">>)
             d == Send(hub, <<"HubChanged", "hub">>)
  <2>1. m = <<"FromHub", "LinkageRequest">>
    BY <1>1, <1>11
  <2>2. turn = <<d>> \/ turn = <<r, Free("write")>>
    BY <1>0, <2>1 DEF AdminUnderLock
  <2>3. K(r) /\ K(d)
    BY <1>5, <1>6
  <2> HIDE DEF r, d
  <2>4. NoNotice(HoldsOf(turn))
    BY <1>4, <1>7, <2>2, <2>3
  <2>5. QED
    BY <2>1, <2>4
<1>12. ASSUME s = Lock("write", <<"FromServer", "DeleteHub">>)
       PROVE  m[1] # "action" /\ NoNotice(HoldsOf(turn))
  <2> DEFINE r == Send(up, <<"ToHub", "request">>)
             d == Send(hub, <<"HubChanged", "hub">>)
  <2>1. m = <<"FromServer", "DeleteHub">>
    BY <1>1, <1>12
  <2>2. turn = <<d, r, Free("write")>>
    BY <1>0, <2>1 DEF AdminUnderLock
  <2>3. K(r) /\ K(d)
    BY <1>5, <1>6
  <2> HIDE DEF r, d
  <2>4. NoNotice(HoldsOf(turn))
    BY <1>4, <1>7, <2>2, <2>3
  <2>5. QED
    BY <2>1, <2>4
<1>13. QED
  BY <1>2, <1>3, <1>8, <1>9, <1>10, <1>11, <1>12

\* The notice is told before the change is stored.
LEMMA TellsFirst ==
  ASSUME NEW n, NEW d, n.do = "send", d.do = "send", ~ IsNotice(d.msg), IsNotice(n.msg),
         NEW a, a = <<n, d>>
  PROVE  /\ ~ NoNotice(HoldsOf(a))
         /\ \A x : LastTells(HoldsOf(a), x) => x = n.msg[2]
<1> DEFINE b == HoldsOf(a)
<1>1. DOMAIN a = {1, 2} /\ a[1] = n /\ a[2] = d
  BY SMT
<1>2. DOMAIN b = {1, 2} /\ b[1] = n.msg /\ b[2] = d.msg
  BY <1>1 DEF HoldsOf, Content
<1> HIDE DEF b
<1>3. ~ NoNotice(b)
  BY <1>2 DEF NoNotice
<1>4. \A x : LastTells(b, x) => x = n.msg[2]
  BY <1>2 DEF LastTells
<1>5. QED
  BY <1>3, <1>4 DEF b

\* While the start is under way no notice is.
LEMMA StartTellsNone ==
  ASSUME Safe, StartIsFirst, NEW t \in DOMAIN agenda, NEW s, agenda[t] = <<s>>,
         s.do # "free", s.msg[1] = "BatchNetwork"
  PROVE  \A x : ~ NewestOf(WayOf(chan, agenda), x)
<1> DEFINE W == WayOf(chan, agenda)
<1>1. Flies(s.msg)
  <2>1. 1 \in DOMAIN agenda[t] /\ agenda[t][1] = s
    OBVIOUS
  <2>2. QED
    BY <2>1 DEF Flies
<1>2. \A m : Flies(m) => ~ IsNotice(m)
  <2>1. \A m : Flies(m) => Passes(m)
    BY <1>1, FliesIs
  <2>2. QED
    BY <2>1 DEF Passes, IsNotice
<1>3. ASSUME NEW k \in Even
      PROVE  NoNotice(W[k])
  <2>1. W[k] = At(chan, ChanAt(k))
    BY WayAt
  <2>2. CASE ChanAt(k) \in DOMAIN chan
    BY <1>2, <2>1, <2>2 DEF At, NoNotice, Flies
  <2>3. CASE ChanAt(k) \notin DOMAIN chan
    <3>1. W[k] = <<>>
      BY <2>1, <2>3 DEF At
    <3>2. QED
      BY <3>1 DEF NoNotice
  <2>4. QED
    BY <2>2, <2>3
<1>4. ASSUME NEW k \in Odd
      PROVE  NoNotice(W[k])
  <2> DEFINE u == TaskAt(k)
  <2>1. W[k] = HoldsOf(At(agenda, u))
    BY WayAt
  <2> HIDE DEF u
  <2>2. CASE u \in DOMAIN agenda
    <3>1. At(agenda, u) = agenda[u]
      BY <2>2 DEF At
    <3>2. \A i \in DOMAIN agenda[u] : agenda[u][i].do # "free" => ~ IsNotice(agenda[u][i].msg)
      BY <1>2, <2>2 DEF Flies
    <3>3. QED
      BY <2>1, <3>1, <3>2, HoldsNone
  <2>3. CASE u \notin DOMAIN agenda
    BY <2>1, <2>3, HoldsEmpty DEF At
  <2>4. QED
    BY <2>2, <2>3
<1>5. \A k \in Stages : NoNotice(W[k])
  BY <1>3, <1>4, WayAt
<1>6. QED
  BY <1>5, NoneTells DEF NewestOf, W

\* The one step that changes the cache puts its notice at the beginning of the
\* way, where it is the newest; a first load changes it while no notice is under
\* way; msg_to_hub, at the end, adds nothing.
LEMMA HasLockCurrent ==
  ASSUME Safe, StartIsFirst, Current, NEW t \in DOMAIN agenda, HasLock(t)
  PROVE  Current'
<1> DEFINE s == Head(agenda[t])
           m == s.msg
           V == WayOf(chan', agenda')
           W == WayOf(chan, agenda)
<1>1. t \in Tasks /\ s \in LocksOf(t) /\ agenda[t] = <<s>>
  BY HasLockTurn
<1>2. PICK turn \in UnderLock(t, m) : agenda' = With(agenda, t, turn)
  BY HasLockTurn
<1>3. chan' = chan
      /\ cache' = IF m = <<"action", "gone">> THEN "absent"
                  ELSE IF m[1] \in {"action", "BatchNetwork"} THEN m[2] ELSE cache
  BY DEF HasLock
<1>4. \A k \in Even : V[k] = W[k]
  BY <1>3, StillStages
<1>5. \A k \in Odd : V[k] = IF TaskAt(k) = t THEN HoldsOf(turn) ELSE W[k]
  BY <1>2, TaskStages
<1>6. \A k \in Odd : TaskAt(k) = t => W[k] = HoldsOf(agenda[t])
  BY WayAt DEF At
<1>7. m[1] \notin {"action", "BatchNetwork"} => cache' = cache
  BY <1>3
<1>8. CASE t \in {"msg_from_hub", "update_firmware"}
  <2>1. m[1] \notin {"action", "BatchNetwork"}
    BY <1>1, <1>8, LocksAre, LockIs DEF Updates
  <2>2. \A k \in Odd : TaskAt(k) # t
    BY <1>8 DEF Odd, TaskAt
  <2> HIDE DEF V, W, m
  <2>3. \A k \in Stages : V[k] = W[k]
    BY <1>4, <1>5, <2>2, WayAt
  <2>4. \A x : NewestOf(V, x) => NewestOf(W, x)
    BY <2>3, Silent
  <2>5. QED
    BY <1>7, <2>1, <2>4 DEF Current, V, W
<1>9. CASE t = "msg_to_hub"
  <2>1. m[1] \notin {"action", "BatchNetwork"}
    <3>1. \/ \E z \in ToHubs \cup Acks : s = Lock("read", z)
          \/ \E z \in Notices \cup {"request"} : s = Lock("read", <<"topic", z>>)
      BY <1>1, <1>9, LocksAre
    <3>2. \A x, n : Lock(x, n).msg = n
      BY LockIs
    <3>3. \A z \in ToHubs \cup Acks : z[1] = "ToHub"
      BY DEF ToHubs, Acks
    <3>4. m \in ToHubs \cup Acks \/ \E z : m = <<"topic", z>>
      BY <3>1, <3>2
    <3> HIDE DEF m
    <3>5. QED
      BY <3>3, <3>4
  <2>2. 9 \in Odd /\ 9 \in Stages /\ TaskAt(9) = t /\ \A k \in Odd : TaskAt(k) = t => k = 9
    BY <1>9 DEF Odd, TaskAt, Stages
  <2>3. \A x : LastTells(HoldsOf(turn), x) => LastTells(HoldsOf(agenda[t]), x)
    BY <1>1, <1>2, <1>9, ToHubTells
  <2> HIDE DEF V, W, m
  <2>4. \A l \in Stages : l < 9 => V[l] = W[l]
    <3>1. \A l \in Stages : l < 9 => l # 9
      BY DEF Stages
    <3>2. QED
      BY <1>4, <1>5, <2>2, <3>1, WayAt
  <2>5. \A l \in Stages : ~ (9 < l)
    BY DEF Stages
  <2>6. \A x : LastTells(V[9], x) => LastTells(W[9], x)
    BY <1>5, <1>6, <2>2, <2>3
  <2>7. \A x : NewestOf(V, x) => NewestOf(W, x)
    BY <2>2, <2>4, <2>5, <2>6, Ends
  <2>8. QED
    BY <1>7, <2>1, <2>7 DEF Current, V, W
<1>10. CASE t = "network_admin"
  <2>1. 1 \in Odd /\ 1 \in Stages /\ TaskAt(1) = t /\ \A k \in Odd : TaskAt(k) = t => k = 1
    BY <1>10 DEF Odd, TaskAt, Stages
  <2>2. /\ ~ IsNotice(m) /\ s.do # "free"
        /\ \/ /\ m[1] = "action" /\ m[2] \in Notices
              /\ \E n : \E d : /\ turn = <<n, d>> /\ ~ IsNotice(d.msg)
                               /\ n.do = "send" /\ d.do = "send" /\ n.msg = <<"ToHub", m[2]>>
           \/ m[1] = "action" /\ cache = "absent" /\ NoNotice(HoldsOf(turn))
           \/ m[1] # "action" /\ NoNotice(HoldsOf(turn))
    BY <1>1, <1>2, <1>10, AdminTells
  <2>3. m[1] = "action" => m[2] \in Notices /\ m = <<"action", m[2]>>
    BY <1>1, LockMsgs
  <2>4. NoNotice(HoldsOf(agenda[t]))
    BY <1>1, <2>2, HoldsOne
  <2>5. V[1] = HoldsOf(turn) /\ W[1] = HoldsOf(agenda[t])
    BY <1>5, <1>6, <2>1
  <2>6. \A k \in Stages : k # 1 => V[k] = W[k]
    BY <1>4, <1>5, <2>1, WayAt
  <2>7. m[1] = "BatchNetwork" => \A x : ~ NewestOf(W, x)
    BY <1>1, <2>2, StartTellsNone
  <2> HIDE DEF V, W, m
  <2>8. NoNotice(HoldsOf(turn)) => \A x : NewestOf(V, x) => NewestOf(W, x)
    <3>1. HAVE NoNotice(HoldsOf(turn))
    <3>2. \A x : ~ LastTells(V[1], x)
      BY <2>5, <3>1, NoneTells
    <3>3. \A x : \A k \in Stages : /\ NoNotice(V[k]) => NoNotice(W[k])
                                   /\ LastTells(V[k], x) => LastTells(W[k], x)
      BY <2>4, <2>5, <2>6, <3>2
    <3>4. QED
      BY <3>3, Silent
  <2>9. ASSUME m[1] = "action", m[2] \in Notices,
               NEW n, NEW d, turn = <<n, d>>, ~ IsNotice(d.msg),
               n.do = "send", d.do = "send", n.msg = <<"ToHub", m[2]>>
        PROVE  Current'
    <3>1. IsNotice(n.msg) /\ n.msg[2] = m[2]
      BY <2>9 DEF IsNotice
    <3>2. ~ NoNotice(V[1]) /\ \A x : LastTells(V[1], x) => x = m[2]
      BY <2>5, <2>9, <3>1, TellsFirst
    <3>3. \A x : NewestOf(V, x) => x = m[2]
      <4>1. \A k \in Stages : k = 1 \/ 1 < k
        BY DEF Stages
      <4>2. QED
        BY <2>1, <3>2, <4>1 DEF NewestOf
    <3>4. m[2] \in Modes => cache' = m[2]
      BY <1>3, <2>9 DEF Modes
    <3>5. QED
      BY <3>3, <3>4 DEF Current, V
  <2>10. CASE m[1] = "action" /\ cache = "absent" /\ NoNotice(HoldsOf(turn))
    <3>1. \A x \in Modes : ~ NewestOf(W, x)
      BY <2>10 DEF Current, W, Modes
    <3>2. QED
      BY <2>8, <2>10, <3>1 DEF Current, V
  <2>11. CASE m[1] # "action" /\ NoNotice(HoldsOf(turn))
    <3>1. CASE m[1] = "BatchNetwork"
      BY <2>7, <2>8, <2>11, <3>1 DEF Current, V
    <3>2. CASE m[1] # "BatchNetwork"
      <4>1. cache' = cache
        BY <1>7, <2>11, <3>2
      <4>2. QED
        BY <2>8, <2>11, <4>1 DEF Current, V, W
    <3>3. QED
      BY <3>1, <3>2
  <2>12. QED
    BY <2>2, <2>9, <2>10, <2>11
<1>11. QED
  BY <1>1, <1>8, <1>9, <1>10, LocksAre

\* No notice is under way at the start.
LEMMA InitCurrent ==
  ASSUME Init
  PROVE  Current
<1> DEFINE W == WayOf(chan, agenda)
<1>1. agenda = <<>> /\ DOMAIN agenda = {}
  BY DEF Init
<1>2. \A k \in Odd : NoNotice(W[k])
  <2>1. \A u : At(agenda, u) = <<>>
    BY <1>1 DEF At
  <2>2. QED
    BY <2>1, WayAt, HoldsEmpty
<1>3. \A k \in Even : NoNotice(W[k])
  <2>1. \A k \in Even : ChanAt(k) # <<"data", "core">>
    BY DEF Even, ChanAt
  <2>2. \A k \in Even : ChanAt(k) \notin DOMAIN chan
    <3>1. DOMAIN chan \subseteq {<<"data", "core">>}
      <4>1. CASE chan = <<>>
        BY <4>1
      <4>2. ASSUME NEW b, chan = With(<<>>, <<"data", "core">>, <<b>>)
            PROVE  DOMAIN chan \subseteq {<<"data", "core">>}
        <5> DEFINE none == <<>>
        <5>1. chan = With(none, <<"data", "core">>, <<b>>) /\ DOMAIN none = {}
          BY <4>2
        <5> HIDE DEF none
        <5>2. QED
          BY <5>1 DEF With
      <4>3. QED
        BY <4>1, <4>2 DEF Init
    <3>2. QED
      BY <2>1, <3>1
  <2>3. \A k \in Even : W[k] = <<>>
    BY <2>2, WayAt DEF At
  <2>4. QED
    BY <2>3 DEF NoNotice
<1>4. \A k \in Stages : NoNotice(W[k])
  BY <1>2, <1>3, WayAt
<1>5. QED
  BY <1>4, NoneTells DEF Current, NewestOf, W

\* Every step keeps the newest notice current.
LEMMA NextCurrent ==
  ASSUME Safe, StartIsFirst, Current, [Next]_vars
  PROVE  Current'
<1>1. CASE Next
  <2>1. ASSUME NEW t \in DOMAIN agenda, Queues(t)
        PROVE  Current'
    BY <2>1 DEF Queues, Current
  <2>2. QED
    BY <1>1, <2>1, NextCases, ArrivesCurrent, TakesCurrent, SendsCurrent, HasLockCurrent,
       FreesCurrent
<1>2. CASE UNCHANGED vars
  BY <1>2 DEF vars, Current
<1>3. QED
  BY <1>1, <1>2

\* The last notice under way names the mode of the cache (network/logic.rs:79-84):
\* five tasks and four channels keep the order of the changes, at every capacity
\* and under every load.
THEOREM NewestNoticeIsCurrentHolds == Spec => []NewestNoticeIsCurrent
<1>1. Init => StartIsFirst /\ Current
  BY InitStart, InitCurrent
<1>2. Safe /\ (StartIsFirst /\ Current) /\ [Next]_vars => (StartIsFirst /\ Current)'
  BY NextStart, NextCurrent
<1>3. StartIsFirst /\ Current => NewestNoticeIsCurrent
  BY CurrentIs
<1>4. QED
  BY <1>1, <1>2, <1>3, AlwaysSafe, PTL DEF Spec
-----------------------------------------------------------------------------
(* The uplink, GrpcLink: the client of the server, the service in front of *)
(* it and Core, for every capacity of their channels and every bound on    *)
(* the uploads.                                                            *)

\* The states of the client and the types of the variables of the uplink.
ClientStates == {"Init", "Connected", "Work", "Incoming", "Uploading", "Error",
                 "Pause"}

LinkTypeOK ==
    /\ server \in {"up", "down"} /\ stream \in {"whole", "broken"}
    /\ core \in {"select", "upload"}
    /\ toGrpc \in 0..LinkCap /\ outbound \in 0..LinkCap
    /\ fromGrpc \in Seq(ClientNotices) /\ Len(fromGrpc) <= LinkCap
    /\ notices \in Seq(ClientNotices) /\ Len(notices) <= LinkCap
    /\ monitor \in Statuses /\ told \in Statuses
    /\ service \in {"select", "upload"} \cup ClientNotices
    /\ client \in ClientStates

\* A notice that is sent into a channel with room.
LEMMA SendKeepsType ==
  ASSUME NEW q \in Seq(ClientNotices), NEW x \in ClientNotices, Len(q) < LinkCap
  PROVE  Append(q, x) \in Seq(ClientNotices) /\ Len(Append(q, x)) <= LinkCap
BY CapAssumption

\* A notice that is taken out of a channel.
LEMMA ReceiveKeepsType ==
  ASSUME NEW q \in Seq(ClientNotices), q # <<>>, Len(q) <= LinkCap
  PROVE  /\ Head(q) \in ClientNotices
         /\ Tail(q) \in Seq(ClientNotices) /\ Len(Tail(q)) <= LinkCap
BY CapAssumption

\* Every variable keeps its type, and no channel exceeds its capacity.
THEOREM LinkTypeCorrect == LinkSpec => []LinkTypeOK
<1> USE CapAssumption DEF coreVars, serviceVars, ClientKeeps
<1>1. LinkInit => LinkTypeOK
  BY DEF LinkInit, LinkTypeOK, Statuses, ClientStates
<1>2. LinkTypeOK /\ [LinkNext]_linkVars => LinkTypeOK'
  <2> SUFFICES ASSUME LinkTypeOK, [LinkNext]_linkVars PROVE LinkTypeOK'
    OBVIOUS
  <2> USE DEF LinkTypeOK
  <2>1. CASE ServerTurns
    BY <2>1 DEF ServerTurns
  <2>2. CASE CoreTakesUpload
    BY <2>2 DEF CoreTakesUpload
  <2>3. CASE CoreSendsUpload
    BY <2>3 DEF CoreSendsUpload
  <2>4. CASE CoreTakesNotice
    BY <2>4, ReceiveKeepsType DEF CoreTakesNotice
  <2>5. CASE ServiceTakesUpload
    BY <2>5 DEF ServiceTakesUpload
  <2>6. CASE ServiceSendsUpload
    BY <2>6 DEF ServiceSendsUpload
  <2>7. CASE ServiceTakesNotice
    BY <2>7, ReceiveKeepsType DEF ServiceTakesNotice
  <2>8. CASE ServiceSendsNotice
    BY <2>8, SendKeepsType DEF ServiceSendsNotice
  <2>9. CASE Connects
    BY <2>9 DEF Connects, ClientStates
  <2>10. CASE TellsConnected \/ TellsIncoming \/ TellsDisconnected
    <3>1. "Work" \in ClientStates /\ "Pause" \in ClientStates
          /\ {"ServerConnected", "ServerDisconnected", "IncomingGrpc"} = ClientNotices
      BY DEF ClientStates, ClientNotices, Statuses
    <3>2. ASSUME NEW from, NEW n \in ClientNotices, NEW to \in ClientStates,
                 Tells(from, n, to)
          PROVE  LinkTypeOK'
      BY <3>2, SendKeepsType DEF Tells
    <3>3. QED
      BY <2>10, <3>1, <3>2 DEF TellsConnected, TellsIncoming, TellsDisconnected
  <2>11. CASE TakesUpload
    BY <2>11 DEF TakesUpload, ClientStates
  <2>12. CASE SessionAnswers
    BY <2>12 DEF SessionAnswers, ClientStates
  <2>13. CASE ServerSends
    BY <2>13 DEF ServerSends, ClientStates
  <2>14. CASE StreamEnds
    BY <2>14 DEF StreamEnds, ClientStates
  <2>15. CASE PauseEnds
    BY <2>15 DEF PauseEnds, ClientStates
  <2>16. CASE CoreTakesHeartbeatNotice
    BY <2>16 DEF CoreTakesHeartbeatNotice
  <2>17. CASE UNCHANGED linkVars
    BY <2>17 DEF linkVars
  <2>18. QED
    BY <2>1, <2>2, <2>3, <2>4, <2>5, <2>6, <2>7, <2>8, <2>9, <2>10, <2>11,
       <2>12, <2>13, <2>14, <2>15, <2>16, <2>17 DEF LinkNext
<1>3. QED
  BY <1>1, <1>2, PTL DEF LinkSpec
-----------------------------------------------------------------------------
(* The circles.                                                            *)

\* A circle needs more uploads under way than a channel holds, and once it has
\* closed no step opens it: neither the return of the server nor the pause of
\* the client, which is the only retry there is (grpc_service/domain.rs 91, 97,
\* 205-268, core/domain.rs:350).
THEOREM CirclesNeedUploadsAndStay ==
  LinkSpec => [](Circle => Uploads > LinkCap) /\ [][Circle => Circle']_linkVars
<1>1. LinkTypeOK => (Circle => Uploads > LinkCap)
  BY CapAssumption DEF LinkTypeOK, Uploads, Count, Circle
<1>2. LinkTypeOK /\ [LinkNext]_linkVars => [Circle => Circle']_linkVars
  <2> SUFFICES ASSUME LinkTypeOK, [LinkNext]_linkVars, Circle PROVE Circle'
    OBVIOUS
  <2>0. "upload" \notin ClientNotices /\ "select" \notin ClientNotices
    BY DEF ClientNotices, Statuses
  <2> USE CapAssumption DEF Circle, LinkTypeOK, coreVars, serviceVars, ClientKeeps
  <2>1. CASE ServerTurns \/ UNCHANGED linkVars
    BY <2>1 DEF ServerTurns, linkVars
  <2>2. CASE CoreTakesUpload \/ CoreSendsUpload
    BY <2>2 DEF CoreTakesUpload, CoreSendsUpload
  <2>3. CASE CoreTakesNotice \/ CoreTakesHeartbeatNotice
    BY <2>3 DEF CoreTakesNotice, CoreTakesHeartbeatNotice
  <2>4. CASE ServiceTakesUpload \/ ServiceSendsUpload
    BY <2>0, <2>4 DEF ServiceTakesUpload, ServiceSendsUpload
  <2>5. CASE ServiceTakesNotice \/ ServiceSendsNotice
    BY <2>0, <2>5 DEF ServiceTakesNotice, ServiceSendsNotice
  <2>6. CASE Connects \/ TakesUpload \/ SessionAnswers \/ ServerSends
             \/ StreamEnds \/ PauseEnds
    BY <2>6 DEF Connects, TakesUpload, SessionAnswers, ServerSends,
                StreamEnds, PauseEnds
  <2>7. CASE TellsConnected \/ TellsIncoming \/ TellsDisconnected
    BY <2>0, <2>7 DEF TellsConnected, TellsIncoming, TellsDisconnected, Tells
  <2>8. QED
    BY <2>1, <2>2, <2>3, <2>4, <2>5, <2>6, <2>7 DEF LinkNext
<1>3. QED
  BY <1>1, <1>2, LinkTypeCorrect, PTL DEF LinkSpec
-----------------------------------------------------------------------------
(* What the gateway will believe once every notice under way has arrived:  *)
(* the newest status of the queues, and what it was told if there is none, *)
(* which the heartbeat service may have changed since.                     *)

SilentQueue(q) == \A i \in DOMAIN q : q[i] \notin Statuses

EndsWith(q, s) ==
    \E i \in DOMAIN q :
        q[i] = s /\ \A j \in DOMAIN q : j > i => q[j] \notin Statuses

NewestStatus(s) ==
    \/ EndsWith(notices, s)
    \/ /\ SilentQueue(notices)
       /\ \/ service = s
          \/ /\ service \notin Statuses
             /\ EndsWith(fromGrpc, s) \/ (SilentQueue(fromGrpc) /\ told \in {s, monitor})

\* The newest status of the client is the one its state calls for, and only
\* the heartbeat service takes the gateway from it.
BeliefInv ==
    /\ client \in {"Work", "Uploading", "Incoming"} => NewestStatus("ServerConnected")
    /\ client = "Pause" => NewestStatus("ServerDisconnected")

\* A status put at the end is the newest; another notice changes nothing.
LEMMA NewestAfterSend ==
  ASSUME NEW q \in Seq(ClientNotices), NEW x \in ClientNotices
  PROVE  /\ x \in Statuses => EndsWith(Append(q, x), x)
         /\ x \notin Statuses =>
              /\ SilentQueue(q) => SilentQueue(Append(q, x))
              /\ \A s : EndsWith(q, s) => EndsWith(Append(q, x), s)
<1>1. /\ \A i \in DOMAIN q : i \in DOMAIN Append(q, x) /\ Append(q, x)[i] = q[i]
      /\ Len(q) + 1 \in DOMAIN Append(q, x) /\ Append(q, x)[Len(q) + 1] = x
      /\ DOMAIN Append(q, x) = DOMAIN q \cup {Len(q) + 1}
      /\ DOMAIN q = 1..Len(q) /\ Len(q) \in Nat
  OBVIOUS
<1>2. x \in Statuses => EndsWith(Append(q, x), x)
  BY <1>1 DEF EndsWith
<1>3. x \notin Statuses /\ SilentQueue(q) => SilentQueue(Append(q, x))
  BY <1>1 DEF SilentQueue
<1>4. ASSUME x \notin Statuses, NEW s, EndsWith(q, s)
      PROVE  EndsWith(Append(q, x), s)
  <2>1. PICK i \in DOMAIN q :
               q[i] = s /\ \A j \in DOMAIN q : j > i => q[j] \notin Statuses
    BY <1>4 DEF EndsWith
  <2>2. \A j \in DOMAIN Append(q, x) : j > i => Append(q, x)[j] \notin Statuses
    BY <1>1, <1>4, <2>1
  <2>3. QED
    BY <1>1, <2>1, <2>2 DEF EndsWith
<1>5. QED
  BY <1>2, <1>3, <1>4

\* The newest status stays the newest when the oldest notice is taken, unless
\* it was that one.
LEMMA NewestAfterReceive ==
  ASSUME NEW q \in Seq(ClientNotices), q # <<>>
  PROVE  /\ SilentQueue(q) => SilentQueue(Tail(q)) /\ Head(q) \notin Statuses
         /\ \A s \in Statuses : EndsWith(q, s) =>
              EndsWith(Tail(q), s) \/ (SilentQueue(Tail(q)) /\ Head(q) = s)
<1>1. /\ 1 \in DOMAIN q /\ Head(q) = q[1]
      /\ \A i \in DOMAIN q :
           i = 1 \/ (i - 1 \in DOMAIN Tail(q) /\ Tail(q)[i - 1] = q[i])
      /\ \A i \in DOMAIN Tail(q) : i + 1 \in DOMAIN q /\ Tail(q)[i] = q[i + 1]
      /\ DOMAIN q \subseteq Nat /\ DOMAIN Tail(q) \subseteq Nat \ {0}
  OBVIOUS
<1>2. SilentQueue(q) => SilentQueue(Tail(q)) /\ Head(q) \notin Statuses
  BY <1>1 DEF SilentQueue
<1>3. ASSUME NEW s \in Statuses, EndsWith(q, s)
      PROVE  EndsWith(Tail(q), s) \/ (SilentQueue(Tail(q)) /\ Head(q) = s)
  <2>1. PICK i \in DOMAIN q :
               q[i] = s /\ \A j \in DOMAIN q : j > i => q[j] \notin Statuses
    BY <1>3 DEF EndsWith
  <2>2. CASE i = 1
    <3>1. \A j \in DOMAIN Tail(q) : Tail(q)[j] \notin Statuses
      BY <1>1, <2>1, <2>2
    <3>2. QED
      BY <1>1, <2>1, <2>2, <3>1 DEF SilentQueue
  <2>3. CASE i # 1
    <3>1. i - 1 \in DOMAIN Tail(q) /\ Tail(q)[i - 1] = s
      BY <1>1, <2>1, <2>3
    <3>2. \A j \in DOMAIN Tail(q) : j > i - 1 => Tail(q)[j] \notin Statuses
      BY <1>1, <2>1
    <3>3. QED
      BY <3>1, <3>2 DEF EndsWith
  <2>4. QED
    BY <2>2, <2>3
<1>4. QED
  BY <1>2, <1>3

\* Core and the service pass notices on in order: no step of theirs changes
\* what the gateway will believe.
LEMMA PassingOnKeepsNewest ==
  ASSUME LinkTypeOK, NEW s \in Statuses, NewestStatus(s),
         CoreTakesNotice \/ ServiceTakesUpload \/ ServiceSendsUpload
           \/ ServiceTakesNotice \/ ServiceSendsNotice
  PROVE  NewestStatus(s)'
<1>0. fromGrpc \in Seq(ClientNotices) /\ notices \in Seq(ClientNotices)
  BY DEF LinkTypeOK
<1>1. CASE CoreTakesNotice
  <2>1. /\ fromGrpc # <<>> /\ fromGrpc' = Tail(fromGrpc)
        /\ told' = IF Head(fromGrpc) \in Statuses THEN Head(fromGrpc) ELSE told
        /\ UNCHANGED <<service, notices, monitor>>
    BY <1>1 DEF CoreTakesNotice, serviceVars
  <2>2. /\ SilentQueue(fromGrpc) => SilentQueue(fromGrpc') /\ told' = told
        /\ EndsWith(fromGrpc, s) =>
             EndsWith(fromGrpc', s) \/ (SilentQueue(fromGrpc') /\ told' = s)
    BY <1>0, <2>1, NewestAfterReceive
  <2>3. QED
    BY <2>1, <2>2 DEF NewestStatus, SilentQueue, EndsWith
<1>2. CASE ServiceTakesUpload \/ ServiceSendsUpload
  <2>1. /\ UNCHANGED <<fromGrpc, told, monitor, notices>>
        /\ service \notin Statuses /\ service' \notin Statuses
    BY <1>2 DEF ServiceTakesUpload, ServiceSendsUpload, coreVars, Statuses
  <2>2. QED
    BY <2>1 DEF NewestStatus, SilentQueue, EndsWith
<1>3. CASE ServiceTakesNotice
  <2>1. /\ notices # <<>> /\ notices' = Tail(notices) /\ service' = Head(notices)
        /\ service \notin Statuses
        /\ UNCHANGED <<fromGrpc, told, monitor>>
    BY <1>3 DEF ServiceTakesNotice, coreVars, Statuses
  <2>2. /\ SilentQueue(notices) => SilentQueue(notices') /\ service' \notin Statuses
        /\ EndsWith(notices, s) =>
             EndsWith(notices', s) \/ (SilentQueue(notices') /\ service' = s)
    BY <1>0, <2>1, NewestAfterReceive
  <2>3. QED
    BY <2>1, <2>2 DEF NewestStatus, SilentQueue, EndsWith
<1>4. CASE ServiceSendsNotice
  <2>1. /\ service \in ClientNotices /\ fromGrpc' = Append(fromGrpc, service)
        /\ service' \notin Statuses
        /\ UNCHANGED <<told, monitor, notices>>
    BY <1>4 DEF ServiceSendsNotice, Statuses
  <2>2. /\ service = s => EndsWith(fromGrpc', s)
        /\ service \notin Statuses =>
             /\ SilentQueue(fromGrpc) => SilentQueue(fromGrpc')
             /\ EndsWith(fromGrpc, s) => EndsWith(fromGrpc', s)
    BY <1>0, <2>1, NewestAfterSend
  <2>3. QED
    BY <2>1, <2>2 DEF NewestStatus, SilentQueue, EndsWith
<1>5. QED
  BY <1>1, <1>2, <1>3, <1>4

\* Two sources write one status through one select! of Core, in any order: what
\* they agree on is what the gateway believes once no notice of the client is
\* under way, at every capacity and under every load, circles included.
THEOREM AgreedIsBelievedHolds == LinkSpec => []AgreedIsBelieved
<1>1. LinkInit => BeliefInv
  BY DEF LinkInit, BeliefInv
<1>2. LinkTypeOK /\ BeliefInv /\ [LinkNext]_linkVars => BeliefInv'
  <2> SUFFICES ASSUME LinkTypeOK, BeliefInv, [LinkNext]_linkVars PROVE BeliefInv'
    OBVIOUS
  <2>0. notices \in Seq(ClientNotices)
        /\ Statuses = {"ServerConnected", "ServerDisconnected"}
        /\ "IncomingGrpc" \in ClientNotices \ Statuses /\ Statuses \subseteq ClientNotices
    BY DEF LinkTypeOK, Statuses, ClientNotices
  <2>1. ASSUME UNCHANGED <<notices, service, fromGrpc, told, monitor>>
        PROVE  \A s : NewestStatus(s) => NewestStatus(s)'
    BY <2>1 DEF NewestStatus, SilentQueue, EndsWith
  <2>2. CASE ServerTurns \/ CoreTakesUpload \/ CoreSendsUpload
             \/ UNCHANGED linkVars
    BY <2>1, <2>2 DEF BeliefInv, ServerTurns, CoreTakesUpload, CoreSendsUpload,
                      linkVars, coreVars, serviceVars
  <2>3. CASE CoreTakesNotice \/ ServiceTakesUpload \/ ServiceSendsUpload
             \/ ServiceTakesNotice \/ ServiceSendsNotice
    <3>1. client' = client
      BY <2>3 DEF CoreTakesNotice, ServiceTakesUpload, ServiceSendsUpload,
                  ServiceTakesNotice, ServiceSendsNotice
    <3>2. QED
      BY <2>0, <2>3, <3>1, PassingOnKeepsNewest DEF BeliefInv
  <2>4. CASE Connects \/ TakesUpload \/ SessionAnswers \/ ServerSends
             \/ StreamEnds \/ PauseEnds
    <3>1. UNCHANGED <<notices, service, fromGrpc, told, monitor>>
      BY <2>4 DEF Connects, TakesUpload, SessionAnswers, ServerSends,
                  StreamEnds, PauseEnds, ClientKeeps, coreVars
    <3>2. /\ client' # "Pause"
          /\ client' \in {"Work", "Uploading", "Incoming"} =>
               client \in {"Work", "Uploading", "Incoming"}
      BY <2>4 DEF Connects, TakesUpload, SessionAnswers, ServerSends,
                  StreamEnds, PauseEnds
    <3>3. QED
      BY <2>1, <3>1, <3>2 DEF BeliefInv
  <2>5. CASE TellsConnected
    <3>1. EndsWith(notices', "ServerConnected") /\ client' = "Work"
      BY <2>0, <2>5, NewestAfterSend DEF TellsConnected, Tells
    <3>2. QED
      BY <3>1 DEF BeliefInv, NewestStatus, EndsWith
  <2>6. CASE TellsDisconnected
    <3>1. EndsWith(notices', "ServerDisconnected") /\ client' = "Pause"
      BY <2>0, <2>6, NewestAfterSend DEF TellsDisconnected, Tells
    <3>2. QED
      BY <3>1 DEF BeliefInv, NewestStatus, EndsWith
  <2>7. CASE TellsIncoming
    <3>1. /\ notices' = Append(notices, "IncomingGrpc")
          /\ client = "Incoming" /\ client' = "Work"
          /\ UNCHANGED <<service, fromGrpc, told, monitor>>
      BY <2>7 DEF TellsIncoming, Tells, ClientKeeps, coreVars
    <3>2. /\ SilentQueue(notices) => SilentQueue(notices')
          /\ \A s : EndsWith(notices, s) => EndsWith(notices', s)
      BY <2>0, <3>1, NewestAfterSend
    <3>3. NewestStatus("ServerConnected") => NewestStatus("ServerConnected")'
      BY <3>1, <3>2 DEF NewestStatus, SilentQueue, EndsWith
    <3>4. QED
      BY <3>1, <3>3 DEF BeliefInv
  <2>8. CASE CoreTakesHeartbeatNotice
    <3>1. /\ told' = monitor'
          /\ UNCHANGED <<notices, service, fromGrpc, client>>
      BY <2>8 DEF CoreTakesHeartbeatNotice, serviceVars
    <3>2. \A s : NewestStatus(s) => NewestStatus(s)'
      BY <3>1 DEF NewestStatus, SilentQueue, EndsWith
    <3>3. QED
      BY <3>1, <3>2 DEF BeliefInv
  <2>9. QED
    BY <2>2, <2>3, <2>4, <2>5, <2>6, <2>7, <2>8 DEF LinkNext
<1>3. BeliefInv => AgreedIsBelieved
  <2> SUFFICES ASSUME Quiet, NEW s \in Statuses, NewestStatus(s)
               PROVE  told \in {s, monitor}
    BY DEF BeliefInv, AgreedIsBelieved, Statuses
  <2>1. DOMAIN notices = {} /\ DOMAIN fromGrpc = {} /\ service \notin Statuses
    BY DEF Quiet, ClientNotices
  <2>2. QED
    BY <2>1 DEF NewestStatus, EndsWith
<1>4. QED
  BY <1>1, <1>2, <1>3, LinkTypeCorrect, PTL DEF LinkSpec
=============================================================================
