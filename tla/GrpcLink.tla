------------------------------ MODULE GrpcLink ------------------------------
(***************************************************************************)
(* The uplink to the server: the gRPC client, the service loop in front of *)
(* it and the arms of Core that talk to the service.                       *)
(*                                                                         *)
(*   Core         uploads out, notices in; the heartbeat service has a     *)
(*                word in the same status                                  *)
(*   GrpcService  one select loop that passes both on                      *)
(*   grpc         the client: Init, Work, Error with a pause of 5 s        *)
(*                                                                         *)
(* The client takes uploads only in Work.  MessageService stops producing  *)
(* telemetry when it hears ServerDisconnected, but not the periodic        *)
(* EdgeState nor the acknowledgements: uploads keep coming in an outage.   *)
(***************************************************************************)
EXTENDS Naturals, Sequences

CONSTANTS
    LinkCap,  \* capacity of each channel (50 in the code)
    Burst     \* bound: no upload is produced while Uploads has reached it

ASSUME CapAssumption   == LinkCap \in Nat \ {0}
ASSUME BurstAssumption == Burst \in Nat

VARIABLES
    server,    \* external: whether the server can be reached
    stream,    \* external: the current stream is "whole" or "broken"
    core,      \* Core: at its select, or sending an upload on
    toGrpc,    \* core_to_grpc_service: uploads
    fromGrpc,  \* core_from_grpc_service: notices
    monitor,   \* the last status of the heartbeat service, which starts as if
               \* it had told Disconnected
    told,      \* the last status Core passed on to MessageService, of either
               \* service (it starts with Connected)
    service,   \* GrpcService: at its select, or what it is sending on
    outbound,  \* rx_outbound: uploads the client has not taken
    notices,   \* rx_from_grpc: notices the service has not taken
    client     \* the client: Init, Work, sending a notice (Connected,
               \* Incoming, Error), waiting for the session (Uploading), or
               \* in the sleep of its Error state (Pause)

coreVars    == <<core, toGrpc, fromGrpc, monitor, told>>
serviceVars == <<service, outbound, notices>>
linkVars    == <<server, stream, coreVars, serviceVars, client>>

Statuses      == {"ServerConnected", "ServerDisconnected"}
ClientNotices == Statuses \cup {"IncomingGrpc"}

Count(b) == IF b THEN 1 ELSE 0
Uploads  == Count(core = "upload") + toGrpc + Count(service = "upload") + outbound

LinkInit ==
    /\ server = "down" /\ stream = "broken"
    /\ core = "select" /\ toGrpc = 0 /\ fromGrpc = <<>>
    /\ monitor = "ServerDisconnected" /\ told = "ServerConnected"
    /\ service = "select" /\ outbound = 0 /\ notices = <<>>
    /\ client = "Init"
-----------------------------------------------------------------------------
(* The server.  A stream does not survive an outage.                       *)

ServerTurns ==
    /\ server' = IF server = "up" THEN "down" ELSE "up"
    /\ stream' = "broken"
    /\ UNCHANGED <<coreVars, serviceVars, client>>
-----------------------------------------------------------------------------
(* Core.                                                                   *)

CoreTakesUpload ==
    /\ core = "select"
    /\ Uploads < Burst
    /\ core' = "upload"
    /\ UNCHANGED <<server, stream, toGrpc, fromGrpc, monitor, told, serviceVars,
                   client>>

CoreSendsUpload ==
    /\ core = "upload"
    /\ toGrpc < LinkCap
    /\ toGrpc' = toGrpc + 1
    /\ core' = "select"
    /\ UNCHANGED <<server, stream, fromGrpc, monitor, told, serviceVars, client>>

CoreTakesNotice ==
    /\ core = "select"
    /\ fromGrpc # <<>>
    /\ told' = IF Head(fromGrpc) \in Statuses THEN Head(fromGrpc) ELSE told
    /\ fromGrpc' = Tail(fromGrpc)
    /\ UNCHANGED <<server, stream, core, toGrpc, monitor, serviceVars, client>>

\* The heartbeat service tells its changes of mind; Core passes them to
\* MessageService like the notices of the client.
CoreTakesHeartbeatNotice ==
    /\ core = "select"
    /\ monitor' \in Statuses \ {monitor}
    /\ told' = monitor'
    /\ UNCHANGED <<server, stream, core, toGrpc, fromGrpc, serviceVars, client>>
-----------------------------------------------------------------------------
(* GrpcService.                                                            *)

ServiceTakesUpload ==
    /\ service = "select"
    /\ toGrpc > 0
    /\ toGrpc' = toGrpc - 1
    /\ service' = "upload"
    /\ UNCHANGED <<server, stream, core, fromGrpc, monitor, told, outbound,
                   notices, client>>

ServiceSendsUpload ==
    /\ service = "upload"
    /\ outbound < LinkCap
    /\ outbound' = outbound + 1
    /\ service' = "select"
    /\ UNCHANGED <<server, stream, coreVars, notices, client>>

ServiceTakesNotice ==
    /\ service = "select"
    /\ notices # <<>>
    /\ service' = Head(notices)
    /\ notices' = Tail(notices)
    /\ UNCHANGED <<server, stream, coreVars, outbound, client>>

ServiceSendsNotice ==
    /\ service \in ClientNotices
    /\ Len(fromGrpc) < LinkCap
    /\ fromGrpc' = Append(fromGrpc, service)
    /\ service' = "select"
    /\ UNCHANGED <<server, stream, core, toGrpc, monitor, told, outbound, notices,
                   client>>
-----------------------------------------------------------------------------
(* grpc: the client.                                                       *)

ClientKeeps == UNCHANGED <<server, coreVars, service>>

\* Variant: only a client that was connected says that it no longer is.
Connects_FailsQuietly ==
    /\ client = "Init"
    /\ IF server = "up" THEN client' = "Connected" /\ stream' = "whole"
                        ELSE client' = "Pause" /\ UNCHANGED stream
    /\ ClientKeeps /\ UNCHANGED <<outbound, notices>>

\* The channel and the stream are set up, or one of them fails.
Connects ==
    /\ client = "Init"
    /\ IF server = "up" THEN client' = "Connected" /\ stream' = "whole"
                        ELSE client' = "Error" /\ UNCHANGED stream
    /\ ClientKeeps /\ UNCHANGED <<outbound, notices>>

\* Variant: a notice that finds no room is given up.
Tells_Tries(from, notice, to) ==
    /\ client = from
    /\ notices' = IF Len(notices) < LinkCap THEN Append(notices, notice)
                                           ELSE notices
    /\ client' = to
    /\ ClientKeeps /\ UNCHANGED <<stream, outbound>>

\* The client waits for room for its notice, then enters the next state.
Tells(from, notice, to) ==
    /\ client = from
    /\ Len(notices) < LinkCap
    /\ notices' = Append(notices, notice)
    /\ client' = to
    /\ ClientKeeps /\ UNCHANGED <<stream, outbound>>

TellsConnected    == Tells("Connected", "ServerConnected", "Work")
TellsIncoming     == Tells("Incoming", "IncomingGrpc", "Work")
TellsDisconnected == Tells("Error", "ServerDisconnected", "Pause")

TakesUpload ==
    /\ client = "Work"
    /\ outbound > 0
    /\ outbound' = outbound - 1
    /\ client' = "Uploading"
    /\ ClientKeeps /\ UNCHANGED <<stream, notices>>

\* The session takes the upload, or is closed and the upload is dropped.
SessionAnswers ==
    /\ client = "Uploading"
    /\ \/ client' = "Work"
       \/ stream = "broken" /\ client' = "Error"
    /\ ClientKeeps /\ UNCHANGED <<stream, outbound, notices>>

ServerSends ==
    /\ client = "Work"
    /\ stream = "whole"
    /\ client' = "Incoming"
    /\ ClientKeeps /\ UNCHANGED <<stream, outbound, notices>>

\* Variant: the end of the stream is only logged.
StreamEnds_Logged ==
    /\ client = "Work"
    /\ stream = "broken"
    /\ UNCHANGED linkVars

StreamEnds ==
    /\ client = "Work"
    /\ stream = "broken"
    /\ client' = "Error"
    /\ ClientKeeps /\ UNCHANGED <<stream, outbound, notices>>

PauseEnds ==
    /\ client = "Pause"
    /\ client' = "Init"
    /\ ClientKeeps /\ UNCHANGED <<stream, outbound, notices>>
-----------------------------------------------------------------------------
LinkNext ==
    \/ ServerTurns
    \/ CoreTakesUpload \/ CoreSendsUpload \/ CoreTakesNotice
    \/ CoreTakesHeartbeatNotice
    \/ ServiceTakesUpload \/ ServiceSendsUpload
    \/ ServiceTakesNotice \/ ServiceSendsNotice
    \/ Connects \/ TellsConnected \/ TellsIncoming \/ TellsDisconnected
    \/ TakesUpload \/ SessionAnswers \/ ServerSends \/ StreamEnds \/ PauseEnds

\* The three tasks are scheduled fairly and their select!s poll every branch;
\* a broken stream is noticed (keep-alive).  Neither uploads nor messages of
\* the server nor notices of the heartbeat service have to come.
Fairness ==
    /\ SF_linkVars(CoreTakesNotice)    /\ WF_linkVars(CoreSendsUpload)
    /\ SF_linkVars(ServiceTakesUpload) /\ WF_linkVars(ServiceSendsUpload)
    /\ SF_linkVars(ServiceTakesNotice) /\ WF_linkVars(ServiceSendsNotice)
    /\ WF_linkVars(Connects)
    /\ WF_linkVars(TellsConnected \/ TellsIncoming \/ TellsDisconnected)
    /\ SF_linkVars(TakesUpload)
    /\ WF_linkVars(SessionAnswers)
    /\ SF_linkVars(StreamEnds)
    /\ WF_linkVars(PauseEnds)

LinkSpec == LinkInit /\ [][LinkNext]_linkVars
FairSpec == LinkSpec /\ Fairness
-----------------------------------------------------------------------------
\* Circles of tasks that wait for room and read nothing meanwhile: the client
\* and the service (grpc_service/domain.rs 205, 246, 268 against 91), the
\* service and Core (97 against core/domain.rs 350).
Circle ==
    \/ /\ client \in {"Connected", "Incoming", "Error"} /\ Len(notices) = LinkCap
       /\ service = "upload" /\ outbound = LinkCap
    \/ /\ service \in ClientNotices /\ Len(fromGrpc) = LinkCap
       /\ core = "upload" /\ toGrpc = LinkCap

\* What the client and the heartbeat service agree on is what the gateway
\* believes, once no notice of the client is under way: two sources write one
\* status through one select! of Core, in any order, and neither leaves an old
\* word of its own behind that contradicts both (grpc_service/domain.rs 205,
\* 268, core/domain.rs 334-346, message/domain.rs 137-152).
Quiet   == notices = <<>> /\ fromGrpc = <<>> /\ service \notin ClientNotices
Working == client \in {"Work", "Uploading", "Incoming"} /\ stream = "whole"
AgreedIsBelieved ==
    Quiet => /\ client \in {"Work", "Uploading"} /\ monitor = "ServerConnected"
                   => told = "ServerConnected"
             /\ client = "Pause" /\ monitor = "ServerDisconnected"
                   => told = "ServerDisconnected"

\* An outage is believed in the end, whatever the heartbeat service said last:
\* every attempt that fails repeats the notice (grpc_service/domain.rs
\* 210-219, 268).  Only a circle can keep the notices back.
OutageIsBelieved ==
    \A s \in Statuses :
       <>[](server = "down" /\ monitor = s)
         => <>[](told = "ServerDisconnected") \/ <>[]Circle

\* A client "able to recover from network failures by reconnecting
\* automatically" (grpc_service/domain.rs:4-5): when the server is reachable
\* and heard for good, the client works again and the gateway knows it, unless
\* a circle closed in the outage.  Uploads are bounded nowhere and pile up
\* then, so circles do close, and no return of the server opens them.
OnlyCirclesKeepItAway ==
    <>[](server = "up" /\ monitor = "ServerConnected")
      => <>[](Working /\ told = "ServerConnected") \/ <>[]Circle
=============================================================================
