---------------------------- MODULE StoreForward ----------------------------
(***************************************************************************)
(* Store and forward: the way of a telemetry message of a hub to the       *)
(* server, at once or through the local database.                          *)
(*                                                                         *)
(*   msg_from_hub     passes telemetry on, or to the database when it      *)
(*                    believes the server is disconnected                  *)
(*   msg_to_server    uploads live messages and batches of stored rows,    *)
(*                    or drops them when it believes the same              *)
(*   dba_insert_task  gathers rows and writes them table by table          *)
(*   dba_get_task     takes the rows out again when the heartbeat service  *)
(*                    says that the server is back                         *)
(*                                                                         *)
(* The hops through Core, MessageService::run and DataService::run keep    *)
(* the order of what they pass on and are collapsed; that they may block   *)
(* each other is left to other modules.  Uploads end at GrpcService.       *)
(***************************************************************************)
EXTENDS Naturals, Sequences, SequencesExt

CONSTANTS
    NTables,      \* telemetry tables (4 in the code), in the order of insert
    BatchSize,    \* rows of a table that trigger a write (BATCH_SIZE, 49)
    Limit,        \* rows of a table taken out at a time (LIMIT, 10)
    MaxRows,      \* bound: messages of the hubs
    MaxChanges,   \* bound: status notices of the two services
    MaxMishaps    \* bound: database errors and restarts

ASSUME SizesAssumption  == {NTables, BatchSize, Limit} \subseteq Nat \ {0}
ASSUME BoundsAssumption == {MaxRows, MaxChanges, MaxMishaps} \subseteq Nat

VARIABLES
    hb,          \* the last status HeartbeatService notified
    grpc,        \* the last status GrpcService notified
    changes, mishaps, arrived,                 \* counters of the bounds
    fromHub,     \* rx of msg_from_hub: statuses and telemetry
    fromHubSays, \* its state
    commands,    \* rx of msg_to_server: statuses and batches
    toServerSays,\* its state
    live,        \* rx_from_hub of msg_to_server: telemetry
    sent,        \* uploads handed to GrpcService
    inserts,     \* rx_cmd of dba_insert_task: telemetry
    buf,         \* tdv: the rows gathered for each table
    writing,     \* 0, or the table repo.insert(&tdv) is about to write
    db,          \* the rows of each table, in the order of their key
    notices,     \* rx_from_core of dba_get_task: statuses
    data,        \* its state (old_state is the same between two commands)
    popping,     \* 0, or the table pop_batch is about to take rows from
    popped       \* the rows the current pop_batch has taken

msgVars  == <<fromHub, fromHubSays, commands, toServerSays, live, sent>>
dataVars == <<inserts, buf, writing, db, notices, data, popping, popped>>
envVars  == <<hb, grpc, changes, mishaps, arrived>>
vars     == <<envVars, msgVars, dataVars>>

Statuses == {"ServerConnected", "ServerDisconnected"}
Tables   == 1..NTables

Status(s)        == [kind |-> s, rows |-> {}]
Message(k, rows) == [kind |-> k, rows |-> rows]
NoRows           == [t \in Tables |-> <<>>]

Init ==
    /\ hb = "ServerDisconnected" /\ grpc = "ServerDisconnected"
    /\ changes = 0 /\ mishaps = 0 /\ arrived = 0
    /\ fromHub = <<>> /\ fromHubSays = "ServerConnected"
    /\ commands = <<>> /\ toServerSays = "ServerConnected"
    /\ live = <<>> /\ sent = <<>> /\ inserts = <<>>
    /\ buf = NoRows /\ writing = 0 /\ db = NoRows
    /\ notices = <<>> /\ data = "ServerDisconnected"
    /\ popping = 0 /\ popped = {}
-----------------------------------------------------------------------------
(* Notices and messages come in.  The two services are independent here:   *)
(* a notice of either may be long on its way.                              *)

\* MessageService::run passes a status on to both tasks.
TellsMessageService(s) ==
    /\ fromHub' = Append(fromHub, Status(s))
    /\ commands' = Append(commands, Status(s))

\* HeartbeatService notifies changes only; MessageService and DataService hear.
HeartbeatNotifies ==
    /\ changes < MaxChanges
    /\ \E s \in Statuses \ {hb} :
         /\ hb' = s
         /\ TellsMessageService(s)
         /\ notices' = Append(notices, s)
    /\ changes' = changes + 1
    /\ UNCHANGED <<grpc, mishaps, arrived, fromHubSays, toServerSays, live, sent,
                   inserts, buf, writing, db, data, popping, popped>>

\* GrpcService notifies every failed attempt; only MessageService hears.
GrpcNotifies ==
    /\ changes < MaxChanges
    /\ \E s \in Statuses :
         /\ s = "ServerDisconnected" \/ grpc # s
         /\ grpc' = s
         /\ TellsMessageService(s)
    /\ changes' = changes + 1
    /\ UNCHANGED <<hb, mishaps, arrived, fromHubSays, toServerSays, live, sent,
                   dataVars>>

HubSends ==
    /\ arrived < MaxRows
    /\ \E t \in Tables :
         fromHub' = Append(fromHub,
                           Message("Live", {[id |-> arrived + 1, table |-> t]}))
    /\ arrived' = arrived + 1
    /\ UNCHANGED <<hb, grpc, changes, mishaps, fromHubSays, commands,
                   toServerSays, live, sent, dataVars>>
-----------------------------------------------------------------------------
(* msg_from_hub and msg_to_server.                                         *)

FromHubTakesStatus ==
    /\ fromHub # <<>> /\ Head(fromHub).kind \in Statuses
    /\ fromHubSays' = Head(fromHub).kind
    /\ fromHub' = Tail(fromHub)
    /\ UNCHANGED <<envVars, commands, toServerSays, live, sent, dataVars>>

\* Variant: telemetry is also stored when it is passed on.
FromHubTakesTelemetry_Both ==
    /\ fromHub # <<>> /\ Head(fromHub).kind = "Live"
    /\ live' = IF fromHubSays = "ServerConnected"
               THEN Append(live, Head(fromHub)) ELSE live
    /\ inserts' = Append(inserts, Head(fromHub))
    /\ fromHub' = Tail(fromHub)
    /\ UNCHANGED <<envVars, fromHubSays, commands, toServerSays, sent,
                   buf, writing, db, notices, data, popping, popped>>

\* Telemetry goes on, or to the database.
FromHubTakesTelemetry ==
    /\ fromHub # <<>> /\ Head(fromHub).kind = "Live"
    /\ IF fromHubSays = "ServerConnected"
       THEN live' = Append(live, Head(fromHub)) /\ UNCHANGED inserts
       ELSE inserts' = Append(inserts, Head(fromHub)) /\ UNCHANGED live
    /\ fromHub' = Tail(fromHub)
    /\ UNCHANGED <<envVars, fromHubSays, commands, toServerSays, sent,
                   buf, writing, db, notices, data, popping, popped>>

\* An upload, or nothing when the server is disconnected.
Uploads(m) ==
    sent' = IF toServerSays = "ServerConnected" THEN Append(sent, m) ELSE sent

ToServerTakesStatus ==
    /\ commands # <<>> /\ Head(commands).kind \in Statuses
    /\ toServerSays' = Head(commands).kind
    /\ commands' = Tail(commands)
    /\ UNCHANGED <<envVars, fromHub, fromHubSays, live, sent, dataVars>>

ToServerTakesBatch ==
    /\ commands # <<>> /\ Head(commands).kind = "Batch"
    /\ Uploads(Head(commands))
    /\ commands' = Tail(commands)
    /\ UNCHANGED <<envVars, fromHub, fromHubSays, toServerSays, live, dataVars>>

ToServerTakesLive ==
    /\ live # <<>>
    /\ Uploads(Head(live))
    /\ live' = Tail(live)
    /\ UNCHANGED <<envVars, fromHub, fromHubSays, commands, toServerSays,
                   dataVars>>
-----------------------------------------------------------------------------
(* dba_insert_task.                                                        *)

\* sort_by_vectors, then a write when a vector is full.
InsertTakesTelemetry ==
    /\ writing = 0 /\ inserts # <<>>
    /\ \E r \in Head(inserts).rows :
         buf' = [buf EXCEPT ![r.table] = Append(@, r)]
    /\ writing' = IF \E t \in Tables : Len(buf'[t]) = BatchSize THEN 1 ELSE 0
    /\ inserts' = Tail(inserts)
    /\ UNCHANGED <<envVars, msgVars, db, notices, data, popping, popped>>

\* Variant: the interval only writes when a vector is full.
FlushTick_Full ==
    /\ writing = 0 /\ \E t \in Tables : Len(buf[t]) >= BatchSize
    /\ writing' = 1
    /\ UNCHANGED <<envVars, msgVars, inserts, buf, db, notices, data, popping,
                   popped>>

FlushTick ==
    /\ writing = 0 /\ buf # NoRows
    /\ writing' = 1
    /\ UNCHANGED <<envVars, msgVars, inserts, buf, db, notices, data, popping,
                   popped>>

\* Variant: a table that could not be written is skipped.
WritesTable_Skips ==
    /\ writing > 0
    /\ \E b \in {"written", "skipped"} :
         db' = IF b = "skipped" THEN db
               ELSE [db EXCEPT ![writing] = @ \o buf[writing]]
    /\ IF writing = NTables THEN writing' = 0 /\ buf' = NoRows
                            ELSE writing' = writing + 1 /\ UNCHANGED buf
    /\ UNCHANGED <<envVars, msgVars, inserts, notices, data, popping, popped>>

\* One INSERT per table; the buffer is cleared after the last one.
WritesTable ==
    /\ writing > 0
    /\ db' = [db EXCEPT ![writing] = @ \o buf[writing]]
    /\ IF writing = NTables THEN writing' = 0 /\ buf' = NoRows
                            ELSE writing' = writing + 1 /\ UNCHANGED buf
    /\ UNCHANGED <<envVars, msgVars, inserts, notices, data, popping, popped>>

\* An error ends the insert; the buffer is cleared all the same.
WriteFails ==
    /\ writing > 0 /\ mishaps < MaxMishaps
    /\ mishaps' = mishaps + 1
    /\ writing' = 0 /\ buf' = NoRows
    /\ UNCHANGED <<hb, grpc, changes, arrived, msgVars, inserts, db, notices,
                   data, popping, popped>>
-----------------------------------------------------------------------------
(* dba_get_task.                                                           *)

\* The change from Disconnected to Connected starts get_all_tables.
GetTakesNotice ==
    /\ popping = 0 /\ notices # <<>>
    /\ data' = Head(notices)
    /\ popping' = IF data' = "ServerConnected" /\ data # data' THEN 1 ELSE 0
    /\ notices' = Tail(notices)
    /\ UNCHANGED <<envVars, msgVars, inserts, buf, writing, db, popped>>

\* Variant: the newest rows first.
PopsTable_Newest ==
    /\ popping \in Tables
    /\ LET s == db[popping]
           n == IF Len(s) < Limit THEN Len(s) ELSE Limit
       IN  /\ popped' = popped \cup ToSet(SubSeq(s, Len(s) - n + 1, Len(s)))
           /\ db' = [db EXCEPT ![popping] = SubSeq(s, 1, Len(s) - n)]
    /\ popping' = popping + 1
    /\ UNCHANGED <<envVars, msgVars, inserts, buf, writing, notices, data>>

\* DELETE .. RETURNING takes the rows with the smallest keys.
PopsTable ==
    /\ popping \in Tables
    /\ LET s == db[popping]
           n == IF Len(s) < Limit THEN Len(s) ELSE Limit
       IN  /\ popped' = popped \cup ToSet(SubSeq(s, 1, n))
           /\ db' = [db EXCEPT ![popping] = SubSeq(s, n + 1, Len(s))]
    /\ popping' = popping + 1
    /\ UNCHANGED <<envVars, msgVars, inserts, buf, writing, notices, data>>

\* An error ends get_all_tables with what the other tables gave.
PopFails ==
    /\ popping \in Tables /\ mishaps < MaxMishaps
    /\ mishaps' = mishaps + 1
    /\ popping' = 0 /\ popped' = {}
    /\ UNCHANGED <<hb, grpc, changes, arrived, msgVars, inserts, buf, writing,
                   db, notices, data>>

\* Variant: one batch, no loop.
BatchEnds_Once ==
    /\ popping = NTables + 1
    /\ commands' = IF popped = {} THEN commands
                   ELSE Append(commands, Message("Batch", popped))
    /\ popping' = 0 /\ popped' = {}
    /\ UNCHANGED <<envVars, fromHub, fromHubSays, toServerSays, live, sent,
                   inserts, buf, writing, db, notices, data>>

\* An empty batch ends the loop; another one is sent and the loop goes on.
BatchEnds ==
    /\ popping = NTables + 1
    /\ IF popped = {} THEN popping' = 0 /\ UNCHANGED commands
       ELSE popping' = 1 /\ commands' = Append(commands, Message("Batch", popped))
    /\ popped' = {}
    /\ UNCHANGED <<envVars, fromHub, fromHubSays, toServerSays, live, sent,
                   inserts, buf, writing, db, notices, data>>
-----------------------------------------------------------------------------
\* The process ends and is started again: the database survives.
Restarts ==
    /\ mishaps < MaxMishaps
    /\ mishaps' = mishaps + 1
    /\ hb' = "ServerDisconnected" /\ grpc' = "ServerDisconnected"
    /\ fromHub' = <<>> /\ fromHubSays' = "ServerConnected"
    /\ commands' = <<>> /\ toServerSays' = "ServerConnected"
    /\ live' = <<>> /\ inserts' = <<>>
    /\ buf' = NoRows /\ writing' = 0
    /\ notices' = <<>> /\ data' = "ServerDisconnected"
    /\ popping' = 0 /\ popped' = {}
    /\ UNCHANGED <<changes, arrived, sent, db>>

Next ==
    \/ HeartbeatNotifies \/ GrpcNotifies \/ HubSends
    \/ FromHubTakesStatus \/ FromHubTakesTelemetry
    \/ ToServerTakesStatus \/ ToServerTakesBatch \/ ToServerTakesLive
    \/ InsertTakesTelemetry \/ FlushTick \/ WritesTable \/ WriteFails
    \/ GetTakesNotice \/ PopsTable \/ PopFails \/ BatchEnds
    \/ Restarts

\* Every task is scheduled and its select! takes what is waiting; the interval
\* fires.  Nothing has to come in and nothing has to fail.
Fairness ==
    /\ WF_vars(FromHubTakesStatus) /\ WF_vars(FromHubTakesTelemetry)
    /\ WF_vars(ToServerTakesStatus) /\ WF_vars(ToServerTakesBatch)
    /\ WF_vars(ToServerTakesLive)
    /\ WF_vars(InsertTakesTelemetry) /\ WF_vars(FlushTick)
    /\ WF_vars(WritesTable)
    /\ WF_vars(GetTakesNotice) /\ WF_vars(PopsTable) /\ WF_vars(BatchEnds)

Spec     == Init /\ [][Next]_vars
FairSpec == Spec /\ Fairness
-----------------------------------------------------------------------------
\* The parts of the gateway that hold rows, and the set of rows in each place
\* of a part.  A table that has been written is no longer held by the buffer.
Parts == ({"fromHub", "commands", "live", "inserts", "sent", "popped"} \X {0})
           \cup ({"buf", "db"} \X Tables)

Held(p) ==
    LET sets(q) == [i \in DOMAIN q |-> q[i].rows]
        rows(s) == [i \in DOMAIN s |-> {s[i]}]
    IN  CASE p[1] = "fromHub"  -> sets(fromHub)
          [] p[1] = "commands" -> sets(commands)
          [] p[1] = "live"     -> sets(live)
          [] p[1] = "inserts"  -> sets(inserts)
          [] p[1] = "sent"     -> sets(sent)
          [] p[1] = "popped"   -> <<popped>>
          [] p[1] = "buf"      -> IF p[2] < writing THEN <<>> ELSE rows(buf[p[2]])
          [] p[1] = "db"       -> rows(db[p[2]])

HeldRows == UNION {UNION ToSet(Held(p)) : p \in Parts}
Lost     == (1..arrived) \ {r.id : r \in HeldRows}
Stored   == {r.id : r \in UNION {ToSet(db[t]) : t \in Tables}}

\* A message is in one place at most, the uploads included: it is never both
\* stored and passed on, never uploaded twice (msg_from_hub 266-377,
\* dba_insert_task 69-85, pop_batch_generic 330-357).
AtMostOnce ==
    \A p, q \in Parts : \A i \in DOMAIN Held(p), j \in DOMAIN Held(q) :
        <<p, i>> # <<q, j>> => Held(p)[i] \cap Held(q)[j] = {}

\* Uploads that take the same way keep the order the hub sent them in: the
\* live ones, and table by table the stored ones, across batches, outages and
\* restarts (dba_insert_task 78-85, get_all_tables 392-411).
EachWayKeepsOrder ==
    \A i, j \in DOMAIN sent :
        i < j /\ sent[i].kind = sent[j].kind =>
            \A r \in sent[i].rows, s \in sent[j].rows :
                r.table = s.table => r.id < s.id

\* A message is lost in two ways only: msg_to_server drops it because it
\* believes the server disconnected, or the database or the process fails
\* (message/logic.rs 455-475 and 529-533).
LossHasCause ==
    [][Lost' # Lost
         => toServerSays = "ServerDisconnected" \/ mishaps' # mishaps]_vars

\* Nothing stays in the buffer: FLUSH_INTERVAL sees to it (logic.rs 69-74).
BufferIsFlushed ==
    \A i \in 1..MaxRows :
        (\E t \in Tables : \E k \in DOMAIN buf[t] : buf[t][k].id = i)
            ~> (\A t \in Tables : \A k \in DOMAIN buf[t] : buf[t][k].id # i)

\* What is stored when the heartbeat service has declared the server dead is
\* taken out after it says for good that the server is back, however many
\* batches that takes, unless the database or the process failed once
\* (dba_get_task 302-322).
OutageIsDrained ==
    <>[](mishaps = 0 /\ hb = "ServerConnected")
      => \A i \in 1..MaxRows :
           (i \in Stored /\ data = "ServerDisconnected") ~> (i \notin Stored)
=============================================================================
