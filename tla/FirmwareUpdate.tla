--------------------------- MODULE FirmwareUpdate ---------------------------
(***************************************************************************)
(* The firmware updater: on an Update of the server it asks the hubs of a  *)
(* network one after the other to update themselves, gives each of them    *)
(* until the watchdog (module Watchdog) fires, and reports the share that  *)
(* did to the server.  FirmwareService creates and deletes the updater     *)
(* with the first and the last network.                                    *)
(*                                                                         *)
(* Timeout and answers reach the task on two channels; an Update is taken  *)
(* at any time, also in the middle of a session.                           *)
(***************************************************************************)
EXTENDS Naturals, Sequences, FiniteSets

CONSTANTS
    Hubs,         \* the hubs that may be registered
    Cap,          \* capacity of each channel (50 in the code)
    MaxUpdates    \* bound: Updates the server sends

ASSUME HubsAssumption    == IsFiniteSet(Hubs)
ASSUME CapAssumption     == Cap \in Nat \ {0}
ASSUME UpdatesAssumption == MaxUpdates \in Nat

VARIABLES
    runtime,   \* whether FirmwareService has a runtime: "some" or "none"
    updates,   \* Updates sent so far
    msgs,      \* rx_msg: Updates and answers of hubs
    task,      \* update_firmware_task: at its select (or sending what is left
               \* in todo), fetching the version, or gone with the process
    todo,      \* the sends left of the handler being executed
    state,     \* Sleeping or Working
    process,   \* process_vector: the hubs of the session
    index,     \* the hub whose turn it is, counted from 0 as in the code
    asked,     \* the hubs of the session that were sent the request
    timeouts,  \* rx_timer
    timer,     \* the watchdog task
    cmds       \* tx_to_timer

sessionVars == <<state, process, index>>
timerVars   == <<timer, cmds, timeouts>>
vars == <<runtime, updates, msgs, task, todo, sessionVars, asked, timerVars>>

W == INSTANCE Watchdog WITH EventCap <- Cap, events <- timeouts
-----------------------------------------------------------------------------
None   == "None"
Update == [kind |-> "Update", hub |-> None, ok |-> "no"]
HubResponse(h, ok) == [kind |-> "HubResponse", hub |-> h, ok |-> ok]

Op(do, arg) == [do |-> do, arg |-> arg]
StopTimer   == Op("timer", "StopTimer")
InitTimer   == Op("timer", "InitTimer")
Request(h)  == Op("HubCommand", h)
Report      == Op("ServerAck", None)

\* A hub of the session; ok stands for is_updated || success, what is counted.
Status(h, ok) == [id |-> h, ok |-> ok]

\* The state in which update_firmware_task starts, its StopTimer ahead.
Fresh ==
    /\ msgs = <<>> /\ task = "select" /\ todo = <<StopTimer>>
    /\ state = "Sleeping" /\ process = <<>> /\ index = 0 /\ asked = {}
    /\ timeouts = <<>> /\ timer = "idle" /\ cmds = <<>>

Init == runtime = "some" /\ updates = 0 /\ Fresh

AtSelect == runtime = "some" /\ task = "select" /\ todo = <<>>
-----------------------------------------------------------------------------
(* FirmwareService and the world around it.                                *)

\* Without a runtime, Updates and answers are dropped.
Forward(m) ==
    /\ task # "crashed"
    /\ IF runtime = "some" THEN Len(msgs) < Cap /\ msgs' = Append(msgs, m)
                           ELSE UNCHANGED msgs
    /\ UNCHANGED <<runtime, task, todo, sessionVars, asked, timerVars>>

ServerUpdates ==
    /\ updates < MaxUpdates
    /\ updates' = updates + 1
    /\ Forward(Update)

\* A hub that was asked answers: once, late, or again.
HubAnswers ==
    /\ \E h \in asked, ok \in {"yes", "no"} : Forward(HubResponse(h, ok))
    /\ UNCHANGED updates

\* The last network is gone: the runtime is cancelled, wherever it is.  The
\* second guard is a bound: no more deletions once the last Update is sent.
DeleteRuntime ==
    /\ runtime = "some" /\ task # "crashed"
    /\ updates < MaxUpdates
    /\ runtime' = "none"
    /\ msgs' = <<>> /\ task' = "select" /\ todo' = <<>>
    /\ state' = "Sleeping" /\ process' = <<>> /\ index' = 0 /\ asked' = {}
    /\ timeouts' = <<>> /\ timer' = "idle" /\ cmds' = <<>>
    /\ UNCHANGED updates

CreateRuntime ==
    /\ runtime = "none"
    /\ runtime' = "some"
    /\ todo' = <<StopTimer>>
    /\ UNCHANGED <<updates, msgs, task, sessionVars, asked, timerVars>>
-----------------------------------------------------------------------------
(* update_firmware_task.                                                   *)

\* An Update starts over, whatever session was going on, and without stopping
\* its watchdog; then the task waits for the version to be fetched.
TakesUpdate ==
    /\ AtSelect
    /\ msgs # <<>> /\ Head(msgs).kind = "Update"
    /\ msgs' = Tail(msgs)
    /\ task' = "fetching"
    /\ state' = "Working" /\ process' = <<>> /\ index' = 0 /\ asked' = {}
    /\ UNCHANGED <<runtime, updates, todo, timerVars>>

Orders(S) == {s \in [1..Cardinality(S) -> S] : \A h \in S : \E i \in DOMAIN s : s[i] = h}

\* The hubs of the network, in the order in which the map yields them.
get_firmware_version_Ok ==
    /\ task = "fetching"
    /\ task' = "select"
    /\ \E S \in (SUBSET Hubs) \ {{}} : \E ids \in Orders(S) :
         /\ process' = [i \in DOMAIN ids |-> Status(ids[i], "no")]
         /\ todo' = <<Request(ids[1]), InitTimer>>
    /\ UNCHANGED <<runtime, updates, msgs, state, index, asked, timerVars>>

\* The version cannot be fetched, or the network has no hubs.
get_firmware_version_Fails ==
    /\ task = "fetching"
    /\ task' = "select"
    /\ state' = "Sleeping"
    /\ todo' = <<Report>>
    /\ UNCHANGED <<runtime, updates, msgs, process, index, asked, timerVars>>

\* Variant: the watchdog is stopped after it was started for the next hub.
Settles_StopsLast(ok) ==
    /\ process' = [process EXCEPT ![index + 1].ok = ok]
    /\ index' = index + 1
    /\ IF index' < Len(process)
       THEN /\ todo' = <<Request(process[index' + 1].id), InitTimer, StopTimer>>
            /\ UNCHANGED state
       ELSE /\ todo' = <<StopTimer, Report>>
            /\ state' = "Sleeping"

\* Variant: a hub that failed ends the session.
Settles_GivesUp(ok) ==
    /\ process' = [process EXCEPT ![index + 1].ok = ok]
    /\ index' = IF ok = "yes" THEN index + 1 ELSE Len(process)
    /\ IF index' < Len(process)
       THEN /\ todo' = <<StopTimer, Request(process[index' + 1].id), InitTimer>>
            /\ UNCHANGED state
       ELSE /\ todo' = <<StopTimer, Report>>
            /\ state' = "Sleeping"

\* Variant: the same hub is asked until it succeeds.
Settles_Retries(ok) ==
    /\ process' = [process EXCEPT ![index + 1].ok = ok]
    /\ index' = IF ok = "yes" THEN index + 1 ELSE index
    /\ IF index' < Len(process)
       THEN /\ todo' = <<StopTimer, Request(process[index' + 1].id), InitTimer>>
            /\ UNCHANGED state
       ELSE /\ todo' = <<StopTimer, Report>>
            /\ state' = "Sleeping"

\* The hub whose turn it is, is settled: the next one is asked, or the session
\* ends with a report.
Settles(ok) ==
    /\ process' = [process EXCEPT ![index + 1].ok = ok]
    /\ index' = index + 1
    /\ IF index' < Len(process)
       THEN /\ todo' = <<StopTimer, Request(process[index' + 1].id), InitTimer>>
            /\ UNCHANGED state
       ELSE /\ todo' = <<StopTimer, Report>>
            /\ state' = "Sleeping"

HubsTurn(h) == state = "Working" /\ index < Len(process) /\ process[index + 1].id = h

TakesHubResponse ==
    /\ AtSelect
    /\ msgs # <<>> /\ Head(msgs).kind = "HubResponse"
    /\ msgs' = Tail(msgs)
    /\ IF HubsTurn(Head(msgs).hub) THEN Settles(Head(msgs).ok)
                                   ELSE UNCHANGED <<todo, sessionVars>>
    /\ UNCHANGED <<runtime, updates, task, asked, timerVars>>

\* The Timeout handler asks neither the state nor the length of the vector:
\* process_vector[index] panics, and a panic aborts the process.
TakesTimeout ==
    /\ AtSelect
    /\ timeouts # <<>>
    /\ timeouts' = Tail(timeouts)
    /\ IF index < Len(process)
       THEN Settles("no") /\ UNCHANGED task
       ELSE task' = "crashed" /\ UNCHANGED <<todo, sessionVars>>
    /\ UNCHANGED <<runtime, updates, msgs, asked, timer, cmds>>

Running(do) == runtime = "some" /\ task = "select" /\ todo # <<>> /\ Head(todo).do = do

\* The responses wait in FirmwareService's channel, which it empties.
SendsHubCommand ==
    /\ Running("HubCommand")
    /\ asked' = asked \cup {Head(todo).arg}
    /\ todo' = Tail(todo)
    /\ UNCHANGED <<runtime, updates, msgs, task, sessionVars, timerVars>>

SendsServerAck ==
    /\ Running("ServerAck")
    /\ todo' = Tail(todo)
    /\ UNCHANGED <<runtime, updates, msgs, task, sessionVars, asked, timerVars>>

SendsTimerCommand ==
    /\ Running("timer")
    /\ Len(cmds) < Cap
    /\ cmds' = Append(cmds, Head(todo).arg)
    /\ todo' = Tail(todo)
    /\ UNCHANGED <<runtime, updates, msgs, task, sessionVars, asked, timer,
                   timeouts>>

firmware_watchdog_timer ==
    /\ task # "crashed"
    /\ W!TimerStep
    /\ UNCHANGED <<runtime, updates, msgs, task, todo, sessionVars, asked>>
-----------------------------------------------------------------------------
Next ==
    \/ ServerUpdates \/ HubAnswers \/ DeleteRuntime \/ CreateRuntime
    \/ TakesUpdate \/ get_firmware_version_Ok \/ get_firmware_version_Fails
    \/ TakesHubResponse \/ TakesTimeout
    \/ SendsHubCommand \/ SendsServerAck \/ SendsTimerCommand
    \/ firmware_watchdog_timer

\* Tasks are scheduled fairly, both channels of the select! are polled, the
\* fetch ends one way or the other; nobody has to send anything.
Fairness ==
    /\ SF_vars(TakesUpdate)
    /\ SF_vars(TakesHubResponse)
    /\ SF_vars(TakesTimeout)
    /\ WF_vars(get_firmware_version_Ok \/ get_firmware_version_Fails)
    /\ WF_vars(SendsHubCommand \/ SendsServerAck \/ SendsTimerCommand)
    /\ WF_vars(firmware_watchdog_timer)

Spec     == Init /\ [][Next]_vars
FairSpec == Spec /\ Fairness
-----------------------------------------------------------------------------
ElementsOf(s) == {s[i] : i \in DOMAIN s}

Armed ==
    \/ timer # "idle"
    \/ timeouts # <<>>
    \/ "InitTimer" \in ElementsOf(cmds)
    \/ InitTimer \in ElementsOf(todo)

\* While a hub has its turn, the watchdog will fire or is about to be started:
\* a hub that never answers cannot hold up the session, although an Update in
\* the middle of one starts a second sleep that the watchdog swallows
\* (firmware/logic.rs 62-114, domain.rs 188-218).
SilentHubIsTimed == state = "Working" /\ task = "select" => Armed

\* The server gets no outcome of a session in which some hub was never asked:
\* timeouts that overtake the answers advance the turn, too
\* (firmware/logic.rs 130-225).
OutcomeCoversEveryHub ==
    [][ /\ Running("ServerAck") /\ todo' = Tail(todo) /\ runtime' = "some"
        => \A i \in DOMAIN process : process[i].id \in asked ]_vars

\* The last Update is reported on, or its session dies with the runtime or the
\* process: the updater does not stay at work forever.
WorkEnds == <>[](state = "Sleeping" \/ task = "crashed")

\* The bounds check of process_vector[index] in the Timeout handler
\* (firmware/logic.rs:189) never fails.  The code breaks this: the Timeout of
\* a hub that answered just in time is taken after the session is over.
IndexInBounds == task # "crashed"
=============================================================================
