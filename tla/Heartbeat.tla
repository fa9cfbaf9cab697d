------------------------------ MODULE Heartbeat -----------------------------
(***************************************************************************)
(* The heartbeat service: how the gateway decides that the central server  *)
(* is reachable.  Four tasks talk over bounded channels:                   *)
(*                                                                         *)
(*   service    HeartbeatService::run: Core <-> heartbeat                  *)
(*   heartbeat  the orchestrator: server messages in, side effects out     *)
(*   run_fsm    the pure state machine: events in, action vectors out      *)
(*   watchdog   the timer (module Watchdog)                                *)
(*                                                                         *)
(* Every await between two sends is a step of its own, so that a task that *)
(* blocks on a full channel blocks where the code does.                    *)
(***************************************************************************)
EXTENDS Naturals, Sequences, FiniteSets

CONSTANTS
    Cap,      \* capacity of each internal channel (50 in the code)
    Burst     \* bound: no heartbeat arrives while Load has reached it

ASSUME CapAssumption   == Cap \in Nat \ {0}
ASSUME BurstAssumption == Burst \in Nat

VARIABLES
    server,   \* external: whether the server is sending heartbeats
    service,  \* HeartbeatService::run: at its select, or sending a message on
    inbox,    \* tx_msg / rx_from_server: heartbeats for the orchestrator
    relay,    \* the event the orchestrator is sending on, or "none"
    todo,     \* the actions left of the vector the orchestrator is executing
    events,   \* tx_to_fsm: Heartbeat and Timeout events
    fsm,      \* the FsmHeartbeat value held by run_fsm_heartbeat
    fsmOut,   \* the action vector run_fsm_heartbeat is sending, if any
    actions,  \* tx_actions: action vectors
    timer,    \* the watchdog task
    cmds,     \* tx_to_timer: commands for the watchdog
    notices,  \* tx_to_core: ServerConnected / ServerDisconnected
    told      \* the last notice handed to Core (Disconnected at start)

taskVars  == <<service, inbox, relay, todo, notices, told>>
fsmVars   == <<fsm, fsmOut, actions>>
timerVars == <<timer, cmds>>
vars      == <<server, taskVars, events, fsmVars, timerVars>>

W == INSTANCE Watchdog WITH EventCap <- Cap
-----------------------------------------------------------------------------
States   == {"StartingWait", "ItsAlive", "NotHeartbeatYet", "DeadServer"}
Waiting  == States \ {"DeadServer"}
Statuses == {"Connected", "Disconnected"}
Events   == {"Heartbeat", "Timeout"}

SendStatusConditional(old, new) ==
    [kind |-> "SendStatusConditional", from |-> old, to |-> new]
StopTimer  == [kind |-> "StopTimer", from |-> "-", to |-> "-"]
OnEntry(s) == [kind |-> "OnEntry", from |-> "-", to |-> s]

Actions ==
    [kind : {"SendStatusConditional"}, from : Statuses, to : Statuses]
      \cup {StopTimer} \cup {OnEntry(s) : s \in States}

\* Heartbeats and sleeps not yet digested: every Heartbeat or Timeout event
\* becomes one action vector, which starts at most one sleep, which ends in at
\* most one Timeout.
Count(b) == IF b THEN 1 ELSE 0
Load == Count(service = "msg") + inbox + Count(relay # "none") + Len(events)
          + Len(fsmOut) + Len(actions) + Count(todo # <<>>)
          + Cardinality({i \in DOMAIN cmds : cmds[i] = "InitTimer"})
          + Count(timer # "idle")

Init ==
    /\ server = "up" /\ service = "select" /\ inbox = 0
    /\ relay = "none" /\ todo = <<>> /\ notices = <<>> /\ told = "Disconnected"
    /\ events = <<>>
    /\ fsm = [state |-> "StartingWait",
              oldStatus |-> "Disconnected", status |-> "Disconnected"]
    /\ fsmOut = <<>> /\ actions = <<>>
    /\ timer = "idle" /\ cmds = <<>>
-----------------------------------------------------------------------------
(* The environment and the service loop.                                   *)

ServerTurns ==
    /\ server' = IF server = "up" THEN "down" ELSE "up"
    /\ UNCHANGED <<taskVars, events, fsmVars, timerVars>>

\* The service's select takes a heartbeat that Core routed to it ...
ServiceTakesMessage ==
    /\ server = "up"
    /\ service = "select"
    /\ Load < Burst
    /\ service' = "msg"
    /\ UNCHANGED <<server, inbox, relay, todo, notices, told,
                   events, fsmVars, timerVars>>

\* ... and sends it on to the orchestrator.
ServiceSendsMessage ==
    /\ service = "msg"
    /\ inbox < Cap
    /\ inbox' = inbox + 1
    /\ service' = "select"
    /\ UNCHANGED <<server, relay, todo, notices, told,
                   events, fsmVars, timerVars>>

ServiceForwardsNotice ==
    /\ service = "select"
    /\ notices # <<>>
    /\ told' = Head(notices)
    /\ notices' = Tail(notices)
    /\ UNCHANGED <<server, service, inbox, relay, todo,
                   events, fsmVars, timerVars>>
-----------------------------------------------------------------------------
(* The orchestrator task.                                                  *)

AtSelect == relay = "none" /\ todo = <<>>

HeartbeatTakesMessage ==
    /\ AtSelect
    /\ inbox > 0
    /\ inbox' = inbox - 1
    /\ relay' = "Heartbeat"
    /\ UNCHANGED <<server, service, todo, notices, told,
                   events, fsmVars, timerVars>>

\* Variant: an unbounded channel.
HeartbeatSendsEvent_Unbounded ==
    /\ relay # "none"
    /\ events' = Append(events, relay)
    /\ relay' = "none"
    /\ UNCHANGED <<server, service, inbox, todo, notices, told,
                   fsmVars, timerVars>>

HeartbeatSendsEvent ==
    /\ relay # "none"
    /\ Len(events) < Cap
    /\ events' = Append(events, relay)
    /\ relay' = "none"
    /\ UNCHANGED <<server, service, inbox, todo, notices, told,
                   fsmVars, timerVars>>

HeartbeatTakesActions ==
    /\ AtSelect
    /\ actions # <<>>
    /\ todo' = Head(actions)
    /\ actions' = Tail(actions)
    /\ UNCHANGED <<server, service, inbox, relay, notices, told,
                   events, fsm, fsmOut, timerVars>>

Command(c) ==
    /\ Len(cmds) < Cap
    /\ cmds' = Append(cmds, c)

DoOnEntry ==
    /\ todo # <<>> /\ Head(todo).kind = "OnEntry"
    /\ IF Head(todo).to \in Waiting THEN Command("InitTimer")
                                    ELSE UNCHANGED cmds
    /\ todo' = Tail(todo)
    /\ UNCHANGED <<server, service, inbox, relay, notices, told,
                   events, fsmVars, timer>>

DoSendStatus ==
    /\ todo # <<>> /\ Head(todo).kind = "SendStatusConditional"
    /\ IF Head(todo).from # Head(todo).to
       THEN /\ Len(notices) < Cap
            /\ notices' = Append(notices, Head(todo).to)
       ELSE UNCHANGED notices
    /\ todo' = Tail(todo)
    /\ UNCHANGED <<server, service, inbox, relay, told,
                   events, fsmVars, timerVars>>

DoStopTimer ==
    /\ todo # <<>> /\ Head(todo).kind = "StopTimer"
    /\ Command("StopTimer")
    /\ todo' = Tail(todo)
    /\ UNCHANGED <<server, service, inbox, relay, notices, told,
                   events, fsmVars, timer>>
-----------------------------------------------------------------------------
(* The state machine task.  A valid transition replaces the value, then    *)
(* sends its actions followed by the OnEntry that step() computes.         *)

compute_on_entry(old, new) == IF old # new THEN <<OnEntry(new)>> ELSE <<>>

Takes(event) == fsmOut = <<>> /\ events # <<>> /\ Head(events) = event

In(state) == [fsm EXCEPT !.state = state]
InWith(state, status) ==
    [state |-> state, oldStatus |-> status, status |-> status]

\* Variant: OnEntry is put before the transition's own actions.
Transition_EntryFirst(event, from, next, acts) ==
    /\ Takes(event)
    /\ fsm.state = from
    /\ fsm' = next
    /\ fsmOut' = << compute_on_entry(from, next.state) \o acts >>
    /\ events' = Tail(events)
    /\ UNCHANGED <<server, taskVars, actions, timerVars>>

Transition(event, from, next, acts) ==
    /\ Takes(event)
    /\ fsm.state = from
    /\ fsm' = next
    /\ fsmOut' = << acts \o compute_on_entry(from, next.state) >>
    /\ events' = Tail(events)
    /\ UNCHANGED <<server, taskVars, actions, timerVars>>

\* Variant: the old status is read after it was overwritten.
StartingWaitHeartbeat_LateOld ==
    Transition("Heartbeat", "StartingWait", InWith("ItsAlive", "Connected"),
               <<SendStatusConditional("Connected", "Connected"), StopTimer>>)

StartingWaitHeartbeat ==
    Transition("Heartbeat", "StartingWait", InWith("ItsAlive", "Connected"),
               <<SendStatusConditional(fsm.oldStatus, "Connected"), StopTimer>>)
StartingWaitTimeout ==
    Transition("Timeout", "StartingWait", In("NotHeartbeatYet"), <<>>)
ItsAliveHeartbeat ==
    Transition("Heartbeat", "ItsAlive", In("StartingWait"), <<StopTimer>>)
ItsAliveTimeout ==
    Transition("Timeout", "ItsAlive", In("NotHeartbeatYet"), <<>>)
\* Variant: one heartbeat after a missed period is enough to be connected.
NotHeartbeatYetHeartbeat_Eager ==
    Transition("Heartbeat", "NotHeartbeatYet", InWith("ItsAlive", "Connected"),
               <<SendStatusConditional(fsm.oldStatus, "Connected"), StopTimer>>)

NotHeartbeatYetHeartbeat ==
    Transition("Heartbeat", "NotHeartbeatYet", In("StartingWait"), <<StopTimer>>)
\* Variant: the status is overwritten without a notice.
NotHeartbeatYetTimeout_Silent ==
    Transition("Timeout", "NotHeartbeatYet", InWith("DeadServer", "Disconnected"),
               <<>>)

NotHeartbeatYetTimeout ==
    Transition("Timeout", "NotHeartbeatYet", InWith("DeadServer", "Disconnected"),
               <<SendStatusConditional(fsm.oldStatus, "Disconnected")>>)
DeadServerHeartbeat ==
    Transition("Heartbeat", "DeadServer", In("StartingWait"), <<>>)

\* Any other pair is invalid: the event is dropped with a warning.
InvalidTransition ==
    /\ Takes("Timeout")
    /\ fsm.state = "DeadServer"
    /\ events' = Tail(events)
    /\ UNCHANGED <<server, taskVars, fsmVars, timerVars>>

step_inner ==
    \/ StartingWaitHeartbeat \/ StartingWaitTimeout
    \/ ItsAliveHeartbeat \/ ItsAliveTimeout
    \/ NotHeartbeatYetHeartbeat \/ NotHeartbeatYetTimeout
    \/ DeadServerHeartbeat \/ InvalidTransition

FsmSendsActions ==
    /\ fsmOut # <<>>
    /\ Len(actions) < Cap
    /\ actions' = Append(actions, Head(fsmOut))
    /\ fsmOut' = <<>>
    /\ UNCHANGED <<server, taskVars, events, fsm, timerVars>>

watchdog_timer_for_heartbeat ==
    W!TimerStep /\ UNCHANGED <<server, taskVars, fsmVars>>
-----------------------------------------------------------------------------
HeartbeatDoes == DoOnEntry \/ DoSendStatus \/ DoStopTimer

Next ==
    \/ ServerTurns
    \/ ServiceTakesMessage \/ ServiceSendsMessage \/ ServiceForwardsNotice
    \/ HeartbeatTakesMessage \/ HeartbeatSendsEvent \/ HeartbeatTakesActions
    \/ DoOnEntry \/ DoSendStatus \/ DoStopTimer
    \/ step_inner \/ FsmSendsActions
    \/ watchdog_timer_for_heartbeat

\* Each task is scheduled by tokio (weak fairness); a select! polls its
\* branches in random order, so a branch that is ready again and again is
\* taken (strong fairness).  The server and the arrival of heartbeats are
\* weakly fair only as far as the server is up; ServerTurns is not fair.
Fairness ==
    /\ SF_vars(ServiceTakesMessage)
    /\ WF_vars(ServiceSendsMessage)
    /\ SF_vars(ServiceForwardsNotice)
    /\ SF_vars(HeartbeatTakesMessage)
    /\ WF_vars(HeartbeatSendsEvent)
    /\ SF_vars(HeartbeatTakesActions)
    /\ WF_vars(HeartbeatDoes)
    /\ WF_vars(step_inner)
    /\ WF_vars(FsmSendsActions)
    /\ WF_vars(watchdog_timer_for_heartbeat)

Spec == Init /\ [][Next]_vars
FairSpec == Spec /\ Fairness
-----------------------------------------------------------------------------
TypeOK ==
    /\ server \in {"up", "down"}
    /\ service \in {"select", "msg"}
    /\ inbox \in 0..Cap
    /\ relay \in {"none", "Heartbeat"}
    /\ todo \in Seq(Actions)
    /\ events \in Seq(Events) /\ Len(events) <= Cap
    /\ fsm \in [state : States, oldStatus : Statuses, status : Statuses]
    /\ fsmOut \in Seq(Seq(Actions)) /\ Len(fsmOut) <= 1
    /\ actions \in Seq(Seq(Actions)) /\ Len(actions) <= Cap
    /\ timer \in W!TimerStates
    /\ cmds \in Seq(W!Commands) /\ Len(cmds) <= Cap
    /\ notices \in Seq(Statuses) /\ Len(notices) <= Cap
    /\ told \in Statuses

StartsTimer(a) == a.kind = "OnEntry" /\ a.to \in Waiting
WillStart(vec) == \E i \in DOMAIN vec : StartsTimer(vec[i])

\* Something is under way that will end in a Timeout or in a new sleep.
Armed ==
    \/ timer # "idle"
    \/ \E i \in DOMAIN events : events[i] = "Timeout"
    \/ \E i \in DOMAIN cmds : cmds[i] = "InitTimer"
    \/ WillStart(todo)
    \/ \E i \in DOMAIN actions : WillStart(actions[i])
    \/ \E i \in DOMAIN fsmOut : WillStart(fsmOut[i])

\* While the gateway believes the server is there, the watchdog (or a message
\* on its way to or from it) is armed: the state machine can never wait for a
\* server that went silent with nobody left to report the silence, whatever
\* the interleaving of stale timeouts, cancelled and swallowed commands
\* (heartbeat/domain.rs 384-409, logic.rs 67-101).
ArmedWhileConnected == fsm.status = "Connected" => Armed

\* The tasks never wait for each other in a circle: the orchestrator for the
\* event channel while the state machine task waits for the action channel
\* (logic.rs 59 against 132), or the service for the message channel while the
\* orchestrator waits for the notice channel (domain.rs 81 against logic.rs 83).
\* The code bounds neither; what makes it true is the bound on the load.
NoCircularWait ==
    /\ ~ /\ relay # "none" /\ Len(events) = Cap
         /\ fsmOut # <<>> /\ Len(actions) = Cap
    /\ ~ /\ service = "msg" /\ inbox = Cap
         /\ Len(notices) = Cap /\ todo # <<>>
         /\ Head(todo).kind = "SendStatusConditional"

\* Once the server is silent for good, Core is told so and stays told.
SilenceIsReported == <>[](server = "down") => <>[](told = "Disconnected")

\* Once the server is up for good and no sleep ends any more, Core learns it.
Reconnects ==
    <>[](server = "up" /\ timer # "firing") => <>[](told = "Connected")

\* The promise of module LinkMonitor is kept: its silent periods are read off
\* the state machine's state.
Missed == IF fsm.state = "NotHeartbeatYet" THEN 1
          ELSE IF fsm.state = "DeadServer" THEN 2 ELSE 0
Link == INSTANCE LinkMonitor WITH status <- fsm.status, missed <- Missed
KeepsLinkPromise == Link!Spec

\* The strengthening that makes ArmedWhileConnected inductive: a StopTimer,
\* wherever it is, has the start of the next sleep right behind it, and a
\* server declared dead is not believed connected.
StopThenStart(vec) ==
    \A i \in DOMAIN vec : vec[i].kind = "StopTimer" =>
        i < Len(vec) /\ StartsTimer(vec[i + 1])

CommandsPaired ==
    \A i \in DOMAIN cmds : cmds[i] = "StopTimer" =>
        IF i < Len(cmds) THEN cmds[i + 1] = "InitTimer"
                         ELSE todo # <<>> /\ StartsTimer(Head(todo))

DeadIsDisconnected == fsm.state = "DeadServer" => fsm.status = "Disconnected"

StopsArePaired ==
    /\ StopThenStart(todo)
    /\ \A i \in DOMAIN actions : StopThenStart(actions[i])
    /\ \A i \in DOMAIN fsmOut : StopThenStart(fsmOut[i])
    /\ CommandsPaired

ArmedInv == StopsArePaired /\ DeadIsDisconnected /\ ArmedWhileConnected
=============================================================================
