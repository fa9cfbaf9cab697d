------------------------------- MODULE EdgeFsm ------------------------------
(***************************************************************************)
(* The edge state machine: how the gateway walks its hubs through the      *)
(* post-failure balancing protocol.  Tasks and channels:                   *)
(*                                                                         *)
(*   fsm       the coordinator: hub messages in, side effects out; it owns *)
(*             the session (votes, reports, attempts)                      *)
(*   run_fsm   the pure state machine: events in, action vectors out       *)
(*   watchdog  the timer (module Watchdog)                                 *)
(*                                                                         *)
(* The state machine never waits for the coordinator: between a transition *)
(* and the execution of its entry action the session is behind, and what   *)
(* the coordinator concludes from it may arrive in a later state.          *)
(***************************************************************************)
EXTENDS Naturals, Sequences, FiniteSets

CONSTANTS
    Hubs,          \* the registered hubs
    MaxAttempts,   \* max_attempts of protocol.toml
    Cap,           \* capacity of each internal channel (50 in the code)
    Burst          \* bound: no hub message arrives while Load has reached it

ASSUME HubsAssumption     == IsFiniteSet(Hubs)
ASSUME AttemptsAssumption == MaxAttempts \in Nat
ASSUME CapAssumption      == Cap \in Nat \ {0}
ASSUME BurstAssumption    == Burst \in Nat

VARIABLES
    epoch,      \* external: the Data service's answer to GetEpoch
    commands,   \* tx_command: what FsmService passes to the coordinator
    session,    \* UpdateSession
    todo,       \* what is left of the handler the coordinator is executing
    announced,  \* the last announcement sent to the hubs
    generator,  \* the last mode sent to heartbeat_generator
    edge,       \* the last state sent to edge_state
    events,     \* tx_to_fsm
    fsm,        \* the FsmState held by run_fsm
    fsmOut,     \* the action vector run_fsm is sending, if any
    actions,    \* tx_actions
    timer,      \* the watchdog task
    cmds        \* general_tx_to_timer

coreVars  == <<epoch, commands>>
told      == <<announced, generator, edge>>
fsmVars   == <<fsm, fsmOut, actions>>
timerVars == <<timer, cmds>>
vars == <<coreVars, session, todo, told, events, fsmVars, timerVars>>

W == INSTANCE Watchdog WITH EventCap <- Cap
-----------------------------------------------------------------------------
None == "None"

StateGlobal         == {"Start", "BalanceMode", "Normal", "SafeMode"}
SubStateBalanceMode == {"InitBalanceMode", "InHandshake", "Quorum", "Phase",
                        "OutHandshake"}
SubStateQuorum      == {"CheckQuorumIn", "CheckQuorumOut",
                        "RepeatHandshakeIn", "RepeatHandshakeOut"}
SubStatePhase       == {"Alert", "Data", "Monitor"}
StateOfSession      == {None, "InHandshake", "Quorum", "RepeatHandshake",
                        "OutHandshake", "Alert", "Data", "Monitor", "SafeMode"}
Events == {"Timeout", "BalanceEpochOk", "BalanceEpochNotOk", "ApproveQuorum",
           "QuorumPhase", "QuorumSafeMode", "NotApproveQuorum",
           "NotApproveNotAttempts", "NewMessageHandshake"}

\* What the hubs are told, in the order in which the protocol tells them.
Announcements == <<"nothing", "in", "alert", "data", "monitor", "out">>
Rank(a)       == CHOOSE i \in DOMAIN Announcements : Announcements[i] = a
Labels        == {Announcements[i] : i \in DOMAIN Announcements}

\* A step of the coordinator's handler: a send on one of its channels, or an
\* action of the state machine still to be executed.
Op(do, arg) == [do |-> do, arg |-> arg]
StopTimer       == Op("timer", "StopTimer")
InitTimer       == Op("timer", "InitTimer")
CalculateQuorum == Op("CalculateQuorum", None)

Modes == {"Phase", "StopPhase", "SafeMode", "StopSafeMode", "Normal"}
Ops ==
    [do : {"fsm"}, arg : Events] \cup {StopTimer, InitTimer, CalculateQuorum}
    \cup [do : {"core"}, arg : Labels \cup {"GetEpoch", "NewEpoch"}]
    \cup [do : {"heartbeat"}, arg : Modes]
    \cup [do : {"edge"}, arg : StateGlobal]
    \cup [do : {"OnEntryBalance"}, arg : SubStateBalanceMode]
    \cup [do : {"OnEntryQuorum"}, arg : SubStateQuorum]
    \cup [do : {"OnEntryPhase"}, arg : SubStatePhase]
    \cup [do : {"OnEntryNormal", "OnEntrySafeMode"}, arg : {None}]

\* What rx_command carries: the answer to GetEpoch and messages of hubs.  A
\* hub message names what it answers: the flag of a handshake or the phase of
\* an empty queue ("old" stands for a handshake of another epoch).
Answer(kind)          == [kind |-> kind, hub |-> None, label |-> None]
Message(kind, h, lbl) == [kind |-> kind, hub |-> h, label |-> lbl]
Messages ==
    [kind : {"HandshakeFromHub"}, hub : Hubs, label : {"in", "out", "old"}]
    \cup [kind : {"EmptyQueue"}, hub : Hubs, label : {"alert", "data", "monitor"}]
    \cup [kind : {"EmptyQueueSafe"}, hub : Hubs, label : {"safe"}]
Answers == {Answer("Epoch"), Answer("ErrorEpoch")}

\* What is not yet digested: every hub message, event and sleep becomes at most
\* one event or one new sleep.
Count(b) == IF b THEN 1 ELSE 0
Load == Len(commands) + Count(todo # <<>>) + Len(events) + Len(fsmOut)
          + Len(actions) + Count(timer # "idle")
          + Cardinality({i \in DOMAIN cmds : cmds[i] = "InitTimer"})

Init ==
    /\ epoch = "unasked" /\ commands = <<>>
    /\ session = [state |-> None, handshakes |-> {}, empties |-> {},
                  attempts |-> 0]
    /\ todo = <<>>
    /\ announced = "nothing" /\ generator = None /\ edge = "Start"
    /\ events = <<>>
    /\ fsm = [global |-> "Start", balance |-> None, quorum |-> None,
              phase |-> None]
    /\ fsmOut = <<>> /\ actions = <<>>
    /\ timer = "idle" /\ cmds = <<>>
-----------------------------------------------------------------------------
(* Core, the Data service and the hubs.                                    *)

Command(c) ==
    /\ Len(commands) < Cap
    /\ commands' = Append(commands, c)
    /\ UNCHANGED <<session, todo, told, events, fsmVars, timerVars>>

DataAnswers ==
    /\ epoch = "asked"
    /\ epoch' = "answered"
    /\ \E answer \in Answers : Command(answer)

Heard(label) == Rank(announced) >= Rank(label)

HubSends ==
    /\ Load < Burst
    /\ UNCHANGED epoch
    /\ \E h \in Hubs :
         \/ Heard("in") /\ Command(Message("HandshakeFromHub", h, "old"))
         \/ \E flag \in {"in", "out"} :
              Heard(flag) /\ Command(Message("HandshakeFromHub", h, flag))
         \/ \E phase \in {"alert", "data", "monitor"} :
              Heard(phase) /\ Command(Message("EmptyQueue", h, phase))
         \/ /\ session.state = "SafeMode" /\ edge # "BalanceMode"
            /\ Command(Message("EmptyQueueSafe", h, "safe"))
-----------------------------------------------------------------------------
(* The coordinator: messages.  An empty queue that is not empty changes    *)
(* nothing and is not modelled.                                            *)

Receives(kind) ==
    /\ todo = <<>>
    /\ commands # <<>> /\ Head(commands).kind = kind
    /\ commands' = Tail(commands)
    /\ UNCHANGED <<epoch, told, events, fsmVars, timerVars>>

Sender == Head(commands).hub

\* The flag of the handshake is not looked at, its epoch is.
TakesHandshake ==
    /\ Receives("HandshakeFromHub")
    /\ IF /\ session.state \in {"InHandshake", "OutHandshake", "RepeatHandshake"}
          /\ Head(commands).label # "old"
       THEN /\ session' = [session EXCEPT !.handshakes = @ \cup {Sender}]
            /\ todo' = <<Op("fsm", "NewMessageHandshake")>>
       ELSE UNCHANGED <<session, todo>>

Reached(reports, percentage) ==
    /\ Hubs # {}
    /\ 100 * Cardinality(reports) >= percentage * Cardinality(Hubs)

\* Variant: the watchdog is stopped after the report, quorum or not.
Reports_StopsAlways(event, percentage) ==
    /\ session' = [session EXCEPT !.empties = @ \cup {Sender}]
    /\ todo' = IF Reached(session'.empties, percentage)
               THEN <<Op("fsm", event), StopTimer>> ELSE <<StopTimer>>

\* One more report; when they are enough the event is sent, and sent again
\* for every report that follows until the next phase is entered.
Reports(event, percentage) ==
    /\ session' = [session EXCEPT !.empties = @ \cup {Sender}]
    /\ todo' = IF Reached(session'.empties, percentage)
               THEN <<Op("fsm", event), StopTimer>> ELSE <<>>

\* The phase named in the report is not looked at.
quorum_phase ==
    /\ Receives("EmptyQueue")
    /\ IF session.state \in SubStatePhase THEN Reports("QuorumPhase", 80)
                                          ELSE UNCHANGED <<session, todo>>

quorum_safe_mode ==
    /\ Receives("EmptyQueueSafe")
    /\ IF session.state = "SafeMode" THEN Reports("QuorumSafeMode", 70)
                                     ELSE UNCHANGED <<session, todo>>

TakesErrorEpoch ==
    /\ Receives("ErrorEpoch")
    /\ todo' = <<Op("fsm", "BalanceEpochNotOk")>>
    /\ UNCHANGED session

TakesEpoch ==
    /\ Receives("Epoch")
    /\ todo' = <<Op("fsm", "BalanceEpochOk"), Op("core", "NewEpoch"),
                 Op("edge", "BalanceMode")>>
    /\ UNCHANGED session

TakesCommand ==
    \/ TakesHandshake \/ quorum_phase \/ quorum_safe_mode
    \/ TakesErrorEpoch \/ TakesEpoch

TakesActions ==
    /\ todo = <<>>
    /\ actions # <<>>
    /\ todo' = Head(actions)
    /\ actions' = Tail(actions)
    /\ UNCHANGED <<coreVars, session, told, events, fsm, fsmOut, timerVars>>
-----------------------------------------------------------------------------
(* The coordinator: sends.  The core, heartbeat and edge_state channels    *)
(* get fewer messages in a run than they hold, so those sends never wait.  *)

Does(do) == todo # <<>> /\ Head(todo).do = do
Arg == Head(todo).arg

SendsEvent ==
    /\ Does("fsm")
    /\ Len(events) < Cap
    /\ events' = Append(events, Arg)
    /\ todo' = Tail(todo)
    /\ UNCHANGED <<coreVars, session, told, fsmVars, timerVars>>

\* Variant: an unbounded channel.
SendsTimerCommand_Unbounded ==
    /\ Does("timer")
    /\ cmds' = Append(cmds, Arg)
    /\ todo' = Tail(todo)
    /\ UNCHANGED <<coreVars, session, told, events, fsmVars, timer>>

SendsTimerCommand ==
    /\ Does("timer")
    /\ Len(cmds) < Cap
    /\ cmds' = Append(cmds, Arg)
    /\ todo' = Tail(todo)
    /\ UNCHANGED <<coreVars, session, told, events, fsmVars, timer>>

SendsToCore ==
    /\ Does("core")
    /\ epoch' = IF Arg = "GetEpoch" THEN "asked" ELSE epoch
    /\ announced' = IF Arg \in Labels THEN Arg ELSE announced
    /\ todo' = Tail(todo)
    /\ UNCHANGED <<commands, session, generator, edge, events, fsmVars,
                   timerVars>>

SendsHeartbeatMode ==
    /\ Does("heartbeat")
    /\ generator' = Arg
    /\ todo' = Tail(todo)
    /\ UNCHANGED <<coreVars, session, announced, edge, events, fsmVars,
                   timerVars>>

SendsEdgeState ==
    /\ Does("edge")
    /\ edge' = Arg
    /\ todo' = Tail(todo)
    /\ UNCHANGED <<coreVars, session, announced, generator, events, fsmVars,
                   timerVars>>
-----------------------------------------------------------------------------
(* The coordinator: handle_action.                                         *)

\* Executes the action at the head of todo: its sends take its place.
Executes(sends) ==
    /\ todo' = sends \o Tail(todo)
    /\ UNCHANGED <<coreVars, told, events, fsmVars, timerVars>>

InSession(state) == session' = [session EXCEPT !.state = state]

OnEntryInitBalanceMode ==
    /\ Does("OnEntryBalance") /\ Arg = "InitBalanceMode"
    /\ Executes(<<Op("core", "GetEpoch")>>)
    /\ UNCHANGED session

on_entry_in_handshake ==
    /\ Does("OnEntryBalance") /\ Arg = "InHandshake"
    /\ Executes(<<Op("core", "in"), InitTimer>>)
    /\ InSession("InHandshake")

on_entry_out_handshake ==
    /\ Does("OnEntryBalance") /\ Arg = "OutHandshake"
    /\ Executes(<<Op("core", "out"), InitTimer>>)
    /\ InSession("OutHandshake")

OnEntryOtherBalance ==
    /\ Does("OnEntryBalance") /\ Arg \in {"Quorum", "Phase"}
    /\ Executes(<<>>)
    /\ UNCHANGED session

\* After the first attempt every further one lowers the threshold by five.
Penalty   == 5 * (IF session.attempts > 1 THEN session.attempts - 1 ELSE 0)
Threshold == IF Penalty < 80 THEN 80 - Penalty ELSE 0
Approved  == Threshold > 10 /\ Reached(session.handshakes, Threshold)

quorum_algorithm ==
    IF session.attempts > MaxAttempts THEN "NotApproveNotAttempts"
    ELSE IF Approved THEN "ApproveQuorum" ELSE "NotApproveQuorum"

OnEntryCheckQuorum ==
    /\ Does("OnEntryQuorum") /\ Arg \in {"CheckQuorumIn", "CheckQuorumOut"}
    /\ Executes(<<Op("fsm", quorum_algorithm)>>)
    /\ InSession("Quorum")

DoCalculateQuorum ==
    /\ Does("CalculateQuorum")
    /\ Executes(<<Op("fsm", quorum_algorithm)>>)
    /\ UNCHANGED session

\* Variant: the attempts are not counted.
on_entry_repeat_handshake_Uncounted ==
    /\ Does("OnEntryQuorum")
    /\ Arg \in {"RepeatHandshakeIn", "RepeatHandshakeOut"}
    /\ Executes(<<Op("core", IF Arg = "RepeatHandshakeIn" THEN "in" ELSE "out"),
                  InitTimer>>)
    /\ session' = [session EXCEPT !.state = "RepeatHandshake",
                                  !.handshakes = {}]

on_entry_repeat_handshake ==
    /\ Does("OnEntryQuorum")
    /\ Arg \in {"RepeatHandshakeIn", "RepeatHandshakeOut"}
    /\ Executes(<<Op("core", IF Arg = "RepeatHandshakeIn" THEN "in" ELSE "out"),
                  InitTimer>>)
    /\ session' = [session EXCEPT !.state = "RepeatHandshake",
                                  !.attempts = @ + 1, !.handshakes = {}]

PhaseLabel == [Alert |-> "alert", Data |-> "data", Monitor |-> "monitor"]

\* Variant: the session stays in the state of the handshake.
OnEntryPhase_KeepsState ==
    /\ Does("OnEntryPhase")
    /\ Executes(<<InitTimer, Op("core", PhaseLabel[Arg])>>
                \o IF Arg = "Alert" THEN <<Op("heartbeat", "Phase")>> ELSE <<>>)
    /\ session' = [session EXCEPT !.handshakes = {}, !.empties = {},
                                  !.attempts = 0]

OnEntryPhase ==
    /\ Does("OnEntryPhase")
    /\ Executes(<<InitTimer, Op("core", PhaseLabel[Arg])>>
                \o IF Arg = "Alert" THEN <<Op("heartbeat", "Phase")>> ELSE <<>>)
    /\ session' = [state |-> Arg, handshakes |-> {}, empties |-> {},
                   attempts |-> 0]

\* Variant: edge_state is not told.
on_entry_normal_Untold ==
    /\ Does("OnEntryNormal")
    /\ Executes(<<Op("heartbeat", "Normal")>>)
    /\ UNCHANGED session

on_entry_normal ==
    /\ Does("OnEntryNormal")
    /\ Executes(<<Op("heartbeat", "Normal"), Op("edge", "Normal")>>)
    /\ UNCHANGED session

on_entry_safe_mode ==
    /\ Does("OnEntrySafeMode")
    /\ Executes(<<InitTimer, Op("heartbeat", "SafeMode"),
                  Op("edge", "SafeMode")>>)
    /\ session' = [session EXCEPT !.empties = {}, !.state = "SafeMode"]

handle_action ==
    \/ OnEntryInitBalanceMode \/ on_entry_in_handshake
    \/ on_entry_out_handshake \/ OnEntryOtherBalance
    \/ OnEntryCheckQuorum \/ on_entry_repeat_handshake \/ DoCalculateQuorum
    \/ OnEntryPhase \/ on_entry_normal \/ on_entry_safe_mode
-----------------------------------------------------------------------------
(* run_fsm: the state machine.                                             *)

\* The entry actions follow from the parts of the state that changed.
compute_on_entry(old, new) ==
    (IF old.balance # new.balance /\ new.balance # None
       THEN <<Op("OnEntryBalance", new.balance)>> ELSE <<>>) \o
    (IF old.quorum # new.quorum /\ new.quorum # None
       THEN <<Op("OnEntryQuorum", new.quorum)>> ELSE <<>>) \o
    (IF old.global # new.global /\ new.global = "Normal"
       THEN <<Op("OnEntryNormal", None)>> ELSE <<>>) \o
    (IF old.global # new.global /\ new.global = "SafeMode"
       THEN <<Op("OnEntrySafeMode", None)>> ELSE <<>>) \o
    (IF old.phase # new.phase /\ new.phase # None
       THEN <<Op("OnEntryPhase", new.phase)>> ELSE <<>>)

Becomes(next, acts) ==
    /\ fsm' = next
    /\ fsmOut' = << acts \o compute_on_entry(fsm, next) >>
    /\ UNCHANGED <<coreVars, session, todo, told, actions, timerVars>>

TakesEvent(among) ==
    /\ fsmOut = <<>>
    /\ events # <<>> /\ Head(events) \in among
    /\ events' = Tail(events)

Transition(event, next, acts) == TakesEvent({event}) /\ Becomes(next, acts)

\* The innermost active state of balance mode.
Leaf == IF fsm.balance = "Quorum" THEN fsm.quorum
        ELSE IF fsm.balance = "Phase" THEN fsm.phase ELSE fsm.balance
In(leaves) == fsm.global = "BalanceMode" /\ Leaf \in leaves

Handshakes == {"InHandshake", "RepeatHandshakeIn", "OutHandshake",
               "RepeatHandshakeOut"}
Checks     == {"CheckQuorumIn", "CheckQuorumOut"}

\* run_fsm steps out of Start before its loop.
step_start ==
    /\ fsm.global = "Start"
    /\ Becomes([fsm EXCEPT !.global = "BalanceMode",
                           !.balance = "InitBalanceMode"], <<>>)
    /\ UNCHANGED events

state_init_balance_mode_event_balance_epoch ==
    /\ In({"InitBalanceMode"})
    /\ Transition("BalanceEpochOk", [fsm EXCEPT !.balance = "InHandshake"], <<>>)

state_init_balance_mode_event_balance_epoch_not_ok ==
    /\ In({"InitBalanceMode"})
    /\ Transition("BalanceEpochNotOk",
                  [fsm EXCEPT !.balance = None, !.global = "SafeMode"], <<>>)

state_in_handshake_event_timeout ==
    /\ In({"InHandshake"})
    /\ Transition("Timeout", [fsm EXCEPT !.balance = "Quorum",
                                         !.quorum = "CheckQuorumIn"], <<>>)

state_out_handshake_event_timeout ==
    /\ In({"OutHandshake"})
    /\ Transition("Timeout", [fsm EXCEPT !.balance = "Quorum",
                                         !.quorum = "CheckQuorumOut"], <<>>)

state_repeat_handshake_in ==
    /\ In({"RepeatHandshakeIn"})
    /\ Transition("Timeout", [fsm EXCEPT !.quorum = "CheckQuorumIn"], <<>>)

state_repeat_handshake_out ==
    /\ In({"RepeatHandshakeOut"})
    /\ Transition("Timeout", [fsm EXCEPT !.quorum = "CheckQuorumOut"], <<>>)

new_message_handshake ==
    /\ In(Handshakes)
    /\ Transition("NewMessageHandshake", fsm, <<CalculateQuorum>>)

\* NotApproveQuorum while a handshake is under way: valid, no action.
HandshakeNotApproved ==
    /\ In(Handshakes)
    /\ Transition("NotApproveQuorum", fsm, <<>>)

\* Variant: the quorum sub-state survives the approval.
approve_in_KeepsQuorum ==
    /\ In({"InHandshake", "RepeatHandshakeIn", "CheckQuorumIn"})
    /\ Transition("ApproveQuorum",
                  [fsm EXCEPT !.balance = "Phase", !.phase = "Alert"],
                  <<StopTimer>>)

\* Approval on the way in, by a late vote or by the check: the alert phase.
approve_in ==
    /\ In({"InHandshake", "RepeatHandshakeIn", "CheckQuorumIn"})
    /\ Transition("ApproveQuorum",
                  [fsm EXCEPT !.balance = "Phase", !.phase = "Alert",
                              !.quorum = None], <<StopTimer>>)

\* Approval on the way out: normal operation.
approve_out ==
    /\ In({"OutHandshake", "RepeatHandshakeOut", "CheckQuorumOut"})
    /\ Transition("ApproveQuorum",
                  [fsm EXCEPT !.balance = None, !.quorum = None,
                              !.global = "Normal"], <<StopTimer>>)

state_check_quorum_in_event_not_approve ==
    /\ In({"CheckQuorumIn"})
    /\ Transition("NotApproveQuorum",
                  [fsm EXCEPT !.quorum = "RepeatHandshakeIn"], <<>>)

state_check_quorum_out_event_not_approve ==
    /\ In({"CheckQuorumOut"})
    /\ Transition("NotApproveQuorum",
                  [fsm EXCEPT !.quorum = "RepeatHandshakeOut"], <<>>)

state_check_quorum_event_not_and_not ==
    /\ In(Checks)
    /\ Transition("NotApproveNotAttempts",
                  [fsm EXCEPT !.global = "SafeMode", !.balance = None,
                              !.quorum = None], <<>>)

PhaseOver == {"Timeout", "QuorumPhase"}

state_alert_event_timeout_or_quorum ==
    /\ In({"Alert"})
    /\ \E event \in PhaseOver :
         Transition(event, [fsm EXCEPT !.phase = "Data"], <<StopTimer>>)

state_data_event_timeout_or_quorum ==
    /\ In({"Data"})
    /\ \E event \in PhaseOver :
         Transition(event, [fsm EXCEPT !.phase = "Monitor"], <<StopTimer>>)

state_monitor_event_timeout_or_quorum ==
    /\ In({"Monitor"})
    /\ \E event \in PhaseOver :
         Transition(event, [fsm EXCEPT !.balance = "OutHandshake",
                                       !.phase = None],
                    <<Op("heartbeat", "StopPhase"), StopTimer>>)

step_safe_mode ==
    /\ fsm.global = "SafeMode"
    /\ \E event \in {"Timeout", "QuorumSafeMode"} :
         Transition(event, [fsm EXCEPT !.global = "Normal"],
                    <<Op("heartbeat", "StopSafeMode")>>)

\* Every other pair of state and event is invalid: a warning, no change.
Accepted ==
    IF fsm.global = "SafeMode" THEN {"Timeout", "QuorumSafeMode"}
    ELSE IF In({"InitBalanceMode"}) THEN {"BalanceEpochOk", "BalanceEpochNotOk"}
    ELSE IF In(Handshakes) THEN {"Timeout", "NewMessageHandshake",
                                 "ApproveQuorum", "NotApproveQuorum"}
    ELSE IF In(Checks) THEN {"ApproveQuorum", "NotApproveQuorum",
                             "NotApproveNotAttempts"}
    ELSE IF In(SubStatePhase) THEN PhaseOver ELSE {}

invalid ==
    /\ fsm.global # "Start"
    /\ TakesEvent(Events \ Accepted)
    /\ UNCHANGED <<coreVars, session, todo, told, fsmVars, timerVars>>

step_balance_mode ==
    \/ state_init_balance_mode_event_balance_epoch
    \/ state_init_balance_mode_event_balance_epoch_not_ok
    \/ state_in_handshake_event_timeout \/ state_out_handshake_event_timeout
    \/ state_repeat_handshake_in \/ state_repeat_handshake_out
    \/ new_message_handshake \/ HandshakeNotApproved
    \/ approve_in \/ approve_out
    \/ state_check_quorum_in_event_not_approve
    \/ state_check_quorum_out_event_not_approve
    \/ state_check_quorum_event_not_and_not
    \/ state_alert_event_timeout_or_quorum
    \/ state_data_event_timeout_or_quorum
    \/ state_monitor_event_timeout_or_quorum

step_inner == step_start \/ step_balance_mode \/ step_safe_mode \/ invalid

RunFsmSendsActions ==
    /\ fsmOut # <<>>
    /\ Len(actions) < Cap
    /\ actions' = Append(actions, Head(fsmOut))
    /\ fsmOut' = <<>>
    /\ UNCHANGED <<coreVars, session, todo, told, events, fsm, timerVars>>

fsm_watchdog_timer ==
    W!TimerStep /\ UNCHANGED <<coreVars, session, todo, told, fsmVars>>
-----------------------------------------------------------------------------
Sends == SendsEvent \/ SendsTimerCommand \/ SendsToCore
           \/ SendsHeartbeatMode \/ SendsEdgeState

Next ==
    \/ DataAnswers \/ HubSends
    \/ TakesHandshake \/ quorum_phase \/ quorum_safe_mode
    \/ TakesErrorEpoch \/ TakesEpoch \/ TakesActions
    \/ SendsEvent \/ SendsTimerCommand \/ SendsToCore
    \/ SendsHeartbeatMode \/ SendsEdgeState
    \/ handle_action
    \/ step_inner \/ RunFsmSendsActions
    \/ fsm_watchdog_timer

\* Tasks are scheduled fairly, the coordinator's select! polls its branches in
\* random order, a sender waiting for room in a channel gets it in turn (tokio's
\* mpsc hands out permits first come first served), and the Data service
\* answers.  Hubs need not say anything.
Fairness ==
    /\ WF_vars(DataAnswers)
    /\ SF_vars(TakesCommand)
    /\ SF_vars(TakesActions)
    /\ SF_vars(Sends)
    /\ WF_vars(handle_action)
    /\ WF_vars(step_inner)
    /\ WF_vars(RunFsmSendsActions)
    /\ SF_vars(fsm_watchdog_timer)

Spec     == Init /\ [][Next]_vars
FairSpec == Spec /\ Fairness
-----------------------------------------------------------------------------
TypeOK ==
    /\ epoch \in {"unasked", "asked", "answered"}
    /\ commands \in Seq(Messages \cup Answers) /\ Len(commands) <= Cap
    /\ session \in [state : StateOfSession, handshakes : SUBSET Hubs,
                    empties : SUBSET Hubs, attempts : Nat]
    /\ todo \in Seq(Ops)
    /\ announced \in Labels
    /\ generator \in Modes \cup {None}
    /\ edge \in StateGlobal
    /\ events \in Seq(Events) /\ Len(events) <= Cap
    /\ fsm \in [global : StateGlobal, balance : SubStateBalanceMode \cup {None},
                quorum : SubStateQuorum \cup {None},
                phase : SubStatePhase \cup {None}]
    /\ fsmOut \in Seq(Seq(Ops)) /\ Len(fsmOut) <= 1
    /\ actions \in Seq(Seq(Ops)) /\ Len(actions) <= Cap
    /\ timer \in W!TimerStates
    /\ cmds \in Seq(W!Commands) /\ Len(cmds) <= Cap

\* If a parent state is not active its children are None, and the other way
\* round (FsmState, fsm/domain.rs 291-308): the entry actions are computed by
\* comparing sub-states, so a child left behind would silence a later entry.
Hierarchy ==
    /\ (fsm.global = "BalanceMode") <=> (fsm.balance # None)
    /\ (fsm.balance = "Quorum") <=> (fsm.quorum # None)
    /\ (fsm.balance = "Phase") <=> (fsm.phase # None)

ElementsOf(s) == {s[i] : i \in DOMAIN s}
Pending == ElementsOf(todo)
             \cup (UNION {ElementsOf(v) : v \in ElementsOf(actions)})
             \cup (UNION {ElementsOf(v) : v \in ElementsOf(fsmOut)})

Entering(do, args) == \E op \in Pending : op.do = do /\ op.arg \in args

TimerWillRun ==
    \/ InitTimer \in Pending
    \/ Entering("OnEntryBalance", {"InHandshake", "OutHandshake"})
    \/ Entering("OnEntryQuorum", {"RepeatHandshakeIn", "RepeatHandshakeOut"})
    \/ Entering("OnEntryPhase", SubStatePhase)
    \/ Entering("OnEntrySafeMode", {None})

Armed ==
    \/ timer # "idle"
    \/ "Timeout" \in ElementsOf(events)
    \/ "InitTimer" \in ElementsOf(cmds)
    \/ TimerWillRun

Verdicts == {"ApproveQuorum", "NotApproveQuorum", "NotApproveNotAttempts"}

\* Whatever state the machine waits in, something is under way that will get it
\* out: the watchdog, the verdict of a quorum, or the answer of the Data
\* service.  StopTimer is sent both by the state machine's actions and by the
\* coordinator on its own (quorum_phase, quorum_safe_mode), and a sleeping
\* watchdog swallows InitTimer, so the watchdog a state relies on can be
\* stopped or left unarmed by a message meant for another one
\* (fsm/logic.rs 516-591, fsm/domain.rs 973-998).
NeverStuck ==
    /\ In(Handshakes) => Armed
    /\ In(SubStatePhase) => Armed \/ "QuorumPhase" \in ElementsOf(events)
    /\ fsm.global = "SafeMode" =>
         Armed \/ "QuorumSafeMode" \in ElementsOf(events)
    /\ In(Checks) =>
         \/ Entering("OnEntryQuorum", Checks) \/ Entering("fsm", Verdicts)
         \/ Verdicts \cap ElementsOf(events) # {}

SessionOf ==
    [InHandshake |-> "InHandshake", OutHandshake |-> "OutHandshake",
     RepeatHandshakeIn |-> "RepeatHandshake",
     RepeatHandshakeOut |-> "RepeatHandshake",
     CheckQuorumIn |-> "Quorum", CheckQuorumOut |-> "Quorum",
     Alert |-> "Alert", Data |-> "Data", Monitor |-> "Monitor"]

\* The coordinator's copy of the state is the state machine's whenever no
\* action is under way: votes and reports are then counted for the state the
\* machine is in (session.set_state, fsm/logic.rs 266-426).
SessionAgrees ==
    Pending = {} =>
      /\ In(DOMAIN SessionOf) => session.state = SessionOf[Leaf]
      /\ fsm.global = "SafeMode" => session.state = "SafeMode"

\* The coordinator and the state machine task never wait for each other: one
\* for the event channel (fsm/logic.rs 92-509), the other for the action
\* channel (logic.rs 1010-1024).  What makes it true is the bound on the load.
NoCircularWait ==
    ~ /\ Does("fsm") /\ Len(events) = Cap
      /\ fsmOut # <<>> /\ Len(actions) = Cap

\* The promise of module BalanceProtocol.
Stage == IF fsm.global = "Start" THEN "start"
         ELSE IF fsm.global = "SafeMode" THEN "safe"
         ELSE IF fsm.global = "Normal" THEN "normal"
         ELSE IF In({"InitBalanceMode"}) THEN "init"
         ELSE IF In({"InHandshake", "CheckQuorumIn", "RepeatHandshakeIn"})
              THEN "in"
         ELSE IF In(SubStatePhase) THEN PhaseLabel[fsm.phase] ELSE "out"
Protocol == INSTANCE BalanceProtocol WITH stage <- Stage, heard <- announced
KeepsLiveProtocol == Protocol!LiveSpec

\* In the end the hubs' heartbeats and the state reported to hubs and server
\* are those of normal operation, on either path (fsm/logic.rs 376-397).
EveryoneEndsNormal ==
    <>[](fsm.global = "Normal" /\ edge = "Normal" /\ generator = "Normal")

=============================================================================
