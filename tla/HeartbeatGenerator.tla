-------------------------- MODULE HeartbeatGenerator -------------------------
(***************************************************************************)
(* The heartbeats the gateway sends to its hubs: heartbeat_generator and   *)
(* its timer (module Watchdog).  The coordinator of module EdgeFsm says    *)
(* which kind of heartbeat is due; every Timeout sends one and starts the  *)
(* timer again.                                                            *)
(*                                                                         *)
(* A Stop command stops the timer but not the generator: `beat` keeps its  *)
(* value, so a Timeout that is already on its way starts the timer again.  *)
(***************************************************************************)
EXTENDS Naturals, Sequences, FiniteSets

CONSTANT Cap      \* capacity of each channel (50 in the code)

ASSUME CapAssumption == Cap \in Nat \ {0}

VARIABLES
    said,       \* the last command the coordinator sent
    modes,      \* rx_from_fsm: its commands
    heard,      \* the last command the generator took
    beat,       \* HeartbeatState
    sending,    \* the command the generator is sending to the timer, or "none"
    timeouts,   \* cmd_rx of the generator
    timer,      \* the timer task
    cmds        \* tx_to_timer

genVars   == <<heard, beat, sending>>
timerVars == <<timer, cmds, timeouts>>
vars      == <<said, modes, genVars, timerVars>>

W == INSTANCE Watchdog WITH EventCap <- Cap, events <- timeouts
-----------------------------------------------------------------------------
Beats == {"Phase", "Normal", "SafeMode"}
Stops == {"StopPhase", "StopSafeMode"}
Modes == Beats \cup Stops

\* The order in which module EdgeFsm sends the commands.
Successors ==
    [None |-> {"Phase", "SafeMode"}, Phase |-> {"StopPhase"},
     StopPhase |-> {"SafeMode", "Normal"}, SafeMode |-> {"StopSafeMode"},
     StopSafeMode |-> {"Normal"}, Normal |-> {}]

Init ==
    /\ said = "None" /\ modes = <<>> /\ heard = "None" /\ beat = "None"
    /\ sending = "none"
    /\ timeouts = <<>> /\ timer = "idle" /\ cmds = <<>>

CoordinatorSays ==
    /\ Len(modes) < Cap
    /\ \E m \in Successors[said] : said' = m /\ modes' = Append(modes, m)
    /\ UNCHANGED <<genVars, timerVars>>

\* A Stop leaves beat as it is.
TakesMode ==
    /\ sending = "none"
    /\ modes # <<>>
    /\ heard' = Head(modes)
    /\ IF Head(modes) \in Beats
       THEN beat' = Head(modes) /\ sending' = "InitTimer"
       ELSE sending' = "StopTimer" /\ UNCHANGED beat
    /\ modes' = Tail(modes)
    /\ UNCHANGED <<said, timerVars>>

\* Variant: the timer is started again for phases only.
TakesTimeout_PhaseOnly ==
    /\ sending = "none"
    /\ timeouts # <<>>
    /\ timeouts' = Tail(timeouts)
    /\ sending' = IF beat = "Phase" THEN "InitTimer" ELSE "none"
    /\ UNCHANGED <<said, modes, heard, beat, timer, cmds>>

\* A heartbeat is sent to the hubs and the timer is started again.
TakesTimeout ==
    /\ sending = "none"
    /\ timeouts # <<>>
    /\ timeouts' = Tail(timeouts)
    /\ sending' = IF beat = "None" THEN "none" ELSE "InitTimer"
    /\ UNCHANGED <<said, modes, heard, beat, timer, cmds>>

SendsTimerCommand ==
    /\ sending # "none"
    /\ Len(cmds) < Cap
    /\ cmds' = Append(cmds, sending)
    /\ sending' = "none"
    /\ UNCHANGED <<said, modes, heard, beat, timer, timeouts>>

heartbeat_generator_timer ==
    W!TimerStep /\ UNCHANGED <<said, modes, genVars>>

Next ==
    \/ CoordinatorSays \/ TakesMode \/ TakesTimeout \/ SendsTimerCommand
    \/ heartbeat_generator_timer

\* The tasks are scheduled fairly and the select! polls both channels; the
\* coordinator need not say anything.
Fairness ==
    /\ SF_vars(TakesMode)
    /\ SF_vars(TakesTimeout)
    /\ WF_vars(SendsTimerCommand)
    /\ WF_vars(heartbeat_generator_timer)

Spec     == Init /\ [][Next]_vars
FairSpec == Spec /\ Fairness
-----------------------------------------------------------------------------
\* The hubs never wait in vain: once the last command the generator took asks
\* for heartbeats they go on forever, whatever stale Timeout or swallowed
\* command the earlier modes left behind (fsm/logic.rs 855-907).
BeatsGoOn == <>[](heard \in Beats) => []<><<TakesTimeout>>_vars

=============================================================================
