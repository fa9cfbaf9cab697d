------------------------------ MODULE Watchdog ------------------------------
(***************************************************************************)
(* The one-shot timer task that the heartbeat monitor, the edge state      *)
(* machine and the firmware updater each run a copy of.  The task loops    *)
(* over two awaits: outside a sleep it takes commands, inside a sleep it   *)
(* selects between the end of the sleep and ONE further command.           *)
(*                                                                         *)
(* The select pattern is Some(StopTimer) = cmd_rx.recv(): a command of     *)
(* another kind is consumed, does not match and disables the branch, so    *)
(* the rest of the sleep can no longer be cancelled ("deaf").              *)
(*                                                                         *)
(* Durations are abstracted: a sleep may end at any moment.                *)
(***************************************************************************)
EXTENDS Naturals, Sequences

CONSTANT EventCap    \* capacity of the channel the Timeout is sent on

VARIABLES
    timer,           \* where the task is: see TimerStates
    cmds,            \* cmd_rx: commands not yet taken
    events           \* the state machine's event channel, shared with others

TimerStates == {"idle", "running", "deaf", "firing"}
Commands    == {"InitTimer", "StopTimer"}

Asleep == timer \in {"running", "deaf"}

\* Outside a sleep: InitTimer starts one, StopTimer is ignored.
TimerTakesCommand ==
    /\ timer = "idle"
    /\ cmds # <<>>
    /\ timer' = IF Head(cmds) = "InitTimer" THEN "running" ELSE "idle"
    /\ cmds' = Tail(cmds)
    /\ UNCHANGED events

\* Inside a sleep: StopTimer cancels it, an InitTimer is swallowed.
TimerTakesCommandAsleep ==
    /\ timer = "running"
    /\ cmds # <<>>
    /\ timer' = IF Head(cmds) = "StopTimer" THEN "idle" ELSE "deaf"
    /\ cmds' = Tail(cmds)
    /\ UNCHANGED events

\* The sleep ends; the task then waits for room to send its Timeout.
TimerExpires ==
    /\ Asleep
    /\ timer' = "firing"
    /\ UNCHANGED <<cmds, events>>

\* Variant: a periodic timer, which sleeps again after its Timeout.
TimerSendsTimeout_Periodic ==
    /\ timer = "firing"
    /\ Len(events) < EventCap
    /\ events' = Append(events, "Timeout")
    /\ timer' = "running"
    /\ UNCHANGED cmds

TimerSendsTimeout ==
    /\ timer = "firing"
    /\ Len(events) < EventCap
    /\ events' = Append(events, "Timeout")
    /\ timer' = "idle"
    /\ UNCHANGED cmds

TimerStep ==
    \/ TimerTakesCommand
    \/ TimerTakesCommandAsleep
    \/ TimerExpires
    \/ TimerSendsTimeout
=============================================================================
