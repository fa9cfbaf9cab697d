----------------------------- MODULE LinkMonitor ----------------------------
(***************************************************************************)
(* What the heartbeat service promises about the link to the server, seen  *)
(* without tasks, channels or timers: the link is judged by heartbeats and *)
(* by silent periods, and                                                  *)
(*   - it is up only from a heartbeat that follows another one with no     *)
(*     silent period between them (or from the first one ever), and        *)
(*   - it is down as soon as two silent periods follow each other.         *)
(***************************************************************************)
EXTENDS Naturals

VARIABLES
    status,    \* "Connected" or "Disconnected"
    missed     \* silent periods since the last heartbeat, at most two

Init == status = "Disconnected" /\ missed = 0

Beat ==
    /\ missed' = 0
    /\ \/ status' = status
       \/ missed = 0 /\ status' = "Connected"

Miss ==
    /\ missed < 2
    /\ missed' = missed + 1
    /\ status' = IF missed' = 2 THEN "Disconnected" ELSE status

Spec == Init /\ [][Beat \/ Miss]_<<status, missed>>

=============================================================================
