--------------------------- MODULE BalanceProtocol --------------------------
(***************************************************************************)
(* What the edge state machine promises, seen without tasks, channels,     *)
(* timers or votes: the gateway goes through the stages of the balancing   *)
(* protocol in order, skipping none and never turning back; it may give up *)
(* in a handshake (or before the first one) and then spends one stage in   *)
(* safe mode; it ends in normal operation whatever the hubs do; and the    *)
(* hubs are told of each stage in the same order, never ahead of it.       *)
(***************************************************************************)
EXTENDS Naturals, Sequences

VARIABLES
    stage,    \* where the gateway is
    heard     \* the last stage the hubs were told of ("nothing" at first)

Path  == <<"nothing", "in", "alert", "data", "monitor", "out", "normal">>
Place == [s \in {"start", "init", "safe"} \cup {Path[i] : i \in DOMAIN Path} |->
            IF s \in {"start", "init"} THEN 1
            ELSE IF s = "safe" THEN 7
            ELSE CHOOSE i \in DOMAIN Path : Path[i] = s]

Init == stage = "start" /\ heard = "nothing"

Start ==
    /\ stage = "start"
    /\ stage' = "init"
    /\ UNCHANGED heard

Advance ==
    /\ stage \notin {"start", "safe", "normal"}
    /\ stage' = Path[Place[stage] + 1]
    /\ UNCHANGED heard

GiveUp ==
    /\ stage \in {"init", "in", "out"}
    /\ stage' = "safe"
    /\ UNCHANGED heard

Recover ==
    /\ stage = "safe"
    /\ stage' = "normal"
    /\ UNCHANGED heard

Tell ==
    /\ \E i \in 1..6 :
         /\ Place[heard] < i /\ i <= Place[stage]
         /\ heard' = Path[i]
    /\ UNCHANGED stage

Move == Start \/ Advance \/ GiveUp \/ Recover
Next == Move \/ Tell

Spec     == Init /\ [][Next]_<<stage, heard>>
LiveSpec == Spec /\ WF_<<stage, heard>>(Move)
=============================================================================
