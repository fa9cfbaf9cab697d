--------------------------- MODULE HeartbeatProofs --------------------------
(***************************************************************************)
(* Proofs about the heartbeat service, for every channel capacity and      *)
(* every bound on the load.                                                *)
(***************************************************************************)
EXTENDS Heartbeat, SequenceTheorems, FiniteSetTheorems, TLAPS

FsmValues == [state : States, oldStatus : Statuses, status : Statuses]

\* A transition of the state machine to a well-formed value, with well-formed
\* actions, keeps every type.
LEMMA TransitionTyped ==
  ASSUME TypeOK, NEW e \in Events, NEW s \in States, NEW next \in FsmValues,
         NEW acts \in Seq(Actions), Transition(e, s, next, acts)
  PROVE  TypeOK'
<1> USE CapAssumption DEF TypeOK
<1>1. compute_on_entry(s, next.state) \in Seq(Actions)
  <2>1. OnEntry(next.state) \in Actions
    BY DEF Actions, FsmValues
  <2>2. QED
    BY <2>1 DEF compute_on_entry
<1>2. acts \o compute_on_entry(s, next.state) \in Seq(Actions)
  BY <1>1
<1>3. fsmOut' \in Seq(Seq(Actions)) /\ Len(fsmOut') <= 1
  BY <1>2 DEF Transition
<1>4. fsm' \in FsmValues
  BY DEF Transition
<1>5. events' \in Seq(Events) /\ Len(events') <= Cap
  BY DEF Transition, Takes
<1>6. UNCHANGED <<server, taskVars, actions, timerVars>>
  BY DEF Transition
<1>7. QED
  BY <1>3, <1>4, <1>5, <1>6 DEF FsmValues, taskVars, timerVars

\* Every variable keeps its type, and no channel exceeds its capacity.
THEOREM TypeCorrect == Spec => []TypeOK
<1> USE CapAssumption, BurstAssumption
         DEF Events, W!Commands, W!TimerStates
<1>1. Init => TypeOK
  <2> SUFFICES ASSUME Init PROVE TypeOK
    OBVIOUS
  <2>1. fsm \in [state : States, oldStatus : Statuses, status : Statuses]
    BY DEF Init, States, Statuses
  <2>2. inbox \in 0..Cap
    BY DEF Init
  <2>3. QED
    BY <2>1, <2>2 DEF Init, TypeOK, Statuses
<1>2. TypeOK /\ [Next]_vars => TypeOK'
  <2> SUFFICES ASSUME TypeOK, [Next]_vars PROVE TypeOK'
    OBVIOUS
  <2> USE DEF TypeOK
  <2>1. CASE ServerTurns
    BY <2>1 DEF ServerTurns, taskVars, fsmVars, timerVars
  <2>2. CASE ServiceTakesMessage
    BY <2>2 DEF ServiceTakesMessage, fsmVars, timerVars
  <2>3. CASE ServiceSendsMessage
    BY <2>3 DEF ServiceSendsMessage, fsmVars, timerVars
  <2>4. CASE ServiceForwardsNotice
    BY <2>4 DEF ServiceForwardsNotice, fsmVars, timerVars
  <2>5. CASE HeartbeatTakesMessage
    BY <2>5 DEF HeartbeatTakesMessage, fsmVars, timerVars
  <2>6. CASE HeartbeatSendsEvent
    <3>1. relay \in Events
      BY <2>6 DEF HeartbeatSendsEvent
    <3>2. events' \in Seq(Events) /\ Len(events') <= Cap
      BY <2>6, <3>1 DEF HeartbeatSendsEvent
    <3>3. QED
      BY <2>6, <3>2 DEF HeartbeatSendsEvent, fsmVars, timerVars
  <2>7. CASE HeartbeatTakesActions
    BY <2>7 DEF HeartbeatTakesActions, timerVars
  <2>8. CASE DoOnEntry
    <3>1. cmds' \in Seq(W!Commands) /\ Len(cmds') <= Cap
      <4>1. CASE Head(todo).to \in Waiting
        <5>1. Len(cmds) < Cap /\ cmds' = Append(cmds, "InitTimer")
          BY <2>8, <4>1 DEF DoOnEntry, Command
        <5>2. QED
          BY <5>1
      <4>2. CASE Head(todo).to \notin Waiting
        BY <2>8, <4>2 DEF DoOnEntry
      <4>3. QED
        BY <4>1, <4>2
    <3>2. todo' \in Seq(Actions)
      BY <2>8 DEF DoOnEntry
    <3>3. QED
      BY <2>8, <3>1, <3>2 DEF DoOnEntry, fsmVars
  <2>9. CASE DoSendStatus
    <3>1. Head(todo) \in Actions /\ Tail(todo) \in Seq(Actions)
      BY <2>9 DEF DoSendStatus
    <3>2. Head(todo).to \in Statuses
      <4>1. Head(todo).kind = "SendStatusConditional"
        BY <2>9 DEF DoSendStatus
      <4>2. Head(todo) # StopTimer /\ \A s \in States : Head(todo) # OnEntry(s)
        BY <4>1 DEF StopTimer, OnEntry
      <4>3. QED
        BY <3>1, <4>2 DEF Actions
    <3>3. notices' \in Seq(Statuses) /\ Len(notices') <= Cap
      <4>1. CASE Head(todo).from # Head(todo).to
        <5>1. Len(notices) < Cap /\ notices' = Append(notices, Head(todo).to)
          BY <2>9, <4>1 DEF DoSendStatus
        <5>2. QED
          BY <5>1, <3>2
      <4>2. CASE Head(todo).from = Head(todo).to
        <5>1. notices' = notices
          BY <2>9, <4>2 DEF DoSendStatus
        <5>2. QED
          BY <5>1
      <4>3. QED
        BY <4>1, <4>2
    <3>4. QED
      <4>1. todo' \in Seq(Actions)
        BY <2>9, <3>1 DEF DoSendStatus
      <4>2. UNCHANGED <<server, service, inbox, relay, told, events,
                        fsm, fsmOut, actions, timer, cmds>>
        <5>1. UNCHANGED <<server, service, inbox, relay, told, events>>
              /\ UNCHANGED fsmVars /\ UNCHANGED timerVars
          BY <2>9 DEF DoSendStatus
        <5>2. QED
          BY <5>1 DEF fsmVars, timerVars
      <4>3. QED
        BY <3>3, <4>1, <4>2
  <2>10. CASE DoStopTimer
    BY <2>10 DEF DoStopTimer, Command, fsmVars
  <2>11. CASE step_inner
    <3>1. /\ \A s \in States : In(s) \in FsmValues
          /\ \A s \in States, t \in Statuses : InWith(s, t) \in FsmValues
      BY DEF In, InWith, FsmValues
    <3>2. /\ <<>> \in Seq(Actions)
          /\ <<StopTimer>> \in Seq(Actions)
          /\ \A t \in Statuses :
               /\ <<SendStatusConditional(fsm.oldStatus, t)>> \in Seq(Actions)
               /\ <<SendStatusConditional(fsm.oldStatus, t), StopTimer>>
                    \in Seq(Actions)
      BY DEF Actions, SendStatusConditional
    <3>3. {"StartingWait", "ItsAlive", "NotHeartbeatYet", "DeadServer"} = States
          /\ {"Connected", "Disconnected"} = Statuses
      BY DEF States, Statuses
    <3>4. CASE InvalidTransition
      BY <3>4 DEF InvalidTransition, Takes, taskVars, fsmVars, timerVars
    <3>5. CASE StartingWaitHeartbeat
      BY <3>5, <3>1, <3>2, <3>3, TransitionTyped DEF StartingWaitHeartbeat
    <3>6. CASE StartingWaitTimeout
      BY <3>6, <3>1, <3>2, <3>3, TransitionTyped DEF StartingWaitTimeout
    <3>7. CASE ItsAliveHeartbeat
      BY <3>7, <3>1, <3>2, <3>3, TransitionTyped DEF ItsAliveHeartbeat
    <3>8. CASE ItsAliveTimeout
      BY <3>8, <3>1, <3>2, <3>3, TransitionTyped DEF ItsAliveTimeout
    <3>9. CASE NotHeartbeatYetHeartbeat
      BY <3>9, <3>1, <3>2, <3>3, TransitionTyped DEF NotHeartbeatYetHeartbeat
    <3>10. CASE NotHeartbeatYetTimeout
      BY <3>10, <3>1, <3>2, <3>3, TransitionTyped DEF NotHeartbeatYetTimeout
    <3>11. CASE DeadServerHeartbeat
      BY <3>11, <3>1, <3>2, <3>3, TransitionTyped DEF DeadServerHeartbeat
    <3>12. QED
      BY <2>11, <3>4, <3>5, <3>6, <3>7, <3>8, <3>9, <3>10, <3>11 DEF step_inner
  <2>12. CASE FsmSendsActions
    BY <2>12 DEF FsmSendsActions, taskVars, timerVars
  <2>13. CASE watchdog_timer_for_heartbeat
    <3> USE DEF taskVars, fsmVars
    <3>1. UNCHANGED <<server, taskVars, fsmVars>>
      BY <2>13 DEF watchdog_timer_for_heartbeat
    <3>2. CASE W!TimerTakesCommand
      BY <3>1, <3>2 DEF W!TimerTakesCommand
    <3>3. CASE W!TimerTakesCommandAsleep
      BY <3>1, <3>3 DEF W!TimerTakesCommandAsleep
    <3>4. CASE W!TimerExpires
      BY <3>1, <3>4 DEF W!TimerExpires
    <3>5. CASE W!TimerSendsTimeout
      BY <3>1, <3>5 DEF W!TimerSendsTimeout
    <3>6. QED
      BY <2>13, <3>2, <3>3, <3>4, <3>5
         DEF watchdog_timer_for_heartbeat, W!TimerStep
  <2>14. CASE UNCHANGED vars
    BY <2>14 DEF vars, taskVars, fsmVars, timerVars
  <2>15. QED
    BY <2>1, <2>2, <2>3, <2>4, <2>5, <2>6, <2>7, <2>8, <2>9, <2>10, <2>11,
       <2>12, <2>13, <2>14 DEF Next
<1>3. QED
  BY <1>1, <1>2, PTL DEF Spec
-----------------------------------------------------------------------------
(* Where the elements of a queue are after a send and after a receive.     *)

LEMMA SendKeepsElements ==
  ASSUME NEW S, NEW q \in Seq(S), NEW x \in S
  PROVE  /\ \A i \in DOMAIN q : i \in DOMAIN Append(q, x) /\ Append(q, x)[i] = q[i]
         /\ Len(q) + 1 \in DOMAIN Append(q, x) /\ Append(q, x)[Len(q) + 1] = x
         /\ DOMAIN Append(q, x) = DOMAIN q \cup {Len(q) + 1}
         /\ DOMAIN q = 1..Len(q) /\ Len(Append(q, x)) = Len(q) + 1
OBVIOUS

LEMMA CommandSent ==
  ASSUME cmds \in Seq(W!Commands), NEW c \in W!Commands, cmds' = Append(cmds, c)
  PROVE  /\ \A i \in DOMAIN cmds : i \in DOMAIN cmds' /\ cmds'[i] = cmds[i]
         /\ Len(cmds) + 1 \in DOMAIN cmds' /\ cmds'[Len(cmds) + 1] = c
         /\ DOMAIN cmds' = DOMAIN cmds \cup {Len(cmds) + 1}
         /\ DOMAIN cmds = 1..Len(cmds) /\ Len(cmds') = Len(cmds) + 1
BY SendKeepsElements

LEMMA ReceiveShiftsElements ==
  ASSUME NEW S, NEW q \in Seq(S), q # <<>>
  PROVE  /\ 1 \in DOMAIN q /\ Head(q) = q[1]
         /\ \A i \in DOMAIN q :
              i = 1 \/ (i - 1 \in DOMAIN Tail(q) /\ Tail(q)[i - 1] = q[i])
         /\ \A i \in DOMAIN Tail(q) : i + 1 \in DOMAIN q /\ Tail(q)[i] = q[i + 1]
         /\ Tail(q) \in Seq(S) /\ Len(Tail(q)) = Len(q) - 1 /\ Len(q) \in Nat \ {0}
         /\ DOMAIN q = 1..Len(q) /\ DOMAIN Tail(q) = 1..Len(Tail(q))
OBVIOUS

LEMMA OneElement ==
  ASSUME NEW S, NEW q \in Seq(S), q # <<>>, Len(q) <= 1
  PROVE  DOMAIN q = {1} /\ q[1] \in S /\ Head(q) = q[1]
<1>1. Len(q) = 1
  <2>1. 1 \in DOMAIN q /\ DOMAIN q = 1..Len(q) /\ Len(q) \in Nat
    BY ReceiveShiftsElements, LenProperties
  <2>2. QED
    BY <2>1
<1>2. DOMAIN q = 1..1
  BY <1>1, LenProperties
<1>3. QED
  BY <1>1, <1>2, ElementOfSeq

\* A transition's own actions stop the timer last, and only on the way to a
\* waiting state.
StopsLast(acts, to) ==
  \A i \in DOMAIN acts :
    acts[i].kind = "StopTimer" => i = Len(acts) /\ to \in Waiting

\* Every valid transition changes state: its vector ends with the start of the
\* next sleep unless it declares the server dead, and its stops are paired.
LEMMA VectorShape ==
  ASSUME NEW from \in States, NEW to \in States, from # to,
         NEW acts \in Seq(Actions),
         StopsLast(acts, to)
  PROVE  LET vec == acts \o compute_on_entry(from, to)
         IN  StopThenStart(vec) /\ (to \in Waiting => WillStart(vec))
<1> DEFINE vec == acts \o compute_on_entry(from, to)
<1>1. compute_on_entry(from, to) = <<OnEntry(to)>>
  BY DEF compute_on_entry
<1>2. OnEntry(to) \in Actions /\ OnEntry(to).kind = "OnEntry" /\ OnEntry(to).to = to
  BY DEF OnEntry, Actions
<1>3. /\ Len(vec) = Len(acts) + 1
      /\ vec[Len(acts) + 1] = OnEntry(to)
      /\ \A i \in 1..Len(acts) : vec[i] = acts[i]
      /\ DOMAIN vec = 1..(Len(acts) + 1)
  BY <1>1, <1>2
<1>4. StopThenStart(vec)
  <2> SUFFICES ASSUME NEW i \in DOMAIN vec, vec[i].kind = "StopTimer"
               PROVE  i < Len(vec) /\ StartsTimer(vec[i + 1])
    BY DEF StopThenStart
  <2>1. Len(acts) \in Nat /\ i \in 1..(Len(acts) + 1)
    BY <1>3
  <2>2. i # Len(acts) + 1
    BY <1>2, <1>3
  <2>3. i = Len(acts) /\ to \in Waiting
    BY <1>3, <2>1, <2>2 DEF StopsLast
  <2>4. vec[i + 1] = OnEntry(to)
    BY <1>3, <2>3
  <2>5. QED
    BY <1>2, <1>3, <2>1, <2>3, <2>4 DEF StartsTimer
<1>5. to \in Waiting => WillStart(vec)
  BY <1>2, <1>3 DEF WillStart, StartsTimer
<1>6. QED
  BY <1>4, <1>5

\* A valid transition sends a vector of that shape and touches no other queue.
LEMMA TransitionArms ==
  ASSUME TypeOK, ArmedInv,
         NEW e \in Events, NEW s \in States, NEW next \in FsmValues,
         s # next.state,
         next.state = "DeadServer" => next.status = "Disconnected",
         NEW acts \in Seq(Actions),
         StopsLast(acts, next.state),
         Transition(e, s, next, acts)
  PROVE  ArmedInv'
<1>1. PICK vec : /\ fsmOut' = <<vec>> /\ StopThenStart(vec)
                 /\ next.state \in Waiting => WillStart(vec)
  BY VectorShape DEF Transition, FsmValues
<1>2. UNCHANGED <<todo, actions, cmds, timer>> /\ fsm' = next
  BY DEF Transition, taskVars, timerVars
<1>3. StopsArePaired'
  <2>1. \A i \in DOMAIN fsmOut' : StopThenStart(fsmOut'[i])
    BY <1>1
  <2>2. QED
    BY <1>2, <2>1 DEF ArmedInv, StopsArePaired, CommandsPaired, StopThenStart,
                      StartsTimer
<1>4. DeadIsDisconnected'
  BY <1>2 DEF DeadIsDisconnected
<1>5. ArmedWhileConnected'
  <2>1. CASE next.state \in Waiting
    <3>1. 1 \in DOMAIN fsmOut' /\ WillStart(fsmOut'[1])
      BY <1>1, <2>1
    <3>2. QED
      BY <3>1 DEF ArmedWhileConnected, Armed, WillStart, StartsTimer
  <2>2. CASE next.state = "DeadServer"
    BY <1>2, <2>2 DEF ArmedWhileConnected
  <2>3. QED
    BY <2>1, <2>2 DEF FsmValues, Waiting
<1>6. QED
  BY <1>3, <1>4, <1>5 DEF ArmedInv

\* What a step that leaves the machine and its vectors alone has to show: the
\* commands stay paired with the vector being executed, and an armed pipeline
\* stays armed.
LEMMA StepKeepsArmed ==
  ASSUME ArmedInv, UNCHANGED fsm, StopsArePaired', Armed => Armed'
  PROVE  ArmedInv'
BY DEF ArmedInv, DeadIsDisconnected, ArmedWhileConnected

\* Every transition of the state machine, valid or not, keeps the invariant.
LEMMA TransitionsKeepArmed ==
  ASSUME TypeOK, ArmedInv, step_inner
  PROVE  ArmedInv'
<1>0. fsm \in FsmValues
  BY DEF TypeOK, FsmValues
<1>1. \A s \in States : In(s) \in FsmValues /\ In(s).state = s /\ In(s).status = fsm.status
  BY <1>0 DEF In, FsmValues
<1>2. \A s \in States, t \in Statuses :
        InWith(s, t) \in FsmValues /\ InWith(s, t).state = s /\ InWith(s, t).status = t
  BY DEF InWith, FsmValues
<1>3. /\ <<>> \in Seq(Actions) /\ \A s \in States : StopsLast(<<>>, s)
      /\ <<StopTimer>> \in Seq(Actions) /\ \A s \in Waiting : StopsLast(<<StopTimer>>, s)
  BY DEF Actions, StopsLast
<1>4. ASSUME NEW t \in Statuses
      PROVE  LET a == SendStatusConditional(fsm.oldStatus, t)
             IN  /\ <<a>> \in Seq(Actions)
                 /\ \A s \in States : StopsLast(<<a>>, s)
                 /\ <<a, StopTimer>> \in Seq(Actions)
                 /\ \A s \in Waiting : StopsLast(<<a, StopTimer>>, s)
  <2> DEFINE a == SendStatusConditional(fsm.oldStatus, t)
  <2>1. a \in Actions /\ a.kind = "SendStatusConditional" /\ StopTimer \in Actions
    BY <1>0 DEF Actions, SendStatusConditional, FsmValues
  <2>2. \A s \in States : StopsLast(<<a>>, s)
    BY <2>1 DEF StopsLast
  <2>3. \A s \in Waiting : StopsLast(<<a, StopTimer>>, s)
    BY <2>1 DEF StopsLast
  <2>4. QED
    BY <2>1, <2>2, <2>3
<1>5. /\ {"StartingWait", "ItsAlive", "NotHeartbeatYet", "DeadServer"} = States
      /\ {"StartingWait", "ItsAlive", "NotHeartbeatYet"} = Waiting
      /\ {"Connected", "Disconnected"} = Statuses
  BY DEF States, Waiting, Statuses
<1>6. QED
  <2>1. CASE StartingWaitHeartbeat
    <3>1. Transition("Heartbeat", "StartingWait", InWith("ItsAlive", "Connected"),
                     <<SendStatusConditional(fsm.oldStatus, "Connected"), StopTimer>>)
      BY <2>1 DEF StartingWaitHeartbeat
    <3>2. LET next == InWith("ItsAlive", "Connected")
          IN  next \in FsmValues /\ next.state = "ItsAlive" /\ "ItsAlive" \in Waiting
      BY <1>2, <1>5
    <3>3. LET acts == <<SendStatusConditional(fsm.oldStatus, "Connected"), StopTimer>>
          IN  acts \in Seq(Actions) /\ StopsLast(acts, "ItsAlive")
      BY <1>4, <1>5
    <3>4. QED
      BY <3>1, <3>2, <3>3, <1>5, TransitionArms DEF Events
  <2>2. CASE StartingWaitTimeout
    <3>1. Transition("Timeout", "StartingWait", In("NotHeartbeatYet"), <<>>)
      BY <2>2 DEF StartingWaitTimeout
    <3>2. QED
      BY <3>1, <1>1, <1>3, <1>5, TransitionArms DEF Events
  <2>3. CASE ItsAliveHeartbeat
    BY <2>3, <1>1, <1>2, <1>3, <1>4, <1>5, TransitionArms DEF ItsAliveHeartbeat, Events
  <2>4. CASE ItsAliveTimeout
    <3>1. Transition("Timeout", "ItsAlive", In("NotHeartbeatYet"), <<>>)
      BY <2>4 DEF ItsAliveTimeout
    <3>2. QED
      BY <3>1, <1>1, <1>3, <1>5, TransitionArms DEF Events
  <2>5. CASE NotHeartbeatYetHeartbeat
    BY <2>5, <1>1, <1>2, <1>3, <1>4, <1>5, TransitionArms DEF NotHeartbeatYetHeartbeat, Events
  <2>6. CASE NotHeartbeatYetTimeout
    <3>1. Transition("Timeout", "NotHeartbeatYet", InWith("DeadServer", "Disconnected"),
                     <<SendStatusConditional(fsm.oldStatus, "Disconnected")>>)
      BY <2>6 DEF NotHeartbeatYetTimeout
    <3>2. LET next == InWith("DeadServer", "Disconnected")
          IN  next \in FsmValues /\ next.state = "DeadServer" /\ next.status = "Disconnected"
      BY <1>2, <1>5
    <3>3. LET acts == <<SendStatusConditional(fsm.oldStatus, "Disconnected")>>
          IN  acts \in Seq(Actions) /\ StopsLast(acts, "DeadServer")
      BY <1>4, <1>5
    <3>4. QED
      BY <3>1, <3>2, <3>3, <1>5, TransitionArms DEF Events
  <2>7. CASE DeadServerHeartbeat
    <3>1. Transition("Heartbeat", "DeadServer", In("StartingWait"), <<>>)
      BY <2>7 DEF DeadServerHeartbeat
    <3>2. In("StartingWait") \in FsmValues /\ In("StartingWait").state = "StartingWait"
      BY <1>1, <1>5
    <3>3. QED
      BY <3>1, <3>2, <1>3, <1>5, TransitionArms DEF Events
  <2>8. CASE InvalidTransition
    <3>1. /\ fsm.state = "DeadServer"
          /\ UNCHANGED <<fsm, fsmOut, actions, todo, timer, cmds>>
      BY <2>8 DEF InvalidTransition, taskVars, fsmVars, timerVars
    <3>2. StopsArePaired'
      BY <3>1 DEF ArmedInv, StopsArePaired, CommandsPaired, StopThenStart, StartsTimer
    <3>3. QED
      BY <3>1, <3>2 DEF ArmedInv, DeadIsDisconnected, ArmedWhileConnected, Statuses
  <2>9. QED
    BY <2>1, <2>2, <2>3, <2>4, <2>5, <2>6, <2>7, <2>8 DEF step_inner

\* The invariant survives every step.
LEMMA ArmedStep ==
  ASSUME TypeOK, ArmedInv, [Next]_vars
  PROVE  ArmedInv'
<1> USE DEF TypeOK
<1>0. CASE UNCHANGED <<fsm, fsmOut, actions, todo, timer, cmds>>
           /\ ((\E i \in DOMAIN events : events[i] = "Timeout")
               => (\E i \in DOMAIN events' : events'[i] = "Timeout"))
  <2>1. StopsArePaired'
    BY <1>0 DEF ArmedInv, StopsArePaired, CommandsPaired, StopThenStart, StartsTimer
  <2>2. Armed => Armed'
    BY <1>0 DEF Armed, WillStart, StartsTimer
  <2>3. QED
    BY <1>0, <2>1, <2>2, StepKeepsArmed
<1>1. CASE ServerTurns
  BY <1>0, <1>1 DEF ServerTurns, taskVars, fsmVars, timerVars
<1>2. CASE ServiceTakesMessage
  BY <1>0, <1>2 DEF ServiceTakesMessage, fsmVars, timerVars
<1>3. CASE ServiceSendsMessage
  BY <1>0, <1>3 DEF ServiceSendsMessage, fsmVars, timerVars
<1>4. CASE ServiceForwardsNotice
  BY <1>0, <1>4 DEF ServiceForwardsNotice, fsmVars, timerVars
<1>5. CASE HeartbeatTakesMessage
  BY <1>0, <1>5 DEF HeartbeatTakesMessage, fsmVars, timerVars
<1>6. CASE HeartbeatSendsEvent
  <2>1. relay \in Events /\ events' = Append(events, relay)
    BY <1>6 DEF HeartbeatSendsEvent, Events
  <2>2. \A i \in DOMAIN events : i \in DOMAIN events' /\ events'[i] = events[i]
    BY <2>1, SendKeepsElements
  <2>3. UNCHANGED <<fsm, fsmOut, actions, todo, timer, cmds>>
    BY <1>6 DEF HeartbeatSendsEvent, fsmVars, timerVars
  <2>4. QED
    BY <1>0, <2>2, <2>3
<1>7. CASE HeartbeatTakesActions
  <2> USE <1>7 DEF HeartbeatTakesActions, AtSelect, timerVars
  <2>1. todo = <<>> /\ actions # <<>> /\ todo' = Head(actions) /\ actions' = Tail(actions)
    OBVIOUS
  <2>2. UNCHANGED <<fsm, fsmOut, events, timer, cmds>>
    OBVIOUS
  <2>3. /\ 1 \in DOMAIN actions /\ todo' = actions[1]
        /\ \A i \in DOMAIN actions :
             i = 1 \/ (i - 1 \in DOMAIN actions' /\ actions'[i - 1] = actions[i])
        /\ \A i \in DOMAIN actions' : i + 1 \in DOMAIN actions /\ actions'[i] = actions[i + 1]
    BY <2>1, ReceiveShiftsElements
  <2>4. StopsArePaired'
    <3>1. /\ \A i \in DOMAIN actions : StopThenStart(actions[i])
          /\ \A i \in DOMAIN fsmOut : StopThenStart(fsmOut[i])
          /\ \A i \in DOMAIN cmds :
               cmds[i] = "StopTimer" => i < Len(cmds) /\ cmds[i + 1] = "InitTimer"
      BY <2>1 DEF ArmedInv, StopsArePaired, CommandsPaired
    <3>2. StopThenStart(todo') /\ \A i \in DOMAIN actions' : StopThenStart(actions'[i])
      BY <2>3, <3>1
    <3>3. StopThenStart(todo)' /\ (\A i \in DOMAIN actions : StopThenStart(actions[i]))'
      BY <3>2 DEF StopThenStart, StartsTimer
    <3>4. (\A i \in DOMAIN fsmOut : StopThenStart(fsmOut[i]))' /\ CommandsPaired'
      BY <2>2, <3>1 DEF CommandsPaired, StopThenStart, StartsTimer
    <3>5. QED
      BY <3>3, <3>4 DEF StopsArePaired
  <2>5. Armed => Armed'
    <3>1. ASSUME NEW i \in DOMAIN actions, WillStart(actions[i])
          PROVE  WillStart(todo') \/ \E j \in DOMAIN actions' : WillStart(actions'[j])
      BY <2>3, <3>1
    <3>2. ~ WillStart(todo)
      BY <2>1 DEF WillStart
    <3>3. QED
      BY <2>2, <3>1, <3>2 DEF Armed, WillStart, StartsTimer
  <2>6. QED
    BY <2>2, <2>4, <2>5, StepKeepsArmed
<1>8. CASE DoOnEntry
  <2>1. /\ todo # <<>> /\ Head(todo).kind = "OnEntry" /\ todo' = Tail(todo)
        /\ UNCHANGED <<fsm, fsmOut, actions, events, timer>>
    BY <1>8 DEF DoOnEntry, fsmVars
  <2>2. /\ 1 \in DOMAIN todo /\ Head(todo) = todo[1]
        /\ \A i \in DOMAIN todo :
             i = 1 \/ (i - 1 \in DOMAIN todo' /\ todo'[i - 1] = todo[i])
        /\ \A i \in DOMAIN todo' : i + 1 \in DOMAIN todo /\ todo'[i] = todo[i + 1]
        /\ Len(todo') = Len(todo) - 1
    BY <2>1, ReceiveShiftsElements
  <2>3. StopThenStart(todo')
    BY <2>1, <2>2 DEF ArmedInv, StopsArePaired, StopThenStart
  <2>4. CASE Head(todo).to \in Waiting
    <3>1. cmds' = Append(cmds, "InitTimer")
      BY <1>8, <2>4 DEF DoOnEntry, Command
    <3>2. /\ \A i \in DOMAIN cmds : i \in DOMAIN cmds' /\ cmds'[i] = cmds[i]
          /\ Len(cmds) + 1 \in DOMAIN cmds' /\ cmds'[Len(cmds) + 1] = "InitTimer"
          /\ DOMAIN cmds' = DOMAIN cmds \cup {Len(cmds) + 1}
          /\ DOMAIN cmds = 1..Len(cmds) /\ Len(cmds') = Len(cmds) + 1
      BY <3>1, CommandSent DEF W!Commands
    <3>3. CommandsPaired'
      BY <3>2 DEF ArmedInv, StopsArePaired, CommandsPaired
    <3>4. StopsArePaired'
      BY <2>1, <2>3, <3>3 DEF ArmedInv, StopsArePaired
    <3>5. Armed'
      BY <3>2 DEF Armed
    <3>6. QED
      BY <2>1, <3>4, <3>5, StepKeepsArmed
  <2>5. CASE Head(todo).to \notin Waiting
    <3>1. cmds' = cmds
      BY <1>8, <2>5 DEF DoOnEntry
    <3>2. ~ StartsTimer(todo[1])
      BY <2>2, <2>5 DEF StartsTimer
    <3>3. StopsArePaired'
      BY <2>1, <2>2, <2>3, <3>1, <3>2 DEF ArmedInv, StopsArePaired, CommandsPaired
    <3>4. WillStart(todo) => WillStart(todo')
      BY <2>2, <3>2 DEF WillStart
    <3>5. Armed => Armed'
      BY <2>1, <3>1, <3>4 DEF Armed, WillStart, StartsTimer
    <3>6. QED
      BY <2>1, <3>3, <3>5, StepKeepsArmed
  <2>6. QED
    BY <2>4, <2>5
<1>9. CASE DoSendStatus
  <2>1. /\ todo # <<>> /\ Head(todo).kind = "SendStatusConditional"
        /\ todo' = Tail(todo)
        /\ UNCHANGED <<fsm, fsmOut, actions, events, timer, cmds>>
    BY <1>9 DEF DoSendStatus, fsmVars, timerVars
  <2>2. /\ 1 \in DOMAIN todo /\ Head(todo) = todo[1]
        /\ \A i \in DOMAIN todo :
             i = 1 \/ (i - 1 \in DOMAIN todo' /\ todo'[i - 1] = todo[i])
        /\ \A i \in DOMAIN todo' : i + 1 \in DOMAIN todo /\ todo'[i] = todo[i + 1]
        /\ Len(todo') = Len(todo) - 1
    BY <2>1, ReceiveShiftsElements
  <2>3. StopThenStart(todo')
    BY <2>1, <2>2 DEF ArmedInv, StopsArePaired, StopThenStart
  <2>4. ~ StartsTimer(todo[1])
    BY <2>1, <2>2 DEF StartsTimer
  <2>5. StopsArePaired'
    BY <2>1, <2>2, <2>3, <2>4 DEF ArmedInv, StopsArePaired, CommandsPaired
  <2>6. WillStart(todo) => WillStart(todo')
    BY <2>2, <2>4 DEF WillStart
  <2>7. Armed => Armed'
    BY <2>1, <2>6 DEF Armed, WillStart, StartsTimer
  <2>8. QED
    BY <2>1, <2>5, <2>7, StepKeepsArmed
<1>10. CASE DoStopTimer
  <2>1. /\ todo # <<>> /\ Head(todo).kind = "StopTimer" /\ todo' = Tail(todo)
        /\ cmds' = Append(cmds, "StopTimer")
        /\ UNCHANGED <<fsm, fsmOut, actions, events, timer>>
    BY <1>10 DEF DoStopTimer, Command, fsmVars
  <2>2. /\ 1 \in DOMAIN todo /\ Head(todo) = todo[1]
        /\ \A i \in DOMAIN todo' : i + 1 \in DOMAIN todo /\ todo'[i] = todo[i + 1]
        /\ Len(todo') = Len(todo) - 1
    BY <2>1, ReceiveShiftsElements
  <2>3. StopThenStart(todo')
    BY <2>1, <2>2 DEF ArmedInv, StopsArePaired, StopThenStart
  <2>4. 1 < Len(todo) /\ StartsTimer(todo[1 + 1])
    <3>1. todo[1].kind = "StopTimer" /\ StopThenStart(todo)
      BY <2>1, <2>2 DEF ArmedInv, StopsArePaired
    <3>2. QED
      BY <2>2, <3>1 DEF StopThenStart
  <2>5. todo' # <<>> /\ 1 \in DOMAIN todo' /\ Head(todo') = todo'[1] /\ todo'[1] = todo[1 + 1]
    <3>1. todo' \in Seq(Actions) /\ Len(todo') \in Nat \ {0}
      <4>1. todo' \in Seq(Actions) /\ Len(todo) \in Nat
        BY <2>1, ReceiveShiftsElements
      <4>2. Len(todo') = Len(todo) - 1 /\ 1 < Len(todo)
        BY <2>2, <2>4
      <4> HIDE DEF TypeOK
      <4>3. QED
        BY <4>1, <4>2
    <3>2. 1 \in DOMAIN todo' /\ todo' # <<>>
      BY <3>1
    <3>3. Head(todo') = todo'[1]
      BY <3>1, <3>2, ReceiveShiftsElements
    <3>4. QED
      BY <2>2, <3>2, <3>3
  <2>6. /\ \A i \in DOMAIN cmds : i \in DOMAIN cmds' /\ cmds'[i] = cmds[i]
        /\ Len(cmds) + 1 \in DOMAIN cmds' /\ cmds'[Len(cmds) + 1] = "StopTimer"
        /\ DOMAIN cmds' = DOMAIN cmds \cup {Len(cmds) + 1}
        /\ DOMAIN cmds = 1..Len(cmds) /\ Len(cmds') = Len(cmds) + 1
    <3>1. cmds \in Seq(W!Commands) /\ "StopTimer" \in W!Commands
      BY DEF W!Commands
    <3>2. QED
      BY <2>1, <3>1, CommandSent
  <2>7. \A i \in DOMAIN cmds : cmds[i] = "StopTimer" =>
            i < Len(cmds) /\ cmds[i + 1] = "InitTimer"
    <3>1. ~ StartsTimer(Head(todo))
      BY <2>1 DEF StartsTimer
    <3>2. QED
      BY <3>1 DEF ArmedInv, StopsArePaired, CommandsPaired
  <2>8. CommandsPaired'
    BY <2>4, <2>5, <2>6, <2>7 DEF CommandsPaired, StartsTimer
  <2>9. StopsArePaired'
    BY <2>1, <2>3, <2>8 DEF ArmedInv, StopsArePaired
  <2>10. Armed'
    BY <2>4, <2>5 DEF Armed, WillStart, StartsTimer
  <2>11. QED
    BY <2>1, <2>9, <2>10, StepKeepsArmed
<1>11. CASE step_inner
  BY <1>11, TransitionsKeepArmed
<1>12. CASE FsmSendsActions
  <2> USE <1>12 DEF FsmSendsActions, taskVars, timerVars
  <2>1. /\ DOMAIN fsmOut = {1} /\ fsmOut[1] \in Seq(Actions)
        /\ actions' = Append(actions, fsmOut[1]) /\ fsmOut' = <<>>
    <3>1. fsmOut # <<>> /\ fsmOut \in Seq(Seq(Actions)) /\ Len(fsmOut) <= 1
      OBVIOUS
    <3>2. DOMAIN fsmOut = {1} /\ fsmOut[1] \in Seq(Actions) /\ Head(fsmOut) = fsmOut[1]
      BY <3>1, OneElement
    <3>3. QED
      BY <3>2
  <2>2. UNCHANGED <<fsm, todo, events, timer, cmds>>
    OBVIOUS
  <2>3. /\ \A i \in DOMAIN actions : i \in DOMAIN actions' /\ actions'[i] = actions[i]
        /\ Len(actions) + 1 \in DOMAIN actions' /\ actions'[Len(actions) + 1] = fsmOut[1]
        /\ DOMAIN actions' = DOMAIN actions \cup {Len(actions) + 1}
    BY <2>1, SendKeepsElements
  <2>4. StopsArePaired'
    <3>1. CommandsPaired' /\ StopThenStart(todo)'
      BY <2>2 DEF ArmedInv, StopsArePaired, CommandsPaired, StopThenStart, StartsTimer
    <3>2. /\ \A i \in DOMAIN actions : StopThenStart(actions[i])
          /\ StopThenStart(fsmOut[1])
      BY <2>1 DEF ArmedInv, StopsArePaired
    <3>3. \A i \in DOMAIN actions' : StopThenStart(actions'[i])
      BY <2>3, <3>2
    <3>4. (\A i \in DOMAIN actions : StopThenStart(actions[i]))'
      BY <3>3 DEF StopThenStart, StartsTimer
    <3>5. (\A i \in DOMAIN fsmOut : StopThenStart(fsmOut[i]))'
      BY <2>1
    <3>6. QED
      BY <3>1, <3>4, <3>5 DEF StopsArePaired
  <2>5. Armed => Armed'
    BY <2>1, <2>2, <2>3 DEF Armed, WillStart, StartsTimer
  <2>6. QED
    BY <2>2, <2>4, <2>5, StepKeepsArmed
<1>13. CASE watchdog_timer_for_heartbeat
  <2>1. W!TimerStep /\ UNCHANGED <<fsm, fsmOut, actions, todo>>
    BY <1>13 DEF watchdog_timer_for_heartbeat, taskVars, fsmVars
  <2>2. ASSUME cmds # <<>>, cmds' = Tail(cmds), events' = events,
               Head(cmds) = "InitTimer" => timer' # "idle",
               Head(cmds) # "InitTimer" /\ timer # "idle" =>
                 timer' # "idle" \/ Head(cmds) = "StopTimer"
        PROVE  ArmedInv'
    <3>1. /\ 1 \in DOMAIN cmds /\ Head(cmds) = cmds[1]
          /\ \A i \in DOMAIN cmds :
               i = 1 \/ (i - 1 \in DOMAIN cmds' /\ cmds'[i - 1] = cmds[i])
          /\ \A i \in DOMAIN cmds' : i + 1 \in DOMAIN cmds /\ cmds'[i] = cmds[i + 1]
          /\ DOMAIN cmds = 1..Len(cmds) /\ DOMAIN cmds' = 1..Len(cmds')
          /\ Len(cmds') = Len(cmds) - 1 /\ Len(cmds) \in Nat
      BY <2>2, ReceiveShiftsElements
    <3>2. CommandsPaired'
      <4> SUFFICES ASSUME NEW i \in DOMAIN cmds', cmds'[i] = "StopTimer"
                   PROVE  IF i < Len(cmds') THEN cmds'[i + 1] = "InitTimer"
                                            ELSE todo # <<>> /\ StartsTimer(Head(todo))
        BY <2>1 DEF CommandsPaired, StartsTimer
      <4>1. i + 1 \in DOMAIN cmds /\ cmds[i + 1] = "StopTimer"
        BY <3>1
      <4>2. IF i + 1 < Len(cmds) THEN cmds[(i + 1) + 1] = "InitTimer"
                                 ELSE todo # <<>> /\ StartsTimer(Head(todo))
        BY <4>1 DEF ArmedInv, StopsArePaired, CommandsPaired
      <4>3. QED
        BY <3>1, <4>1, <4>2
    <3>3. StopsArePaired'
      BY <2>1, <3>2 DEF ArmedInv, StopsArePaired, StopThenStart, StartsTimer
    <3>4. CASE Head(cmds) = "InitTimer"
      BY <2>1, <2>2, <3>3, <3>4, StepKeepsArmed DEF Armed
    <3>5. CASE Head(cmds) = "StopTimer"
      <4>1. IF 1 < Len(cmds) THEN cmds'[1] = "InitTimer" /\ 1 \in DOMAIN cmds'
                             ELSE todo # <<>> /\ StartsTimer(Head(todo))
        <5>1. IF 1 < Len(cmds) THEN cmds[1 + 1] = "InitTimer"
                               ELSE todo # <<>> /\ StartsTimer(Head(todo))
          BY <3>1, <3>5 DEF ArmedInv, StopsArePaired, CommandsPaired
        <5>2. 1 < Len(cmds) => cmds'[1] = cmds[1 + 1] /\ 1 \in DOMAIN cmds'
          <6> HIDE DEF TypeOK
          <6>1. 1 < Len(cmds) => 1 \in DOMAIN cmds'
            BY <3>1
          <6>2. QED
            BY <3>1, <6>1
        <5>3. QED
          BY <5>1, <5>2
      <4>2. CASE 1 < Len(cmds)
        BY <2>1, <3>3, <4>1, <4>2, StepKeepsArmed DEF Armed
      <4>3. CASE ~ (1 < Len(cmds))
        <5>1. WillStart(todo)
          BY <4>1, <4>3, ReceiveShiftsElements DEF WillStart
        <5>2. Armed'
          BY <2>1, <5>1 DEF Armed, WillStart, StartsTimer
        <5>3. QED
          BY <2>1, <3>3, <5>2, StepKeepsArmed
      <4>4. QED
        BY <4>2, <4>3
    <3>6. QED
      <4>1. Head(cmds) \in W!Commands
        BY <2>2, HeadTailProperties
      <4>2. QED
        BY <3>4, <3>5, <4>1 DEF W!Commands
  <2>3. CASE W!TimerTakesCommand
    BY <2>1, <2>2, <2>3 DEF W!TimerTakesCommand
  <2>4. CASE W!TimerTakesCommandAsleep
    BY <2>1, <2>2, <2>4 DEF W!TimerTakesCommandAsleep
  <2>5. CASE W!TimerExpires
    <3>1. StopsArePaired' /\ Armed'
      BY <2>1, <2>5 DEF W!TimerExpires, ArmedInv, StopsArePaired, CommandsPaired,
                        StopThenStart, StartsTimer, Armed
    <3>2. QED
      BY <2>1, <3>1, StepKeepsArmed
  <2>6. CASE W!TimerSendsTimeout
    <3>1. events' = Append(events, "Timeout") /\ cmds' = cmds
      BY <2>6 DEF W!TimerSendsTimeout
    <3>2. Armed'
      <4>1. events \in Seq(Events) /\ "Timeout" \in Events
        BY DEF Events
      <4>2. Len(events) + 1 \in DOMAIN events' /\ events'[Len(events) + 1] = "Timeout"
        BY <3>1, <4>1, SendKeepsElements
      <4>3. QED
        BY <4>2 DEF Armed
    <3>3. StopsArePaired'
      BY <2>1, <3>1 DEF ArmedInv, StopsArePaired, CommandsPaired, StopThenStart, StartsTimer
    <3>4. QED
      BY <2>1, <3>2, <3>3, StepKeepsArmed
  <2>7. QED
    BY <2>1, <2>3, <2>4, <2>5, <2>6 DEF W!TimerStep
<1>14. CASE UNCHANGED vars
  BY <1>0, <1>14 DEF vars, taskVars, fsmVars, timerVars
<1> HIDE DEF TypeOK
<1>15. QED
  BY <1>1, <1>2, <1>3, <1>4, <1>5, <1>6, <1>7, <1>8, <1>9, <1>10, <1>11,
     <1>12, <1>13, <1>14 DEF Next

\* While the gateway believes the server connected, a sleep, a Timeout or the
\* start of a sleep is on its way: silence cannot go unnoticed.
THEOREM ConnectedIsArmed == Spec => []ArmedWhileConnected
<1>1. Init => ArmedInv
  BY DEF Init, ArmedInv, StopsArePaired, StopThenStart, CommandsPaired,
         DeadIsDisconnected, ArmedWhileConnected
<1>2. TypeOK /\ ArmedInv /\ [Next]_vars => ArmedInv'
  BY ArmedStep
<1>3. ArmedInv => ArmedWhileConnected
  BY DEF ArmedInv
<1>4. QED
  BY <1>1, <1>2, <1>3, TypeCorrect, PTL DEF Spec
-----------------------------------------------------------------------------
\* The state machine, with its tasks and channels, implements LinkMonitor: a
\* consumed heartbeat is a beat, a consumed Timeout is a missed period unless
\* the server is already declared dead, and no other step is visible.
LEMMA StepRefines ==
  ASSUME TypeOK, [Next]_vars
  PROVE  [Link!Beat \/ Link!Miss]_<<fsm.status, Missed>>
<1> USE DEF Missed
<1>0. fsm \in FsmValues
  BY DEF TypeOK, FsmValues
<1>1. CASE UNCHANGED fsm
  BY <1>1
<1>2. CASE step_inner
  <2>1. CASE StartingWaitHeartbeat
    BY <1>0, <2>1 DEF StartingWaitHeartbeat, Transition, InWith, Link!Beat
  <2>2. CASE StartingWaitTimeout
    BY <1>0, <2>2 DEF StartingWaitTimeout, Transition, In, FsmValues, Link!Miss
  <2>3. CASE ItsAliveHeartbeat
    BY <1>0, <2>3 DEF ItsAliveHeartbeat, Transition, In, FsmValues, Link!Beat
  <2>4. CASE ItsAliveTimeout
    BY <1>0, <2>4 DEF ItsAliveTimeout, Transition, In, FsmValues, Link!Miss
  <2>5. CASE NotHeartbeatYetHeartbeat
    BY <1>0, <2>5 DEF NotHeartbeatYetHeartbeat, Transition, In, FsmValues, Link!Beat
  <2>6. CASE NotHeartbeatYetTimeout
    BY <1>0, <2>6 DEF NotHeartbeatYetTimeout, Transition, InWith, Link!Miss
  <2>7. CASE DeadServerHeartbeat
    BY <1>0, <2>7 DEF DeadServerHeartbeat, Transition, In, FsmValues, Link!Beat
  <2>8. CASE InvalidTransition
    BY <1>1, <2>8 DEF InvalidTransition, fsmVars
  <2>9. QED
    BY <1>2, <2>1, <2>2, <2>3, <2>4, <2>5, <2>6, <2>7, <2>8 DEF step_inner
<1>3. ASSUME ~ step_inner PROVE UNCHANGED fsm
  BY <1>3 DEF Next, vars, ServerTurns, ServiceTakesMessage, ServiceSendsMessage,
      ServiceForwardsNotice, HeartbeatTakesMessage, HeartbeatSendsEvent,
      HeartbeatTakesActions, DoOnEntry, DoSendStatus, DoStopTimer,
      FsmSendsActions, watchdog_timer_for_heartbeat, fsmVars
<1>4. QED
  BY <1>1, <1>2, <1>3

\* Every behaviour of the heartbeat service keeps the promise of LinkMonitor.
THEOREM LinkRefinement == Spec => KeepsLinkPromise
<1>1. Init => Link!Init
  BY DEF Init, Link!Init, Missed
<1>2. TypeOK /\ [Next]_vars => [Link!Beat \/ Link!Miss]_<<fsm.status, Missed>>
  BY StepRefines
<1>3. QED
  BY <1>1, <1>2, TypeCorrect, PTL DEF Spec, KeepsLinkPromise, Link!Spec
-----------------------------------------------------------------------------
(* The load, and the waits it excludes.                                    *)

\* An OnEntry is the last action of its vector, so that the sleep it starts
\* takes the place of the vector in the load.
EntryLast(vec) == \A i \in DOMAIN vec : vec[i].kind = "OnEntry" => i = Len(vec)

EntriesLast ==
    /\ EntryLast(todo)
    /\ \A i \in DOMAIN actions : EntryLast(actions[i])
    /\ \A i \in DOMAIN fsmOut : EntryLast(fsmOut[i])

LoadInv == EntriesLast /\ Load <= Burst

NoEntry(acts) == \A i \in DOMAIN acts : acts[i].kind # "OnEntry"

LEMMA VectorEndsWithEntry ==
  ASSUME NEW from, NEW to \in States, NEW acts \in Seq(Actions), NoEntry(acts)
  PROVE  EntryLast(acts \o compute_on_entry(from, to))
<1> DEFINE vec == acts \o compute_on_entry(from, to)
<1>1. CASE from # to
  <2>1. compute_on_entry(from, to) = <<OnEntry(to)>>
    BY <1>1 DEF compute_on_entry
  <2>2. /\ Len(vec) = Len(acts) + 1 /\ Len(acts) \in Nat
        /\ \A i \in 1..Len(acts) : vec[i] = acts[i]
        /\ DOMAIN vec = 1..(Len(acts) + 1) /\ DOMAIN acts = 1..Len(acts)
    BY <2>1
  <2>3. \A i \in 1..(Len(acts) + 1) : i \in 1..Len(acts) \/ i = Len(acts) + 1
    BY <2>2
  <2>4. QED
    BY <2>2, <2>3 DEF EntryLast, NoEntry
<1>2. CASE from = to
  <2>1. vec = acts
    BY <1>2 DEF compute_on_entry
  <2>2. QED
    BY <2>1 DEF EntryLast, NoEntry
<1>3. QED
  BY <1>1, <1>2

\* What a step of the machine does to the load: an event is gone, and at most
\* one vector is there for it.
EventBecomesVector ==
    /\ EntriesLast'
    /\ Len(fsmOut) = 0 /\ Len(fsmOut') \in 0..1
    /\ events # <<>> /\ events' = Tail(events)
    /\ UNCHANGED <<taskVars, actions, timerVars>>

LEMMA TransitionMoves ==
  ASSUME EntriesLast, NEW e, NEW s, NEW next, next.state \in States,
         NEW acts \in Seq(Actions), NoEntry(acts), Transition(e, s, next, acts)
  PROVE  EventBecomesVector
<1>1. PICK vec : fsmOut' = <<vec>> /\ EntryLast(vec)
  BY VectorEndsWithEntry DEF Transition
<1>2. UNCHANGED <<taskVars, actions, timerVars>>
  BY DEF Transition
<1>3. EntriesLast'
  <2>1. \A i \in DOMAIN fsmOut' : EntryLast(fsmOut'[i])
    BY <1>1
  <2>2. UNCHANGED <<todo, actions>>
    BY <1>2 DEF taskVars
  <2>3. QED
    BY <2>1, <2>2 DEF EntriesLast, EntryLast
<1>4. Len(fsmOut) = 0 /\ Len(fsmOut') \in 0..1
  BY <1>1 DEF Transition, Takes
<1>5. QED
  BY <1>2, <1>3, <1>4 DEF EventBecomesVector, Transition, Takes

LEMMA MachineMoves ==
  ASSUME TypeOK, EntriesLast, step_inner
  PROVE  EventBecomesVector
<1>1. fsm \in FsmValues
  BY DEF TypeOK, FsmValues
<1>2. /\ \A s \in States : In(s).state = s
      /\ \A s \in States, t \in Statuses : InWith(s, t).state = s
  BY <1>1 DEF In, InWith, FsmValues
<1>3. /\ <<>> \in Seq(Actions) /\ NoEntry(<<>>)
      /\ <<StopTimer>> \in Seq(Actions) /\ NoEntry(<<StopTimer>>)
  BY DEF Actions, StopTimer, NoEntry
<1>4. ASSUME NEW t \in Statuses
      PROVE  LET a == SendStatusConditional(fsm.oldStatus, t)
             IN  /\ <<a>> \in Seq(Actions) /\ NoEntry(<<a>>)
                 /\ <<a, StopTimer>> \in Seq(Actions) /\ NoEntry(<<a, StopTimer>>)
  <2> DEFINE a == SendStatusConditional(fsm.oldStatus, t)
  <2>1. /\ a \in Actions /\ a.kind = "SendStatusConditional"
        /\ StopTimer \in Actions /\ StopTimer.kind = "StopTimer"
    BY <1>1 DEF Actions, SendStatusConditional, StopTimer, FsmValues
  <2> HIDE DEF a
  <2>2. NoEntry(<<a>>) /\ NoEntry(<<a, StopTimer>>)
    BY <2>1 DEF NoEntry
  <2>3. QED
    BY <2>1, <2>2 DEF a
<1>5. /\ {"StartingWait", "ItsAlive", "NotHeartbeatYet", "DeadServer"} = States
      /\ {"Connected", "Disconnected"} = Statuses
  BY DEF States, Statuses
<1>6. CASE StartingWaitHeartbeat
  <2>1. InWith("ItsAlive", "Connected").state \in States
    BY <1>2, <1>5
  <2>2. LET acts == <<SendStatusConditional(fsm.oldStatus, "Connected"), StopTimer>>
        IN  acts \in Seq(Actions) /\ NoEntry(acts)
    BY <1>4, <1>5
  <2>3. QED
    BY <1>6, <2>1, <2>2, TransitionMoves DEF StartingWaitHeartbeat
<1>7. CASE StartingWaitTimeout \/ ItsAliveTimeout \/ DeadServerHeartbeat
  <2>1. In("NotHeartbeatYet").state \in States /\ In("StartingWait").state \in States
    BY <1>2, <1>5
  <2>2. QED
    BY <1>3, <1>7, <2>1, TransitionMoves
       DEF StartingWaitTimeout, ItsAliveTimeout, DeadServerHeartbeat
<1>8. CASE ItsAliveHeartbeat \/ NotHeartbeatYetHeartbeat
  <2>1. In("StartingWait").state \in States
    BY <1>2, <1>5
  <2>2. QED
    BY <1>3, <1>8, <2>1, TransitionMoves
       DEF ItsAliveHeartbeat, NotHeartbeatYetHeartbeat
<1>9. CASE NotHeartbeatYetTimeout
  <2>1. InWith("DeadServer", "Disconnected").state \in States
    BY <1>2, <1>5
  <2>2. LET acts == <<SendStatusConditional(fsm.oldStatus, "Disconnected")>>
        IN  acts \in Seq(Actions) /\ NoEntry(acts)
    BY <1>4, <1>5
  <2>3. QED
    BY <1>9, <2>1, <2>2, TransitionMoves DEF NotHeartbeatYetTimeout
<1>10. CASE InvalidTransition
  <2>1. /\ fsmOut = <<>> /\ fsmOut' = <<>> /\ events # <<>> /\ events' = Tail(events)
        /\ UNCHANGED <<taskVars, fsmVars, timerVars>>
    BY <1>10 DEF InvalidTransition, Takes, fsmVars
  <2>2. EntriesLast'
    BY <2>1 DEF EntriesLast, EntryLast, taskVars, fsmVars
  <2>3. QED
    BY <2>1, <2>2 DEF EventBecomesVector, fsmVars
<1>11. QED
  BY <1>6, <1>7, <1>8, <1>9, <1>10 DEF step_inner

\* The parts of the load.
InHand   == Count(service = "msg")
Relayed  == Count(relay # "none")
Queued   == Len(events)
Vector   == Len(fsmOut)
Vectors  == Len(actions)
Running  == Count(todo # <<>>)
Inits(q) == Cardinality({i \in DOMAIN q : q[i] = "InitTimer"})
Sleeping == Count(timer # "idle")

LEMMA InitsIs ==
  ASSUME NEW q \in Seq(W!Commands)
  PROVE  /\ Inits(q) \in Nat
         /\ \A c \in W!Commands :
              Inits(Append(q, c)) = Inits(q) + Count(c = "InitTimer")
         /\ q # <<>> => Inits(q) = Inits(Tail(q)) + Count(Head(q) = "InitTimer")
<1>1. ASSUME NEW r \in Seq(W!Commands)
      PROVE  IsFiniteSet({i \in DOMAIN r : r[i] = "InitTimer"}) /\ Inits(r) \in Nat
  <2>1. {i \in DOMAIN r : r[i] = "InitTimer"} \in SUBSET (1..Len(r)) /\ Len(r) \in Nat
    OBVIOUS
  <2>2. IsFiniteSet(1..Len(r))
    BY <2>1, FS_Interval
  <2>3. QED
    BY <2>1, <2>2, FS_Subset, FS_CardinalityType DEF Inits
<1>2. ASSUME NEW r \in Seq(W!Commands), NEW c \in W!Commands
      PROVE  Inits(Append(r, c)) = Inits(r) + Count(c = "InitTimer")
  <2> DEFINE A == {i \in DOMAIN r : r[i] = "InitTimer"}
             k == Len(r) + 1
             B == {i \in DOMAIN Append(r, c) : Append(r, c)[i] = "InitTimer"}
  <2>1. /\ DOMAIN Append(r, c) = DOMAIN r \cup {k} /\ k \notin DOMAIN r
        /\ Append(r, c)[k] = c /\ \A i \in DOMAIN r : Append(r, c)[i] = r[i]
    <3>1. Len(r) \in Nat /\ DOMAIN r = 1..Len(r)
      OBVIOUS
    <3>2. QED
      BY <3>1
  <2>2. CASE c = "InitTimer"
    <3>1. B = A \cup {k} /\ k \notin A
      BY <2>1, <2>2
    <3>2. Cardinality(B) = Cardinality(A) + 1
      BY <1>1, <3>1, FS_AddElement
    <3>3. QED
      BY <2>2, <3>2 DEF Inits, Count
  <2>3. CASE c # "InitTimer"
    <3>1. B = A
      BY <2>1, <2>3
    <3>2. Inits(Append(r, c)) = Inits(r) /\ Inits(r) \in Nat
      BY <1>1, <3>1 DEF Inits
    <3>3. QED
      BY <2>3, <3>2 DEF Count
  <2>4. QED
    BY <2>2, <2>3
<1>3. ASSUME q # <<>>
      PROVE  Inits(q) = Inits(Tail(q)) + Count(Head(q) = "InitTimer")
  <2> DEFINE A == {i \in DOMAIN q : q[i] = "InitTimer"}
             B == {i \in DOMAIN Tail(q) : Tail(q)[i] = "InitTimer"}
             f == [i \in B |-> i + 1]
  <2>1. Tail(q) \in Seq(W!Commands) /\ Head(q) = q[1] /\ 1 \in DOMAIN q
    BY <1>3, ReceiveShiftsElements
  <2>2. /\ \A i \in DOMAIN Tail(q) : i + 1 \in DOMAIN q /\ Tail(q)[i] = q[i + 1]
        /\ \A i \in DOMAIN q : i = 1 \/ (i - 1 \in DOMAIN Tail(q) /\ Tail(q)[i - 1] = q[i])
        /\ \A i \in DOMAIN Tail(q) : i \in Nat /\ i + 1 # 1 /\ (i + 1) - 1 = i
        /\ \A i \in DOMAIN q : i \in Nat /\ (i - 1) + 1 = i
    <3>1. Len(q) \in Nat /\ DOMAIN q = 1..Len(q) /\ DOMAIN Tail(q) = 1..Len(Tail(q))
      BY <1>3, ReceiveShiftsElements
    <3>2. QED
      BY <1>3, <3>1, ReceiveShiftsElements
  <2>3. f \in Bijection(B, A \ {1})
    <3>1. \A i \in B : i + 1 \in A \ {1}
      BY <2>2
    <3>2. f \in [B -> A \ {1}]
      BY <3>1
    <3>3. \A i, j \in B : f[i] = f[j] => i = j
      BY <2>2
    <3>4. \A i \in A \ {1} : i - 1 \in B /\ (i - 1) + 1 = i
      BY <2>2
    <3>5. \A i \in A \ {1} : \E j \in B : f[j] = i
      BY <3>4
    <3>6. QED
      BY <3>2, <3>3, <3>5 DEF Bijection, Injection, Surjection, IsInjective
  <2>4. Cardinality(A \ {1}) = Cardinality(B)
    <3>1. IsFiniteSet(B)
      BY <1>1, <2>1
    <3>2. ExistsBijection(B, A \ {1})
      BY <2>3 DEF ExistsBijection
    <3> HIDE DEF A, B, f
    <3>3. QED
      BY <3>1, <3>2, FS_Bijection
  <2>5. Cardinality(A \ {1}) = IF 1 \in A THEN Cardinality(A) - 1 ELSE Cardinality(A)
    BY <1>1, FS_RemoveElement
  <2>6. Cardinality(A) \in Nat /\ (1 \in A <=> Head(q) = "InitTimer")
    BY <1>1, <2>1 DEF Inits
  <2>7. Inits(q) = Cardinality(A) /\ Inits(Tail(q)) = Cardinality(B)
    BY DEF Inits
  <2> HIDE DEF A, B
  <2>8. QED
    BY <2>4, <2>5, <2>6, <2>7 DEF Count
<1>4. QED
  BY <1>1, <1>2, <1>3

Measured ==
    /\ Load = InHand + inbox + Relayed + Queued + Vector
                + Vectors + Running + Inits(cmds) + Sleeping
    /\ InHand \in Nat /\ inbox \in Nat /\ Relayed \in Nat
    /\ Queued \in Nat /\ Vector \in Nat /\ Vectors \in Nat
    /\ Running \in Nat /\ Inits(cmds) \in Nat /\ Sleeping \in Nat

LEMMA LoadIs == TypeOK => Measured
<1>1. TypeOK => Inits(cmds) \in Nat
  BY InitsIs DEF TypeOK
<1>2. QED
  BY <1>1, CapAssumption
     DEF TypeOK, Load, InHand, Relayed, Queued, Vector, Vectors, Running, Inits,
         Sleeping, Count, Measured

LEMMA LoadStep ==
  ASSUME TypeOK, TypeOK', LoadInv, [Next]_vars
  PROVE  LoadInv'
<1>1. Measured
  BY LoadIs
<1>2. Measured'
  BY LoadIs, PTL
<1>3. ASSUME Load' <= Load, EntriesLast'
      PROVE  LoadInv'
  BY <1>1, <1>2, <1>3, BurstAssumption DEF LoadInv, Measured
<1>4. EntriesLast
  BY DEF LoadInv
<1>5. CASE UNCHANGED <<service, inbox, relay, events, fsmOut, actions, todo, cmds, timer>>
  <2>1. Load' = Load
    BY <1>5 DEF Load
  <2>2. EntriesLast'
    BY <1>4, <1>5 DEF EntriesLast, EntryLast
  <2>3. QED
    BY <1>1, <1>3, <2>1, <2>2 DEF Measured
<1>6. CASE ServerTurns \/ ServiceForwardsNotice \/ UNCHANGED vars
  BY <1>5, <1>6 DEF ServerTurns, ServiceForwardsNotice, vars, taskVars, fsmVars, timerVars
<1>7. CASE \/ ServiceTakesMessage \/ ServiceSendsMessage
              \/ HeartbeatTakesMessage \/ HeartbeatSendsEvent
  <2>0. UNCHANGED <<fsmOut, actions, todo, cmds, timer>>
    BY <1>7 DEF ServiceTakesMessage, ServiceSendsMessage, HeartbeatTakesMessage,
                HeartbeatSendsEvent, fsmVars, timerVars
  <2>1. /\ EntriesLast'
        /\ UNCHANGED <<Vector, Vectors, Running, Inits(cmds), Sleeping>>
    BY <1>4, <2>0 DEF Vector, Vectors, EntriesLast, EntryLast, Running, Inits, Sleeping
  <2>2. CASE ServiceTakesMessage
    <3>1. /\ Load < Burst /\ InHand' = 1 /\ InHand = 0
          /\ UNCHANGED <<inbox, Relayed, Queued>>
      BY <2>2 DEF Queued, ServiceTakesMessage, InHand, Relayed, Count
    <3>2. Load' = Load + 1
      BY <1>1, <1>2, <2>1, <3>1 DEF Measured
    <3>3. QED
      BY <1>1, <2>1, <3>1, <3>2, BurstAssumption DEF LoadInv, Measured
  <2>3. CASE ServiceSendsMessage
    <3>1. /\ InHand' = 0 /\ InHand = 1 /\ inbox' = inbox + 1
          /\ UNCHANGED <<Relayed, Queued>>
      BY <2>3 DEF Queued, ServiceSendsMessage, InHand, Relayed, Count
    <3>2. QED
      BY <1>1, <1>2, <1>3, <2>1, <3>1 DEF Measured
  <2>4. CASE HeartbeatTakesMessage
    <3>1. /\ Relayed' = 1 /\ Relayed = 0 /\ inbox' = inbox - 1
          /\ UNCHANGED <<InHand, Queued>>
      BY <2>4 DEF Queued, HeartbeatTakesMessage, AtSelect, InHand, Relayed, Count
    <3>2. QED
      BY <1>1, <1>2, <1>3, <2>1, <3>1 DEF Measured
  <2>5. CASE HeartbeatSendsEvent
    <3>1. /\ Relayed' = 0 /\ Relayed = 1 /\ Queued' = Queued + 1
          /\ UNCHANGED <<InHand, inbox>>
      BY <2>5 DEF Queued, HeartbeatSendsEvent, InHand, Relayed, Count, TypeOK
    <3>2. QED
      BY <1>1, <1>2, <1>3, <2>1, <3>1 DEF Measured
  <2>6. QED
    BY <1>7, <2>2, <2>3, <2>4, <2>5
<1>8. CASE HeartbeatTakesActions
  <2>1. /\ todo = <<>> /\ actions # <<>> /\ todo' = Head(actions) /\ actions' = Tail(actions)
        /\ UNCHANGED <<service, inbox, relay, events, fsmOut, cmds, timer>>
    BY <1>8 DEF HeartbeatTakesActions, AtSelect, timerVars
  <2>2. /\ 1 \in DOMAIN actions /\ todo' = actions[1] /\ Vectors' = Vectors - 1
        /\ \A i \in DOMAIN actions' : i + 1 \in DOMAIN actions /\ actions'[i] = actions[i + 1]
    BY <2>1, ReceiveShiftsElements DEF TypeOK, Vectors
  <2>3. EntriesLast'
    BY <1>4, <2>1, <2>2 DEF EntriesLast, EntryLast
  <2>4. Running = 0 /\ (Running' = 0 \/ Running' = 1)
    BY <2>1 DEF Running, Count
  <2>5. UNCHANGED <<InHand, inbox, Relayed, Queued, Vector, Inits(cmds), Sleeping>>
    BY <2>1 DEF Queued, Vector, InHand, Relayed, Inits, Sleeping
  <2>6. CASE Running' = 0
    BY <1>1, <1>2, <1>3, <2>2, <2>3, <2>4, <2>5, <2>6 DEF Measured
  <2>7. CASE Running' = 1
    BY <1>1, <1>2, <1>3, <2>2, <2>3, <2>4, <2>5, <2>7 DEF Measured
  <2>8. QED
    BY <2>4, <2>6, <2>7
<1>9. CASE DoOnEntry \/ DoSendStatus \/ DoStopTimer
  <2>1. /\ todo # <<>> /\ todo' = Tail(todo)
        /\ UNCHANGED <<service, inbox, relay, events, fsmOut, actions, timer>>
    BY <1>9 DEF DoOnEntry, DoSendStatus, DoStopTimer, fsmVars, timerVars
  <2>2. /\ 1 \in DOMAIN todo /\ Head(todo) = todo[1] /\ Len(todo') = Len(todo) - 1
        /\ \A i \in DOMAIN todo' : i + 1 \in DOMAIN todo /\ todo'[i] = todo[i + 1]
        /\ Len(todo) \in Nat /\ todo' \in Seq(Actions) /\ DOMAIN todo' = 1..Len(todo')
        /\ \A i \in DOMAIN todo' : i + 1 = Len(todo) => i = Len(todo')
    <3>1. /\ Len(todo') = Len(todo) - 1 /\ Len(todo) \in Nat
          /\ todo' \in Seq(Actions) /\ DOMAIN todo' = 1..Len(todo')
      BY <2>1, ReceiveShiftsElements DEF TypeOK
    <3>2. \A i \in DOMAIN todo' : i + 1 = Len(todo) => i = Len(todo')
      BY <3>1
    <3>3. QED
      BY <2>1, <3>1, <3>2, ReceiveShiftsElements DEF TypeOK
  <2>3. EntriesLast'
    <3>1. EntryLast(todo')
      BY <1>4, <2>2 DEF EntriesLast, EntryLast
    <3>2. QED
      BY <1>4, <2>1, <3>1 DEF EntriesLast, EntryLast
  <2>4. Running = 1 /\ (Running' = 0 \/ Running' = 1)
    BY <2>1 DEF Running, Count
  <2>5. UNCHANGED <<InHand, inbox, Relayed, Queued, Vector, Vectors, Sleeping>>
    BY <2>1 DEF Queued, Vector, Vectors, InHand, Relayed, Sleeping
  <2>6. CASE /\ DoOnEntry /\ cmds' = Append(cmds, "InitTimer")
    <3>1. todo' = <<>>
      <4>1. todo[1].kind = "OnEntry"
        BY <2>2, <2>6 DEF DoOnEntry
      <4>2. Len(todo') = 0
        BY <1>4, <2>2, <4>1 DEF EntriesLast, EntryLast
      <4>3. QED
        BY <2>2, <4>2
    <3>2. Running' = 0
      BY <3>1 DEF Running, Count
    <3>3. Inits(cmds') = Inits(cmds) + 1
      BY <2>6, InitsIs DEF TypeOK, W!Commands, Count
    <3>4. QED
      BY <1>1, <1>2, <1>3, <2>3, <2>4, <2>5, <3>2, <3>3 DEF Measured
  <2>7. CASE cmds' = cmds \/ cmds' = Append(cmds, "StopTimer")
    <3>1. Inits(cmds') = Inits(cmds)
      <4>1. CASE cmds' = cmds
        BY <4>1 DEF Inits
      <4>2. CASE cmds' = Append(cmds, "StopTimer")
        <5>1. Inits(cmds') = Inits(cmds) + 0
          BY <4>2, InitsIs DEF TypeOK, W!Commands, Count
        <5>2. QED
          BY <1>1, <5>1 DEF Measured
      <4>3. QED
        BY <2>7, <4>1, <4>2
    <3>2. CASE Running' = 0
      BY <1>1, <1>2, <1>3, <2>3, <2>4, <2>5, <3>1, <3>2 DEF Measured
    <3>3. CASE Running' = 1
      BY <1>1, <1>2, <1>3, <2>3, <2>4, <2>5, <3>1, <3>3 DEF Measured
    <3>4. QED
      BY <2>4, <3>2, <3>3
  <2>8. QED
    BY <1>9, <2>6, <2>7 DEF DoOnEntry, DoSendStatus, DoStopTimer, Command, timerVars
<1>10. CASE step_inner
  <2>1. EventBecomesVector
    BY <1>4, <1>10, MachineMoves
  <2>2. Queued' = Queued - 1 /\ Vector = 0 /\ (Vector' = 0 \/ Vector' = 1)
    <3>1. Len(events') = Len(events) - 1 /\ Len(fsmOut) = 0
          /\ (Len(fsmOut') = 0 \/ Len(fsmOut') = 1)
      BY <2>1, ReceiveShiftsElements DEF EventBecomesVector, TypeOK
    <3>2. QED
      BY <3>1 DEF Queued, Vector
  <2>3. UNCHANGED <<InHand, inbox, Relayed, Vectors, Running, Inits(cmds), Sleeping>>
    BY <2>1 DEF EventBecomesVector, taskVars, timerVars, InHand, Relayed, Vectors, Running,
                Inits, Sleeping
  <2>4. EntriesLast'
    BY <2>1 DEF EventBecomesVector
  <2>5. CASE Vector' = 0
    BY <1>1, <1>2, <1>3, <2>2, <2>3, <2>4, <2>5 DEF Measured
  <2>6. CASE Vector' = 1
    BY <1>1, <1>2, <1>3, <2>2, <2>3, <2>4, <2>6 DEF Measured
  <2>7. QED
    BY <2>2, <2>5, <2>6
<1>11. CASE FsmSendsActions
  <2>1. /\ fsmOut # <<>> /\ actions' = Append(actions, Head(fsmOut)) /\ fsmOut' = <<>>
        /\ UNCHANGED <<service, inbox, relay, todo, events, timer, cmds>>
    BY <1>11 DEF FsmSendsActions, taskVars, timerVars
  <2>2. DOMAIN fsmOut = {1} /\ fsmOut[1] \in Seq(Actions) /\ Head(fsmOut) = fsmOut[1]
    BY <2>1, OneElement DEF TypeOK
  <2>3. /\ \A i \in DOMAIN actions : actions'[i] = actions[i]
        /\ actions'[Vectors + 1] = fsmOut[1]
        /\ DOMAIN actions' = DOMAIN actions \cup {Vectors + 1}
        /\ Vectors' = Vectors + 1
    BY <2>1, <2>2, SendKeepsElements DEF TypeOK, Vectors
  <2>4. EntriesLast'
    BY <1>4, <2>1, <2>2, <2>3 DEF EntriesLast, EntryLast
  <2>5. Vector' = 0 /\ Vector = 1
    BY <2>1, OneElement DEF TypeOK, Vector
  <2>6. UNCHANGED <<InHand, inbox, Relayed, Queued, Running, Inits(cmds), Sleeping>>
    BY <2>1 DEF Queued, InHand, Relayed, Running, Inits, Sleeping
  <2>7. QED
    BY <1>1, <1>2, <1>3, <2>3, <2>4, <2>5, <2>6 DEF Measured
<1>12. CASE watchdog_timer_for_heartbeat
  <2>1. UNCHANGED <<server, taskVars, fsmVars>>
    BY <1>12 DEF watchdog_timer_for_heartbeat
  <2>2. /\ EntriesLast'
        /\ UNCHANGED <<InHand, inbox, Relayed, Vector, Vectors, Running>>
    BY <1>4, <2>1 DEF Vector, Vectors, EntriesLast, EntryLast, taskVars, fsmVars,
                      InHand, Relayed, Running
  <2>3. CASE W!TimerTakesCommand \/ W!TimerTakesCommandAsleep
    <3>1. cmds # <<>> /\ cmds' = Tail(cmds) /\ events' = events
      BY <2>3 DEF W!TimerTakesCommand, W!TimerTakesCommandAsleep
    <3>2. Queued' = Queued
      BY <3>1 DEF Queued
    <3>3. CASE Head(cmds) = "InitTimer"
      <4>1. Inits(cmds) = Inits(cmds') + 1
        BY <3>1, <3>3, InitsIs DEF TypeOK, Count
      <4>2. Sleeping' = Sleeping \/ (Sleeping = 0 /\ Sleeping' = 1)
        BY <2>3, <3>3 DEF W!TimerTakesCommand, W!TimerTakesCommandAsleep, Sleeping, Count
      <4>3. CASE Sleeping' = Sleeping
        BY <1>1, <1>2, <1>3, <2>2, <3>2, <4>1, <4>3 DEF Measured
      <4>4. CASE Sleeping = 0 /\ Sleeping' = 1
        BY <1>1, <1>2, <1>3, <2>2, <3>2, <4>1, <4>4 DEF Measured
      <4>5. QED
        BY <4>2, <4>3, <4>4
    <3>4. CASE Head(cmds) # "InitTimer"
      <4>1. Inits(cmds) = Inits(cmds')
        <5>1. Inits(cmds) = Inits(cmds') + 0
          BY <3>1, <3>4, InitsIs DEF TypeOK, Count
        <5>2. QED
          BY <1>2, <5>1 DEF Measured
      <4>2. Sleeping' = Sleeping \/ (Sleeping = 1 /\ Sleeping' = 0)
        BY <2>3, <3>4 DEF W!TimerTakesCommand, W!TimerTakesCommandAsleep, Sleeping, Count
      <4>3. CASE Sleeping' = Sleeping
        BY <1>1, <1>2, <1>3, <2>2, <3>2, <4>1, <4>3 DEF Measured
      <4>4. CASE Sleeping = 1 /\ Sleeping' = 0
        BY <1>1, <1>2, <1>3, <2>2, <3>2, <4>1, <4>4 DEF Measured
      <4>5. QED
        BY <4>2, <4>3, <4>4
    <3>5. QED
      BY <3>3, <3>4
  <2>4. CASE W!TimerExpires
    <3>1. /\ Sleeping = 1 /\ Sleeping' = 1 /\ UNCHANGED <<cmds, events>>
      BY <2>4 DEF W!TimerExpires, W!Asleep, Sleeping, Count
    <3>2. UNCHANGED <<Inits(cmds), Queued>>
      BY <3>1 DEF Queued, Inits
    <3>3. QED
      BY <1>1, <1>2, <1>3, <2>2, <3>1, <3>2 DEF Measured
  <2>5. CASE W!TimerSendsTimeout
    <3>1. /\ Sleeping = 1 /\ Sleeping' = 0 /\ cmds' = cmds
          /\ Queued' = Queued + 1
      BY <2>5 DEF Queued, W!TimerSendsTimeout, Sleeping, Count, TypeOK
    <3>2. UNCHANGED Inits(cmds)
      BY <3>1 DEF Inits
    <3>3. QED
      BY <1>1, <1>2, <1>3, <2>2, <3>1, <3>2 DEF Measured
  <2>6. QED
    BY <1>12, <2>3, <2>4, <2>5 DEF watchdog_timer_for_heartbeat, W!TimerStep
<1>13. QED
  BY <1>6, <1>7, <1>8, <1>9, <1>10, <1>11, <1>12 DEF Next

\* However many heartbeats come, no message is ever multiplied (Load stays
\* within Burst), and machine and orchestrator, or service and orchestrator,
\* wait for each other only with more of them under way than a channel and a
\* task hold (heartbeat/logic.rs 59 against 132, domain.rs 81 against logic.rs
\* 83).  The code does not bound the heartbeats: this says what it would take.
THEOREM NoCircularWaitHolds ==
  Spec => [](Load <= Burst /\ (NoCircularWait \/ Load > Cap + 1))
<1>1. Init => LoadInv
  <2>1. SUFFICES ASSUME Init PROVE LoadInv
    OBVIOUS
  <2>2. EntriesLast
    BY <2>1 DEF Init, EntriesLast, EntryLast
  <2>3. Load = 0
    <3>1. {i \in DOMAIN cmds : cmds[i] = "InitTimer"} = {}
      BY <2>1 DEF Init
    <3>2. Cardinality({i \in DOMAIN cmds : cmds[i] = "InitTimer"}) = 0
      BY <3>1, FS_EmptySet
    <3>3. QED
      BY <2>1, <3>2 DEF Init, Load, Count
  <2>4. QED
    BY <2>2, <2>3, BurstAssumption DEF LoadInv
<1>2. TypeOK /\ TypeOK' /\ LoadInv /\ [Next]_vars => LoadInv'
  BY LoadStep
<1>3. TypeOK /\ LoadInv => Load <= Burst /\ (NoCircularWait \/ Load > Cap + 1)
  <2>1. SUFFICES ASSUME TypeOK, LoadInv, ~(Load > Cap + 1)
                 PROVE  NoCircularWait
    BY DEF LoadInv
  <2>2. Measured
    BY <2>1, LoadIs
  <2>3. /\ Load = InHand + inbox + Relayed + Queued + Vector
                    + Vectors + Running + Inits(cmds) + Sleeping
        /\ ~(Load > Cap + 1)
    BY <2>1, <2>2 DEF Measured
  <2>4. ~ /\ relay # "none" /\ Queued = Cap
          /\ fsmOut # <<>> /\ Vectors = Cap
    <3>1. SUFFICES ASSUME relay # "none", Queued = Cap, Vectors = Cap
                   PROVE  FALSE
      OBVIOUS
    <3>2. Relayed = 1
      BY <3>1 DEF Relayed, Count
    <3>3. QED
      BY <2>2, <2>3, <3>1, <3>2, CapAssumption DEF Measured
  <2>5. ~ (service = "msg" /\ inbox = Cap /\ todo # <<>>)
    <3>1. SUFFICES ASSUME service = "msg", inbox = Cap, todo # <<>>
                   PROVE  FALSE
      OBVIOUS
    <3>2. InHand = 1 /\ Running = 1
      BY <3>1 DEF InHand, Running, Count
    <3>3. QED
      BY <2>2, <2>3, <3>1, <3>2, CapAssumption DEF Measured
  <2>6. QED
    BY <2>4, <2>5 DEF NoCircularWait, Queued, Vectors
<1>4. QED
  BY <1>1, <1>2, <1>3, TypeCorrect, PTL DEF Spec
=============================================================================
