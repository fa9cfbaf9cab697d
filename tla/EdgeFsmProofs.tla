---------------------------- MODULE EdgeFsmProofs ---------------------------
(***************************************************************************)
(* Proofs about the edge state machine, for every set of hubs, number of   *)
(* attempts, channel capacity and bound on the load.                       *)
(***************************************************************************)
EXTENDS EdgeFsm, FiniteSetTheorems, SequenceTheorems, TLAPS

FsmValues == [global : StateGlobal, balance : SubStateBalanceMode \cup {None},
              quorum : SubStateQuorum \cup {None},
              phase : SubStatePhase \cup {None}]

\* What an operation of the coordinator carries.
LEMMA OpsTyped ==
  ASSUME NEW op \in Ops
  PROVE  /\ op.do = "fsm" => op.arg \in Events
         /\ op.do = "timer" => op.arg \in W!Commands
         /\ op.do = "heartbeat" => op.arg \in Modes
         /\ op.do = "edge" => op.arg \in StateGlobal
         /\ op.do = "OnEntryPhase" => op.arg \in SubStatePhase
BY DEF Ops, StopTimer, InitTimer, CalculateQuorum, Op, W!Commands

\* The operations the handlers produce are operations.
LEMMA OpsMade ==
  /\ \A e \in Events : Op("fsm", e) \in Ops
  /\ StopTimer \in Ops /\ InitTimer \in Ops /\ CalculateQuorum \in Ops
  /\ \A a \in Labels \cup {"GetEpoch", "NewEpoch"} : Op("core", a) \in Ops
  /\ \A m \in Modes : Op("heartbeat", m) \in Ops
  /\ \A s \in StateGlobal : Op("edge", s) \in Ops
  /\ \A s \in SubStateBalanceMode : Op("OnEntryBalance", s) \in Ops
  /\ \A s \in SubStateQuorum : Op("OnEntryQuorum", s) \in Ops
  /\ \A s \in SubStatePhase : Op("OnEntryPhase", s) \in Ops
  /\ Op("OnEntryNormal", None) \in Ops /\ Op("OnEntrySafeMode", None) \in Ops
BY DEF Ops, Op

\* The announcements to the hubs, as labels.
LEMMA LabelsAre == Labels = {"nothing", "in", "alert", "data", "monitor", "out"}
<1>1. DOMAIN Announcements = {1, 2, 3, 4, 5, 6}
  BY DEF Announcements
<1>2. QED
  BY <1>1 DEF Labels, Announcements

\* compute_on_entry yields actions of the state machine.
LEMMA EntryTyped ==
  ASSUME NEW old \in FsmValues, NEW new \in FsmValues
  PROVE  compute_on_entry(old, new) \in Seq(Ops)
<1> DEFINE B == IF old.balance # new.balance /\ new.balance # None
                  THEN <<Op("OnEntryBalance", new.balance)>> ELSE <<>>
           Q == IF old.quorum # new.quorum /\ new.quorum # None
                  THEN <<Op("OnEntryQuorum", new.quorum)>> ELSE <<>>
           N == IF old.global # new.global /\ new.global = "Normal"
                  THEN <<Op("OnEntryNormal", None)>> ELSE <<>>
           S == IF old.global # new.global /\ new.global = "SafeMode"
                  THEN <<Op("OnEntrySafeMode", None)>> ELSE <<>>
           P == IF old.phase # new.phase /\ new.phase # None
                  THEN <<Op("OnEntryPhase", new.phase)>> ELSE <<>>
<1>1. B \in Seq(Ops)
  BY OpsMade DEF FsmValues
<1>2. Q \in Seq(Ops)
  BY OpsMade DEF FsmValues
<1>3. N \in Seq(Ops)
  BY OpsMade
<1>4. S \in Seq(Ops)
  BY OpsMade
<1>5. P \in Seq(Ops)
  BY OpsMade DEF FsmValues
<1>6. compute_on_entry(old, new) = B \o Q \o N \o S \o P
  BY DEF compute_on_entry
<1> HIDE DEF B, Q, N, S, P
<1>7. QED
  BY <1>1, <1>2, <1>3, <1>4, <1>5, <1>6

\* A transition to a well-formed value keeps the types of what it changes.
LEMMA BecomesTyped ==
  ASSUME TypeOK, NEW next \in FsmValues, NEW acts \in Seq(Ops),
         Becomes(next, acts)
  PROVE  /\ fsm' \in FsmValues
         /\ fsmOut' \in Seq(Seq(Ops)) /\ Len(fsmOut') <= 1
         /\ UNCHANGED <<coreVars, session, todo, told, actions, timerVars>>
<1>1. acts \o compute_on_entry(fsm, next) \in Seq(Ops)
  BY EntryTyped DEF TypeOK, FsmValues
<1>2. QED
  BY <1>1 DEF Becomes

\* A transition keeps the type of the state record.
LEMMA TransitionTyped ==
  ASSUME TypeOK, NEW e \in Events, NEW next \in FsmValues,
         NEW acts \in Seq(Ops), Transition(e, next, acts)
  PROVE  TypeOK'
<1>1. Becomes(next, acts) /\ TakesEvent({e})
  BY DEF Transition
<1>2. events' \in Seq(Events) /\ Len(events') <= Cap
  BY <1>1, CapAssumption DEF TakesEvent, TypeOK
<1>3. QED
  BY <1>1, <1>2, BecomesTyped
     DEF TypeOK, FsmValues, coreVars, told, timerVars

\* The values a transition makes out of a well-formed one are well-formed.
LEMMA NextValues ==
  ASSUME fsm \in FsmValues
  PROVE  /\ \A g \in StateGlobal : [fsm EXCEPT !.global = g] \in FsmValues
         /\ \A b \in SubStateBalanceMode : [fsm EXCEPT !.balance = b] \in FsmValues
         /\ \A q \in SubStateQuorum : [fsm EXCEPT !.quorum = q] \in FsmValues
         /\ \A p \in SubStatePhase : [fsm EXCEPT !.phase = p] \in FsmValues
         /\ \A g \in StateGlobal, b \in SubStateBalanceMode \cup {None} :
              [fsm EXCEPT !.global = g, !.balance = b] \in FsmValues
         /\ \A b \in SubStateBalanceMode, q \in SubStateQuorum :
              [fsm EXCEPT !.balance = b, !.quorum = q] \in FsmValues
         /\ \A b \in SubStateBalanceMode, p \in SubStatePhase \cup {None} :
              [fsm EXCEPT !.balance = b, !.phase = p] \in FsmValues
         /\ \A b \in SubStateBalanceMode, p \in SubStatePhase :
              [fsm EXCEPT !.balance = b, !.phase = p, !.quorum = None] \in FsmValues
         /\ \A g \in StateGlobal :
              [fsm EXCEPT !.global = g, !.balance = None, !.quorum = None]
                \in FsmValues
BY DEF FsmValues

\* Every transition of step() keeps the types.
LEMMA StepTyped == ASSUME TypeOK, step_inner PROVE TypeOK'
<1> USE DEF StateGlobal, SubStateBalanceMode, SubStateQuorum, SubStatePhase
<1>0. fsm \in FsmValues
  BY DEF TypeOK, FsmValues
<1>1. /\ <<>> \in Seq(Ops) /\ <<StopTimer>> \in Seq(Ops)
      /\ <<CalculateQuorum>> \in Seq(Ops)
      /\ <<Op("heartbeat", "StopPhase"), StopTimer>> \in Seq(Ops)
      /\ <<Op("heartbeat", "StopSafeMode")>> \in Seq(Ops)
  BY OpsMade DEF Modes
<1>2. CASE step_start
  <2>1. [fsm EXCEPT !.global = "BalanceMode", !.balance = "InitBalanceMode"]
          \in FsmValues
    BY <1>0, NextValues
  <2>2. /\ fsm' \in FsmValues
        /\ fsmOut' \in Seq(Seq(Ops)) /\ Len(fsmOut') <= 1
        /\ UNCHANGED <<coreVars, session, todo, told, actions, timerVars>>
    BY <1>1, <1>2, <2>1, BecomesTyped DEF step_start
  <2>3. QED
    BY <1>2, <2>2 DEF step_start, TypeOK, FsmValues, coreVars, told, timerVars
<1>3. CASE state_init_balance_mode_event_balance_epoch
  BY <1>0, <1>1, <1>3, NextValues, TransitionTyped
     DEF state_init_balance_mode_event_balance_epoch, Events
<1>4. CASE state_init_balance_mode_event_balance_epoch_not_ok
  <2>1. [fsm EXCEPT !.balance = None, !.global = "SafeMode"] \in FsmValues
    BY <1>0 DEF FsmValues
  <2>2. QED
    BY <1>1, <1>4, <2>1, TransitionTyped
       DEF state_init_balance_mode_event_balance_epoch_not_ok, Events
<1>5. CASE state_in_handshake_event_timeout
  BY <1>0, <1>1, <1>5, NextValues, TransitionTyped
     DEF state_in_handshake_event_timeout, Events
<1>6. CASE state_out_handshake_event_timeout
  BY <1>0, <1>1, <1>6, NextValues, TransitionTyped
     DEF state_out_handshake_event_timeout, Events
<1>7. CASE state_repeat_handshake_in
  BY <1>0, <1>1, <1>7, NextValues, TransitionTyped
     DEF state_repeat_handshake_in, Events
<1>8. CASE state_repeat_handshake_out
  BY <1>0, <1>1, <1>8, NextValues, TransitionTyped
     DEF state_repeat_handshake_out, Events
<1>9. CASE new_message_handshake
  BY <1>0, <1>1, <1>9, TransitionTyped DEF new_message_handshake, Events
<1>10. CASE HandshakeNotApproved
  BY <1>0, <1>1, <1>10, TransitionTyped DEF HandshakeNotApproved, Events
<1>11. CASE approve_in
  BY <1>0, <1>1, <1>11, NextValues, TransitionTyped DEF approve_in, Events
<1>12. CASE approve_out
  <2>1. [fsm EXCEPT !.balance = None, !.quorum = None, !.global = "Normal"]
          \in FsmValues
    BY <1>0 DEF FsmValues
  <2>2. QED
    BY <1>1, <1>12, <2>1, TransitionTyped DEF approve_out, Events
<1>13. CASE state_check_quorum_in_event_not_approve
  BY <1>0, <1>1, <1>13, NextValues, TransitionTyped
     DEF state_check_quorum_in_event_not_approve, Events
<1>14. CASE state_check_quorum_out_event_not_approve
  BY <1>0, <1>1, <1>14, NextValues, TransitionTyped
     DEF state_check_quorum_out_event_not_approve, Events
<1>15. CASE state_check_quorum_event_not_and_not
  BY <1>0, <1>1, <1>15, NextValues, TransitionTyped
     DEF state_check_quorum_event_not_and_not, Events
<1>16. CASE state_alert_event_timeout_or_quorum
  <2>1. PICK event \in PhaseOver :
           Transition(event, [fsm EXCEPT !.phase = "Data"],
                      <<StopTimer>>)
    BY <1>16 DEF state_alert_event_timeout_or_quorum
  <2>2. event \in Events
    BY DEF PhaseOver, Events
  <2>3. QED
    BY <1>0, <1>1, <2>1, <2>2, NextValues, TransitionTyped
<1>17. CASE state_data_event_timeout_or_quorum
  <2>1. PICK event \in PhaseOver :
           Transition(event, [fsm EXCEPT !.phase = "Monitor"],
                      <<StopTimer>>)
    BY <1>17 DEF state_data_event_timeout_or_quorum
  <2>2. event \in Events
    BY DEF PhaseOver, Events
  <2>3. QED
    BY <1>0, <1>1, <2>1, <2>2, NextValues, TransitionTyped
<1>18. CASE state_monitor_event_timeout_or_quorum
  <2>1. PICK event \in PhaseOver :
           Transition(event, [fsm EXCEPT !.balance = "OutHandshake", !.phase = None],
                      <<Op("heartbeat", "StopPhase"), StopTimer>>)
    BY <1>18 DEF state_monitor_event_timeout_or_quorum
  <2>2. event \in Events
    BY DEF PhaseOver, Events
  <2>3. QED
    BY <1>0, <1>1, <2>1, <2>2, NextValues, TransitionTyped
<1>19. CASE step_safe_mode
  <2>1. PICK event \in {"Timeout", "QuorumSafeMode"} :
           Transition(event, [fsm EXCEPT !.global = "Normal"],
                      <<Op("heartbeat", "StopSafeMode")>>)
    BY <1>19 DEF step_safe_mode
  <2>2. event \in Events
    BY DEF Events
  <2>3. QED
    BY <1>0, <1>1, <2>1, <2>2, NextValues, TransitionTyped
<1>20. CASE invalid
  BY <1>20, CapAssumption
     DEF invalid, TakesEvent, TypeOK, coreVars, told, fsmVars, timerVars
<1>21. QED
  BY <1>2, <1>3, <1>4, <1>5, <1>6, <1>7, <1>8, <1>9, <1>10, <1>11, <1>12,
     <1>13, <1>14, <1>15, <1>16, <1>17, <1>18, <1>19, <1>20
     DEF step_inner, step_balance_mode

\* What the coordinator receives, executes and sends keeps the types.
LEMMA ReceiveTyped ==
  ASSUME TypeOK, NEW kind, Receives(kind)
  PROVE  /\ commands' \in Seq(Messages \cup Answers) /\ Len(commands') <= Cap
         /\ Head(commands) \in Messages \cup Answers
         /\ UNCHANGED <<epoch, told, events, fsmVars, timerVars>>
BY CapAssumption DEF Receives, TypeOK

\* The votes and reports that are counted come from hubs.
LEMMA SenderTyped ==
  ASSUME TypeOK, commands # <<>>,
         Head(commands).kind \in {"HandshakeFromHub", "EmptyQueue", "EmptyQueueSafe"}
  PROVE  Sender \in Hubs
<1>1. Head(commands) \in Messages \cup Answers
  BY DEF TypeOK
<1>2. Head(commands) \notin Answers
  BY DEF Answers, Answer
<1>3. QED
  BY <1>1, <1>2 DEF Messages, Sender

\* The reports of a hub in a phase stay within the types.
LEMMA ReportsTyped ==
  ASSUME TypeOK, NEW event \in Events, NEW percentage, Sender \in Hubs,
         Reports(event, percentage)
  PROVE  /\ session' \in [state : StateOfSession, handshakes : SUBSET Hubs,
                          empties : SUBSET Hubs, attempts : Nat]
         /\ todo' \in Seq(Ops)
<1>1. session' = [session EXCEPT !.empties = @ \cup {Sender}]
  BY DEF Reports
<1>2. <<Op("fsm", event), StopTimer>> \in Seq(Ops) /\ <<>> \in Seq(Ops)
  BY OpsMade
<1>3. todo' = <<Op("fsm", event), StopTimer>> \/ todo' = <<>>
  BY DEF Reports
<1>4. session' \in [state : StateOfSession, handshakes : SUBSET Hubs,
                    empties : SUBSET Hubs, attempts : Nat]
  BY <1>1 DEF TypeOK
<1>5. QED
  BY <1>2, <1>3, <1>4

\* What the coordinator takes from its channels keeps the types.
LEMMA CommandsTyped == ASSUME TypeOK, TakesCommand PROVE TypeOK'
<1> USE DEF TypeOK, told, fsmVars, timerVars
<1>1. CASE TakesHandshake
  <2>1. Receives("HandshakeFromHub")
    BY <1>1 DEF TakesHandshake
  <2>2. Sender \in Hubs
    BY <2>1, SenderTyped DEF Receives
  <2>3. <<Op("fsm", "NewMessageHandshake")>> \in Seq(Ops)
    BY OpsMade DEF Events
  <2>4. /\ session' \in [state : StateOfSession, handshakes : SUBSET Hubs,
                         empties : SUBSET Hubs, attempts : Nat]
        /\ todo' \in Seq(Ops)
    <3>1. \/ /\ session' = [session EXCEPT !.handshakes = @ \cup {Sender}]
             /\ todo' = <<Op("fsm", "NewMessageHandshake")>>
          \/ UNCHANGED <<session, todo>>
      BY <1>1 DEF TakesHandshake
    <3>2. [session EXCEPT !.handshakes = @ \cup {Sender}]
            \in [state : StateOfSession, handshakes : SUBSET Hubs,
                 empties : SUBSET Hubs, attempts : Nat]
      BY <2>2
    <3>3. QED
      BY <2>3, <3>1, <3>2
  <2>5. QED
    BY <2>1, <2>4, ReceiveTyped
<1>2. CASE quorum_phase
  <2>1. Receives("EmptyQueue")
    BY <1>2 DEF quorum_phase
  <2>2. Sender \in Hubs
    BY <2>1, SenderTyped DEF Receives
  <2>3. CASE session.state \in SubStatePhase
    <3>1. Reports("QuorumPhase", 80)
      BY <1>2, <2>3 DEF quorum_phase
    <3>2. QED
      BY <2>1, <2>2, <3>1, ReceiveTyped, ReportsTyped DEF Events
  <2>4. CASE session.state \notin SubStatePhase
    BY <1>2, <2>1, <2>4, ReceiveTyped DEF quorum_phase
  <2>5. QED
    BY <2>3, <2>4
<1>3. CASE quorum_safe_mode
  <2>1. Receives("EmptyQueueSafe")
    BY <1>3 DEF quorum_safe_mode
  <2>2. Sender \in Hubs
    BY <2>1, SenderTyped DEF Receives
  <2>3. CASE session.state = "SafeMode"
    <3>1. Reports("QuorumSafeMode", 70)
      BY <1>3, <2>3 DEF quorum_safe_mode
    <3>2. QED
      BY <2>1, <2>2, <3>1, ReceiveTyped, ReportsTyped DEF Events
  <2>4. CASE session.state # "SafeMode"
    BY <1>3, <2>1, <2>4, ReceiveTyped DEF quorum_safe_mode
  <2>5. QED
    BY <2>3, <2>4
<1>4. CASE TakesErrorEpoch
  <2>1. <<Op("fsm", "BalanceEpochNotOk")>> \in Seq(Ops)
    BY OpsMade DEF Events
  <2>2. QED
    BY <1>4, <2>1, ReceiveTyped DEF TakesErrorEpoch
<1>5. CASE TakesEpoch
  <2>1. <<Op("fsm", "BalanceEpochOk"), Op("core", "NewEpoch"),
          Op("edge", "BalanceMode")>> \in Seq(Ops)
    BY OpsMade DEF Events, StateGlobal
  <2>2. QED
    BY <1>5, <2>1, ReceiveTyped DEF TakesEpoch
<1>6. QED
  BY <1>1, <1>2, <1>3, <1>4, <1>5 DEF TakesCommand

\* So do its sends.
LEMMA SendsTyped == ASSUME TypeOK, Sends PROVE TypeOK'
<1> USE CapAssumption DEF TypeOK, coreVars, told, fsmVars, timerVars, Does, Arg
<1>0. todo # <<>> => Head(todo) \in Ops /\ Tail(todo) \in Seq(Ops)
  OBVIOUS
<1>1. CASE SendsEvent
  <2>1. Arg \in Events
    BY <1>0, <1>1, OpsTyped DEF SendsEvent
  <2>2. QED
    BY <1>0, <1>1, <2>1 DEF SendsEvent
<1>2. CASE SendsTimerCommand
  <2>1. Arg \in W!Commands
    BY <1>0, <1>2, OpsTyped DEF SendsTimerCommand
  <2>2. QED
    BY <1>0, <1>2, <2>1 DEF SendsTimerCommand
<1>3. CASE SendsToCore
  BY <1>0, <1>3 DEF SendsToCore
<1>4. CASE SendsHeartbeatMode
  <2>1. Arg \in Modes
    BY <1>0, <1>4, OpsTyped DEF SendsHeartbeatMode
  <2>2. QED
    BY <1>0, <1>4, <2>1 DEF SendsHeartbeatMode
<1>5. CASE SendsEdgeState
  <2>1. Arg \in StateGlobal
    BY <1>0, <1>5, OpsTyped DEF SendsEdgeState
  <2>2. QED
    BY <1>0, <1>5, <2>1 DEF SendsEdgeState
<1>6. QED
  BY <1>1, <1>2, <1>3, <1>4, <1>5 DEF Sends

\* An executed action leaves a well-formed session and well-formed sends.
LEMMA ExecutesTyped ==
  ASSUME TypeOK, NEW sends \in Seq(Ops), todo # <<>>, Executes(sends),
         session' \in [state : StateOfSession, handshakes : SUBSET Hubs,
                       empties : SUBSET Hubs, attempts : Nat]
  PROVE  TypeOK'
<1>1. todo' \in Seq(Ops)
  <2>1. Tail(todo) \in Seq(Ops)
    BY DEF TypeOK
  <2>2. QED
    BY <2>1 DEF Executes
<1>2. QED
  BY <1>1 DEF Executes, TypeOK, coreVars, told, fsmVars, timerVars

\* So do its entry actions.
LEMMA HandleTyped == ASSUME TypeOK, handle_action PROVE TypeOK'
<1> DEFINE Sessions == [state : StateOfSession, handshakes : SUBSET Hubs,
                        empties : SUBSET Hubs, attempts : Nat]
<1>0. session \in Sessions
  BY DEF TypeOK
<1>1. \A s \in StateOfSession : InSession(s) => session' \in Sessions
  BY <1>0 DEF InSession
<1>2. \A a \in {"GetEpoch", "in", "out", "alert", "data", "monitor"} :
        Op("core", a) \in Ops
  BY OpsMade, LabelsAre
<1>3. CASE OnEntryInitBalanceMode
  <2>1. <<Op("core", "GetEpoch")>> \in Seq(Ops)
    BY <1>2
  <2>2. QED
    BY <1>0, <1>3, <2>1, ExecutesTyped DEF OnEntryInitBalanceMode, Does
<1>4. CASE on_entry_in_handshake
  <2>1. <<Op("core", "in"), InitTimer>> \in Seq(Ops)
    BY <1>2, OpsMade
  <2>2. session' \in Sessions
    BY <1>1, <1>4 DEF on_entry_in_handshake, StateOfSession
  <2>3. QED
    BY <1>4, <2>1, <2>2, ExecutesTyped DEF on_entry_in_handshake, Does
<1>5. CASE on_entry_out_handshake
  <2>1. <<Op("core", "out"), InitTimer>> \in Seq(Ops)
    BY <1>2, OpsMade
  <2>2. session' \in Sessions
    BY <1>1, <1>5 DEF on_entry_out_handshake, StateOfSession
  <2>3. QED
    BY <1>5, <2>1, <2>2, ExecutesTyped DEF on_entry_out_handshake, Does
<1>6. CASE OnEntryOtherBalance
  <2>1. <<>> \in Seq(Ops)
    OBVIOUS
  <2>2. QED
    BY <1>0, <1>6, <2>1, ExecutesTyped DEF OnEntryOtherBalance, Does
<1>7. quorum_algorithm \in Events
  BY DEF quorum_algorithm, Events
<1>8. <<Op("fsm", quorum_algorithm)>> \in Seq(Ops)
  BY <1>7, OpsMade
<1>9. CASE OnEntryCheckQuorum
  <2>1. session' \in Sessions
    BY <1>1, <1>9 DEF OnEntryCheckQuorum, StateOfSession
  <2>2. QED
    BY <1>8, <1>9, <2>1, ExecutesTyped DEF OnEntryCheckQuorum, Does
<1>10. CASE on_entry_repeat_handshake
  <2>1. <<Op("core", IF Arg = "RepeatHandshakeIn" THEN "in" ELSE "out"),
          InitTimer>> \in Seq(Ops)
    BY <1>2, OpsMade
  <2>2. session' \in Sessions
    <3>1. session.attempts + 1 \in Nat /\ "RepeatHandshake" \in StateOfSession
      BY <1>0 DEF StateOfSession
    <3>2. session' = [session EXCEPT !.state = "RepeatHandshake",
                      !.attempts = session.attempts + 1, !.handshakes = {}]
      BY <1>0, <1>10 DEF on_entry_repeat_handshake
    <3>3. QED
      BY <1>0, <3>1, <3>2
  <2>3. QED
    BY <1>10, <2>1, <2>2, ExecutesTyped DEF on_entry_repeat_handshake, Does
<1>11. CASE DoCalculateQuorum
  BY <1>0, <1>8, <1>11, ExecutesTyped DEF DoCalculateQuorum, Does
<1>12. CASE OnEntryPhase
  <2>1. Arg \in SubStatePhase
    BY <1>12, OpsTyped DEF OnEntryPhase, Does, Arg, TypeOK
  <2>2. PhaseLabel[Arg] \in {"alert", "data", "monitor"}
    BY <2>1 DEF PhaseLabel, SubStatePhase
  <2>3. <<InitTimer, Op("core", PhaseLabel[Arg])>> \in Seq(Ops)
    BY <1>2, <2>2, OpsMade
  <2>4. (IF Arg = "Alert" THEN <<Op("heartbeat", "Phase")>> ELSE <<>>) \in Seq(Ops)
    BY OpsMade DEF Modes
  <2>5. session' \in Sessions
    BY <1>12, <2>1 DEF OnEntryPhase, StateOfSession, SubStatePhase
  <2>6. \E sends \in Seq(Ops) : Executes(sends)
    <3>1. (<<InitTimer, Op("core", PhaseLabel[Arg])>>
            \o IF Arg = "Alert" THEN <<Op("heartbeat", "Phase")>> ELSE <<>>)
              \in Seq(Ops)
      BY <2>3, <2>4
    <3>2. QED
      BY <1>12, <3>1 DEF OnEntryPhase
  <2>7. QED
    BY <1>12, <2>5, <2>6, ExecutesTyped DEF OnEntryPhase, Does
<1>13. CASE on_entry_normal
  <2>1. <<Op("heartbeat", "Normal"), Op("edge", "Normal")>> \in Seq(Ops)
    BY OpsMade DEF Modes, StateGlobal
  <2>2. QED
    BY <1>0, <1>13, <2>1, ExecutesTyped DEF on_entry_normal, Does
<1>14. CASE on_entry_safe_mode
  <2>1. <<InitTimer, Op("heartbeat", "SafeMode"), Op("edge", "SafeMode")>>
          \in Seq(Ops)
    BY OpsMade DEF Modes, StateGlobal
  <2>2. session' \in Sessions
    BY <1>0, <1>14 DEF on_entry_safe_mode, StateOfSession
  <2>3. QED
    BY <1>14, <2>1, <2>2, ExecutesTyped DEF on_entry_safe_mode, Does
<1>15. QED
  BY <1>3, <1>4, <1>5, <1>6, <1>9, <1>10, <1>11, <1>12, <1>13, <1>14
     DEF handle_action

\* What the hubs may send are messages.
LEMMA HubMessagesTyped ==
  ASSUME NEW h \in Hubs
  PROVE  /\ \A f \in {"in", "out", "old"} :
              Message("HandshakeFromHub", h, f) \in Messages
         /\ \A p \in {"alert", "data", "monitor"} :
              Message("EmptyQueue", h, p) \in Messages
         /\ Message("EmptyQueueSafe", h, "safe") \in Messages
BY DEF Message, Messages

\* Every variable keeps its type, and no channel exceeds its capacity.
THEOREM TypeCorrect == Spec => []TypeOK
<1> USE CapAssumption, BurstAssumption
<1>1. Init => TypeOK
  <2> SUFFICES ASSUME Init PROVE TypeOK
    OBVIOUS
  <2>1. session \in [state : StateOfSession, handshakes : SUBSET Hubs,
                     empties : SUBSET Hubs, attempts : Nat]
    BY DEF Init, StateOfSession
  <2>2. fsm \in FsmValues
    BY DEF Init, FsmValues, StateGlobal
  <2>3. QED
    BY <2>1, <2>2, LabelsAre
       DEF Init, TypeOK, FsmValues, StateGlobal, W!TimerStates
<1>2. TypeOK /\ [Next]_vars => TypeOK'
  <2> SUFFICES ASSUME TypeOK, [Next]_vars PROVE TypeOK'
    OBVIOUS
  <2>1. CASE DataAnswers
    <3>1. PICK answer \in Answers : Command(answer)
      BY <2>1 DEF DataAnswers
    <3>2. commands' \in Seq(Messages \cup Answers) /\ Len(commands') <= Cap
      BY <3>1 DEF Command, TypeOK
    <3>3. QED
      BY <2>1, <3>1, <3>2
         DEF DataAnswers, Command, TypeOK, told, fsmVars, timerVars
  <2>2. CASE HubSends
    <3>1. PICK m \in Messages : Command(m)
      BY <2>2, HubMessagesTyped DEF HubSends
    <3>2. commands' \in Seq(Messages \cup Answers) /\ Len(commands') <= Cap
      BY <3>1 DEF Command, TypeOK
    <3>3. QED
      BY <2>2, <3>1, <3>2
         DEF HubSends, Command, TypeOK, told, fsmVars, timerVars
  <2>3. CASE TakesCommand
    BY <2>3, CommandsTyped
  <2>4. CASE TakesActions
    BY <2>4 DEF TakesActions, TypeOK, coreVars, told, timerVars
  <2>5. CASE Sends
    BY <2>5, SendsTyped
  <2>6. CASE handle_action
    BY <2>6, HandleTyped
  <2>7. CASE step_inner
    BY <2>7, StepTyped
  <2>8. CASE RunFsmSendsActions
    <3>1. Head(fsmOut) \in Seq(Ops)
      BY <2>8 DEF RunFsmSendsActions, TypeOK
    <3>2. QED
      BY <2>8, <3>1 DEF RunFsmSendsActions, TypeOK, coreVars, told, timerVars
  <2>9. CASE fsm_watchdog_timer
    <3> USE DEF TypeOK, coreVars, told, fsmVars, W!Commands, W!TimerStates, Events
    <3>1. CASE W!TimerTakesCommand
      BY <2>9, <3>1 DEF W!TimerTakesCommand, fsm_watchdog_timer
    <3>2. CASE W!TimerTakesCommandAsleep
      BY <2>9, <3>2 DEF W!TimerTakesCommandAsleep, fsm_watchdog_timer
    <3>3. CASE W!TimerExpires
      BY <2>9, <3>3 DEF W!TimerExpires, fsm_watchdog_timer
    <3>4. CASE W!TimerSendsTimeout
      BY <2>9, <3>4 DEF W!TimerSendsTimeout, fsm_watchdog_timer
    <3>5. QED
      BY <2>9, <3>1, <3>2, <3>3, <3>4 DEF fsm_watchdog_timer, W!TimerStep
  <2>10. CASE UNCHANGED vars
    BY <2>10 DEF vars, coreVars, told, fsmVars, timerVars, TypeOK
  <2>11. QED
    BY <2>1, <2>2, <2>3, <2>4, <2>5, <2>6, <2>7, <2>8, <2>9, <2>10
       DEF Next, TakesCommand, Sends
<1>3. QED
  BY <1>1, <1>2, PTL DEF Spec
-----------------------------------------------------------------------------
(* The hierarchy of the state is inductive on its own.                     *)

\* The transitions are the only steps that touch the state.
LEMMA OnlyStepsMoveFsm ==
  ASSUME [Next]_vars, ~step_inner
  PROVE  fsm' = fsm
<1> USE DEF coreVars, told, fsmVars, timerVars
<1>1. CASE DataAnswers \/ HubSends
  BY <1>1 DEF DataAnswers, HubSends, Command
<1>2. CASE TakesCommand
  BY <1>2 DEF TakesCommand, TakesHandshake, quorum_phase, quorum_safe_mode,
              TakesErrorEpoch, TakesEpoch, Receives
<1>3. CASE TakesActions \/ RunFsmSendsActions \/ fsm_watchdog_timer
  BY <1>3 DEF TakesActions, RunFsmSendsActions, fsm_watchdog_timer
<1>4. CASE Sends
  BY <1>4 DEF Sends, SendsEvent, SendsTimerCommand, SendsToCore,
              SendsHeartbeatMode, SendsEdgeState
<1>5. CASE handle_action
  BY <1>5 DEF handle_action, OnEntryInitBalanceMode, on_entry_in_handshake,
              on_entry_out_handshake, OnEntryOtherBalance, OnEntryCheckQuorum,
              on_entry_repeat_handshake, DoCalculateQuorum, OnEntryPhase,
              on_entry_normal, on_entry_safe_mode, Executes
<1>6. CASE UNCHANGED vars
  BY <1>6 DEF vars
<1>7. QED
  BY <1>1, <1>2, <1>3, <1>4, <1>5, <1>6 DEF Next, TakesCommand, Sends

\* What a transition of balance mode knows of the state it starts in.
LEMMA LeafShape ==
  ASSUME fsm \in FsmValues, Hierarchy
  PROVE  /\ In({"InitBalanceMode"}) =>
              fsm.balance = "InitBalanceMode" /\ fsm.quorum = None /\ fsm.phase = None
         /\ In({"InHandshake"}) =>
              fsm.balance = "InHandshake" /\ fsm.quorum = None /\ fsm.phase = None
         /\ In({"OutHandshake"}) =>
              fsm.balance = "OutHandshake" /\ fsm.quorum = None /\ fsm.phase = None
         /\ \A q \in SubStateQuorum : In({q}) =>
              fsm.balance = "Quorum" /\ fsm.quorum = q /\ fsm.phase = None
         /\ \A p \in SubStatePhase : In({p}) =>
              fsm.balance = "Phase" /\ fsm.quorum = None /\ fsm.phase = p
BY DEF FsmValues, Hierarchy, In, Leaf, SubStateBalanceMode, SubStateQuorum,
       SubStatePhase, None

\* The table of transitions keeps the hierarchy.
LEMMA StepKeepsHierarchy ==
  ASSUME fsm \in FsmValues, Hierarchy, step_inner
  PROVE  Hierarchy'
<1> USE LeafShape
    DEF Hierarchy, FsmValues, Becomes, Transition, None, StateGlobal,
        SubStateBalanceMode, SubStateQuorum, SubStatePhase
<1>1. CASE step_start
  BY <1>1 DEF step_start
<1>2. CASE state_init_balance_mode_event_balance_epoch
  BY <1>2 DEF state_init_balance_mode_event_balance_epoch
<1>3. CASE state_init_balance_mode_event_balance_epoch_not_ok
  BY <1>3 DEF state_init_balance_mode_event_balance_epoch_not_ok
<1>4. CASE state_in_handshake_event_timeout
  BY <1>4 DEF state_in_handshake_event_timeout
<1>5. CASE state_out_handshake_event_timeout
  BY <1>5 DEF state_out_handshake_event_timeout
<1>6. CASE state_repeat_handshake_in
  BY <1>6 DEF state_repeat_handshake_in
<1>7. CASE state_repeat_handshake_out
  BY <1>7 DEF state_repeat_handshake_out
<1>8. CASE new_message_handshake
  BY <1>8 DEF new_message_handshake
<1>9. CASE HandshakeNotApproved
  BY <1>9 DEF HandshakeNotApproved
<1>10. CASE approve_in
  <2>1. fsm.global = "BalanceMode"
    BY <1>10 DEF approve_in, In
  <2>2. fsm' = [fsm EXCEPT !.balance = "Phase", !.phase = "Alert",
                          !.quorum = None]
    BY <1>10 DEF approve_in
  <2>3. QED
    BY <2>1, <2>2
<1>11. CASE approve_out
  <2>1. fsm.phase = None
    BY <1>11 DEF approve_out, In, Leaf
  <2>2. fsm' = [fsm EXCEPT !.balance = None, !.quorum = None,
                          !.global = "Normal"]
    BY <1>11 DEF approve_out
  <2>3. QED
    BY <2>1, <2>2
<1>12. CASE state_check_quorum_in_event_not_approve
  BY <1>12 DEF state_check_quorum_in_event_not_approve
<1>13. CASE state_check_quorum_out_event_not_approve
  BY <1>13 DEF state_check_quorum_out_event_not_approve
<1>14. CASE state_check_quorum_event_not_and_not
  <2>1. fsm.phase = None
    BY <1>14 DEF state_check_quorum_event_not_and_not, In, Leaf, Checks
  <2>2. fsm' = [fsm EXCEPT !.global = "SafeMode", !.balance = None,
                          !.quorum = None]
    BY <1>14 DEF state_check_quorum_event_not_and_not
  <2>3. QED
    BY <2>1, <2>2
<1>15. CASE state_alert_event_timeout_or_quorum
  BY <1>15 DEF state_alert_event_timeout_or_quorum
<1>16. CASE state_data_event_timeout_or_quorum
  BY <1>16 DEF state_data_event_timeout_or_quorum
<1>17. CASE state_monitor_event_timeout_or_quorum
  BY <1>17 DEF state_monitor_event_timeout_or_quorum
<1>18. CASE step_safe_mode
  BY <1>18 DEF step_safe_mode
<1>19. CASE invalid
  BY <1>19 DEF invalid, fsmVars
<1>20. QED
  BY <1>1, <1>2, <1>3, <1>4, <1>5, <1>6, <1>7, <1>8, <1>9, <1>10, <1>11,
     <1>12, <1>13, <1>14, <1>15, <1>16, <1>17, <1>18, <1>19
     DEF step_inner, step_balance_mode

\* A sub-state is set exactly while its parent is active.
THEOREM HierarchyHolds == Spec => []Hierarchy
<1>1. Init => Hierarchy
  BY DEF Init, Hierarchy, None
<1>2. TypeOK /\ Hierarchy /\ [Next]_vars => Hierarchy'
  <2> SUFFICES ASSUME TypeOK, Hierarchy, [Next]_vars PROVE Hierarchy'
    OBVIOUS
  <2>1. CASE step_inner
    BY <2>1, StepKeepsHierarchy DEF TypeOK, FsmValues
  <2>2. CASE ~step_inner
    BY <2>2, OnlyStepsMoveFsm DEF Hierarchy
  <2>3. QED
    BY <2>1, <2>2
<1>3. QED
  BY <1>1, <1>2, TypeCorrect, PTL DEF Spec
-----------------------------------------------------------------------------
(* What a step of the machine sends to the coordinator.                    *)

\* The action that tells the coordinator of the state f.
Tells(op, f) ==
    \/ f.global = "SafeMode" /\ op = Op("OnEntrySafeMode", None)
    \/ f.global = "Normal" /\ op = Op("OnEntryNormal", None)
    \/ /\ f.global = "BalanceMode"
       /\ \/ f.balance = "Quorum" /\ op = Op("OnEntryQuorum", f.quorum)
          \/ f.balance = "Phase" /\ op = Op("OnEntryPhase", f.phase)
          \/ f.balance \notin {"Quorum", "Phase"}
               /\ op = Op("OnEntryBalance", f.balance)

\* Actions that neither change the session nor lead to an event or a sleep.
Neutral(op) ==
    \/ op.do = "heartbeat" \/ op = StopTimer
    \/ op.do = "OnEntryBalance" /\ op.arg \in {"Quorum", "Phase"}
AllNeutral(vec) == vec \in Seq(Ops) /\ \A i \in DOMAIN vec : Neutral(vec[i])

\* A new state is entered: the last action of the vector tells of it.  On the
\* way to the check of a quorum the watchdog is not stopped.
EntryOf(vec, f) ==
    \E front, op :
        /\ AllNeutral(front) /\ op \in Ops /\ Tells(op, f)
        /\ vec = Append(front, op)
        /\ f.quorum \in Checks => \A i \in DOMAIN front : front[i] # StopTimer

TakesAnEvent == events # <<>> /\ events' = Tail(events) /\ fsmOut = <<>>

\* An event is dropped, or answered without a change of state, or leads to
\* another state; and there is the step out of Start.
StepKinds ==
    /\ UNCHANGED <<coreVars, session, todo, told, actions, timerVars>>
    /\ \/ /\ TakesAnEvent /\ Head(events) \notin Accepted
          /\ fsm.global # "Start" /\ UNCHANGED <<fsm, fsmOut>>
       \/ /\ TakesAnEvent /\ fsm' = fsm
          /\ In(Handshakes) /\ Head(events) # "Timeout"
          /\ fsmOut' \in {<< <<>> >>, << <<CalculateQuorum>> >>}
       \/ /\ TakesAnEvent /\ fsm.global \notin {"Start", "Normal"}
          /\ fsm'.global # "Start" /\ fsm'.balance # "InitBalanceMode"
          /\ \E vec : fsmOut' = <<vec>> /\ EntryOf(vec, fsm')
       \/ /\ events' = events /\ fsm.global = "Start"
          /\ fsm'.global = "BalanceMode" /\ fsm'.balance = "InitBalanceMode"
          /\ fsmOut' = << <<Op("OnEntryBalance", "InitBalanceMode")>> >>

\* The elements of a concatenation.
LEMMA Concats ==
  \A a, b : /\ <<>> \o <<>> = <<>>
            /\ <<a>> \o <<>> = <<a>>
            /\ <<>> \o <<a>> = <<a>>
            /\ <<a>> \o <<b>> = <<a, b>>
            /\ <<a, b>> \o <<>> = <<a, b>>
<1>1. SUFFICES ASSUME NEW a, NEW b
               PROVE  /\ <<>> \o <<>> = <<>> /\ <<a>> \o <<>> = <<a>>
                      /\ <<>> \o <<a>> = <<a>> /\ <<a>> \o <<b>> = <<a, b>>
                      /\ <<a, b>> \o <<>> = <<a, b>>
  OBVIOUS
<1>2. <<>> \in Seq({a, b}) /\ <<a>> \in Seq({a, b}) /\ <<b>> \in Seq({a, b})
      /\ <<a, b>> \in Seq({a, b})
  OBVIOUS
<1>3. <<a>> \o <<b>> = <<a, b>>
  <2>1. <<a>> \o <<b>> \in Seq({a, b}) /\ Len(<<a>> \o <<b>>) = 2
    BY <1>2
  <2>2. (<<a>> \o <<b>>)[1] = a /\ (<<a>> \o <<b>>)[2] = b
    BY <1>2
  <2>3. \A i \in 1 .. 2 : (<<a>> \o <<b>>)[i] = <<a, b>>[i]
    BY <2>2
  <2>4. Len(<<a, b>>) = 2
    OBVIOUS
  <2>5. QED
    BY <1>2, <2>1, <2>3, <2>4, SeqEqual
<1>4. QED
  BY <1>2, <1>3, ConcatEmptySeq

\* One more element behind two.
LEMMA ConcatPair == \A a, b, c : <<a, b>> \o <<c>> = <<a, b, c>>
<1>1. SUFFICES ASSUME NEW a, NEW b, NEW c
               PROVE  <<a, b>> \o <<c>> = <<a, b, c>>
  OBVIOUS
<1>2. <<a, b>> \in Seq({a, b, c}) /\ <<c>> \in Seq({a, b, c})
      /\ <<a, b, c>> \in Seq({a, b, c})
  OBVIOUS
<1>3. <<a, b>> \o <<c>> \in Seq({a, b, c}) /\ Len(<<a, b>> \o <<c>>) = 3
  BY <1>2
<1>4. \A i \in 1 .. 3 : (<<a, b>> \o <<c>>)[i] = <<a, b, c>>[i]
  <2>1. /\ (<<a, b>> \o <<c>>)[1] = a /\ (<<a, b>> \o <<c>>)[2] = b
        /\ (<<a, b>> \o <<c>>)[3] = c
    BY <1>2
  <2>2. QED
    BY <2>1
<1>5. Len(<<a, b, c>>) = 3
  OBVIOUS
<1>6. QED
  BY <1>2, <1>3, <1>4, <1>5, SeqEqual

\* The entry actions of a transition, by the parts of the state it changes.
LEMMA EntryIs ==
  ASSUME NEW old \in FsmValues, NEW new \in FsmValues
  PROVE  LET e == compute_on_entry(old, new)
             NoBalance == old.balance = new.balance \/ new.balance = None
             NoQuorum  == old.quorum = new.quorum \/ new.quorum = None
             NoPhase   == old.phase = new.phase \/ new.phase = None
             NoGlobal  == old.global = new.global \/ new.global = "BalanceMode"
             Balance   == old.balance # new.balance /\ new.balance # None
             Quorum    == old.quorum # new.quorum /\ new.quorum # None
             Phase     == old.phase # new.phase /\ new.phase # None
             Global    == old.global # new.global
         IN  /\ Balance /\ NoQuorum /\ NoGlobal /\ NoPhase
                => e = <<Op("OnEntryBalance", new.balance)>>
             /\ NoBalance /\ Quorum /\ NoGlobal /\ NoPhase
                => e = <<Op("OnEntryQuorum", new.quorum)>>
             /\ NoBalance /\ NoQuorum /\ NoGlobal /\ Phase
                => e = <<Op("OnEntryPhase", new.phase)>>
             /\ NoBalance /\ NoQuorum /\ Global /\ new.global = "Normal" /\ NoPhase
                => e = <<Op("OnEntryNormal", None)>>
             /\ NoBalance /\ NoQuorum /\ Global /\ new.global = "SafeMode" /\ NoPhase
                => e = <<Op("OnEntrySafeMode", None)>>
             /\ Balance /\ Quorum /\ NoGlobal /\ NoPhase
                => e = <<Op("OnEntryBalance", new.balance),
                         Op("OnEntryQuorum", new.quorum)>>
             /\ Balance /\ NoQuorum /\ NoGlobal /\ Phase
                => e = <<Op("OnEntryBalance", new.balance),
                         Op("OnEntryPhase", new.phase)>>
             /\ NoBalance /\ NoQuorum /\ NoGlobal /\ NoPhase => e = <<>>
<1> DEFINE B == IF old.balance # new.balance /\ new.balance # None
                  THEN <<Op("OnEntryBalance", new.balance)>> ELSE <<>>
           Q == IF old.quorum # new.quorum /\ new.quorum # None
                  THEN <<Op("OnEntryQuorum", new.quorum)>> ELSE <<>>
           N == IF old.global # new.global /\ new.global = "Normal"
                  THEN <<Op("OnEntryNormal", None)>> ELSE <<>>
           S == IF old.global # new.global /\ new.global = "SafeMode"
                  THEN <<Op("OnEntrySafeMode", None)>> ELSE <<>>
           P == IF old.phase # new.phase /\ new.phase # None
                  THEN <<Op("OnEntryPhase", new.phase)>> ELSE <<>>
<1>1. compute_on_entry(old, new) = B \o Q \o N \o S \o P
  BY DEF compute_on_entry
<1>2. /\ old.balance = new.balance \/ new.balance = None => B = <<>>
      /\ old.balance # new.balance /\ new.balance # None
           => B = <<Op("OnEntryBalance", new.balance)>>
  OBVIOUS
<1>3. /\ old.quorum = new.quorum \/ new.quorum = None => Q = <<>>
      /\ old.quorum # new.quorum /\ new.quorum # None
           => Q = <<Op("OnEntryQuorum", new.quorum)>>
  OBVIOUS
<1>4. /\ old.global = new.global \/ new.global = "BalanceMode"
           => N = <<>> /\ S = <<>>
      /\ old.global # new.global /\ new.global = "Normal"
           => N = <<Op("OnEntryNormal", None)>> /\ S = <<>>
      /\ old.global # new.global /\ new.global = "SafeMode"
           => N = <<>> /\ S = <<Op("OnEntrySafeMode", None)>>
  OBVIOUS
<1>5. /\ old.phase = new.phase \/ new.phase = None => P = <<>>
      /\ old.phase # new.phase /\ new.phase # None
           => P = <<Op("OnEntryPhase", new.phase)>>
  OBVIOUS
<1> HIDE DEF B, Q, N, S, P
<1>6. ASSUME NEW b, NEW q
      PROVE  /\ <<b>> \o <<>> \o <<>> \o <<>> \o <<>> = <<b>>
             /\ <<>> \o <<b>> \o <<>> \o <<>> \o <<>> = <<b>>
             /\ <<>> \o <<>> \o <<b>> \o <<>> \o <<>> = <<b>>
             /\ <<>> \o <<>> \o <<>> \o <<b>> \o <<>> = <<b>>
             /\ <<>> \o <<>> \o <<>> \o <<>> \o <<b>> = <<b>>
             /\ <<b>> \o <<q>> \o <<>> \o <<>> \o <<>> = <<b, q>>
             /\ <<b>> \o <<>> \o <<>> \o <<>> \o <<q>> = <<b, q>>
             /\ <<>> \o <<>> \o <<>> \o <<>> \o <<>> = <<>>
  BY Concats
<1>7. QED
  BY <1>1, <1>2, <1>3, <1>4, <1>5, <1>6

\* A transition that takes an event and sends acts before the entry actions.
Moves(acts) ==
    /\ TakesAnEvent /\ fsm \in FsmValues /\ fsm' \in FsmValues
    /\ fsmOut' = << acts \o compute_on_entry(fsm, fsm') >>
    /\ UNCHANGED <<coreVars, session, todo, told, actions, timerVars>>

\* A transition hands its actions on, with the entries of the new state behind them.
LEMMA TransitionMoves ==
  ASSUME TypeOK, TypeOK', NEW e, NEW next, NEW acts, Transition(e, next, acts)
  PROVE  Moves(acts) /\ fsm' = next
BY DEF TypeOK, FsmValues, Transition, Becomes, TakesEvent, Moves, TakesAnEvent

\* A transition to another state ends in the entry action that tells of it.
LEMMA MovesEnter ==
  ASSUME NEW acts, AllNeutral(acts), Moves(acts),
         fsm.global \notin {"Start", "Normal"}, fsm'.global # "Start",
         fsm'.balance # "InitBalanceMode",
         fsm'.quorum \in Checks => acts = <<>>,
         NEW op \in Ops, Tells(op, fsm'),
         \/ compute_on_entry(fsm, fsm') = <<op>>
         \/ \E o \in Ops : /\ Neutral(o) /\ o # StopTimer
                          /\ compute_on_entry(fsm, fsm') = <<o, op>>
  PROVE  StepKinds
<1>1. PICK front : /\ AllNeutral(front)
                   /\ compute_on_entry(fsm, fsm') = Append(front, op)
                   /\ \A i \in DOMAIN front : front[i] # StopTimer
  <2>1. CASE compute_on_entry(fsm, fsm') = <<op>>
    <3>1. AllNeutral(<<>>) /\ <<op>> = Append(<<>>, op)
      BY DEF AllNeutral
    <3>2. QED
      BY <2>1, <3>1
  <2>2. CASE compute_on_entry(fsm, fsm') # <<op>>
    <3>1. PICK o \in Ops : /\ Neutral(o) /\ o # StopTimer
                           /\ compute_on_entry(fsm, fsm') = <<o, op>>
      BY <2>2
    <3>2. /\ AllNeutral(<<o>>) /\ <<o, op>> = Append(<<o>>, op)
          /\ \A i \in DOMAIN <<o>> : <<o>>[i] # StopTimer
      BY <3>1 DEF AllNeutral
    <3>3. QED
      BY <3>1, <3>2
  <2>3. QED
    BY <2>1, <2>2
<1>2. acts \in Seq(Ops) /\ front \in Seq(Ops) /\ <<op>> \in Seq(Ops)
  BY <1>1 DEF AllNeutral
<1>3. AllNeutral(acts \o front)
  BY <1>1, <1>2 DEF AllNeutral
<1>4. acts \o Append(front, op) = Append(acts \o front, op)
  BY <1>2, AppendIsConcat, ConcatAssociative, ConcatProperties
<1>5. fsm'.quorum \in Checks => acts \o front = front
  BY <1>2, ConcatEmptySeq
<1>6. EntryOf(acts \o Append(front, op), fsm')
  BY <1>1, <1>3, <1>4, <1>5 DEF EntryOf
<1>7. QED
  BY <1>1, <1>6 DEF Moves, StepKinds

\* Actions that tell of no state.
LEMMA NeutralActs ==
  /\ AllNeutral(<<>>) /\ AllNeutral(<<StopTimer>>)
  /\ AllNeutral(<<Op("heartbeat", "StopPhase"), StopTimer>>)
  /\ AllNeutral(<<Op("heartbeat", "StopSafeMode")>>)
<1>1. /\ Op("heartbeat", "StopPhase") \in Ops /\ Neutral(Op("heartbeat", "StopPhase"))
      /\ Op("heartbeat", "StopSafeMode") \in Ops
      /\ Neutral(Op("heartbeat", "StopSafeMode"))
      /\ StopTimer \in Ops /\ Neutral(StopTimer)
  BY OpsMade DEF Modes, Neutral, Op
<1>2. \A a, b \in Ops : Neutral(a) /\ Neutral(b) =>
        AllNeutral(<<a>>) /\ AllNeutral(<<a, b>>)
  <2>1. SUFFICES ASSUME NEW a \in Ops, NEW b \in Ops, Neutral(a), Neutral(b)
                 PROVE  AllNeutral(<<a>>) /\ AllNeutral(<<a, b>>)
    OBVIOUS
  <2>2. \A i \in DOMAIN <<a, b>> : <<a, b>>[i] = a \/ <<a, b>>[i] = b
    OBVIOUS
  <2>3. QED
    BY <2>1, <2>2 DEF AllNeutral
<1>3. AllNeutral(<<>>)
  BY DEF AllNeutral
<1>4. QED
  BY <1>1, <1>2, <1>3

\* Every vector of the machine ends in the action that tells of the new state.
LEMMA StepVectors ==
  ASSUME TypeOK, Hierarchy, step_inner
  PROVE  StepKinds
<1> USE DEF StateGlobal, SubStateBalanceMode, SubStateQuorum, SubStatePhase, None
<1>0. TypeOK' /\ fsm \in FsmValues /\ fsm' \in FsmValues
  BY StepTyped DEF TypeOK, FsmValues
<1> HIDE DEF None
<1>1. CASE step_start
  <2>1. /\ fsm.balance = None /\ fsm.quorum = None /\ fsm.phase = None
        /\ fsm' = [fsm EXCEPT !.global = "BalanceMode", !.balance = "InitBalanceMode"]
        /\ fsmOut' = << <<>> \o compute_on_entry(fsm, fsm') >>
    BY <1>0, <1>1 DEF step_start, Becomes, Hierarchy, FsmValues, None
  <2>2. fsm'.balance = "InitBalanceMode" /\ fsm'.global = "BalanceMode"
        /\ fsm'.quorum = None /\ fsm'.phase = None
    BY <1>0, <2>1 DEF FsmValues
  <2>3. compute_on_entry(fsm, fsm') = <<Op("OnEntryBalance", "InitBalanceMode")>>
    BY <1>0, <2>1, <2>2, EntryIs DEF None
  <2>4. fsmOut' = << <<Op("OnEntryBalance", "InitBalanceMode")>> >>
    BY <2>1, <2>3, Concats
  <2>5. QED
    BY <1>1, <2>2, <2>4 DEF step_start, Becomes, StepKinds
<1>2. CASE state_init_balance_mode_event_balance_epoch
  <2>1. /\ Moves(<<>>)
        /\ fsm' = [fsm EXCEPT !.balance = "InHandshake"]
    BY <1>0, <1>2, TransitionMoves DEF state_init_balance_mode_event_balance_epoch
  <2>2. /\ fsm'.global = "BalanceMode" /\ fsm'.balance = "InHandshake"
        /\ fsm'.quorum = None /\ fsm'.phase = None
    BY <1>0, <1>2, <2>1, LeafShape
       DEF state_init_balance_mode_event_balance_epoch, In, Leaf, FsmValues,
           Hierarchy, Checks
  <2>3. fsm.global \notin {"Start", "Normal"}
    BY <1>2 DEF state_init_balance_mode_event_balance_epoch, In
  <2>4. compute_on_entry(fsm, fsm') = <<Op("OnEntryBalance", "InHandshake")>>
    BY <1>0, <1>2, <2>2, LeafShape, EntryIs
       DEF state_init_balance_mode_event_balance_epoch, In, Leaf, FsmValues,
           Hierarchy, Checks, None
  <2>5. /\ Tells(Op("OnEntryBalance", "InHandshake"), fsm')
        /\ Op("OnEntryBalance", "InHandshake") \in Ops
    BY <2>2, OpsMade DEF Tells, Neutral, Op
  <2>6. QED
    BY <2>1, <2>2, <2>3, <2>4, <2>5, MovesEnter, NeutralActs DEF Checks, None
<1>3. CASE state_init_balance_mode_event_balance_epoch_not_ok
  <2>1. /\ Moves(<<>>)
        /\ fsm' = [fsm EXCEPT !.balance = None, !.global = "SafeMode"]
    BY <1>0, <1>3, TransitionMoves
       DEF state_init_balance_mode_event_balance_epoch_not_ok
  <2>2. /\ fsm'.global = "SafeMode" /\ fsm'.balance = None
        /\ fsm'.quorum = None /\ fsm'.phase = None
    BY <1>0, <1>3, <2>1, LeafShape
       DEF state_init_balance_mode_event_balance_epoch_not_ok, In, Leaf, FsmValues,
           Hierarchy, Checks
  <2>3. fsm.global \notin {"Start", "Normal"}
    BY <1>3 DEF state_init_balance_mode_event_balance_epoch_not_ok, In
  <2>4. compute_on_entry(fsm, fsm') = <<Op("OnEntrySafeMode", None)>>
    BY <1>0, <1>3, <2>2, LeafShape, EntryIs
       DEF state_init_balance_mode_event_balance_epoch_not_ok, In, Leaf, FsmValues,
           Hierarchy, Checks, None
  <2>5. /\ Tells(Op("OnEntrySafeMode", None), fsm')
        /\ Op("OnEntrySafeMode", None) \in Ops
    BY <2>2, OpsMade DEF Tells, Neutral, Op
  <2>6. QED
    BY <2>1, <2>2, <2>3, <2>4, <2>5, MovesEnter, NeutralActs DEF Checks, None
<1>4. CASE state_in_handshake_event_timeout
  <2>1. /\ Moves(<<>>)
        /\ fsm' = [fsm EXCEPT !.balance = "Quorum", !.quorum = "CheckQuorumIn"]
    BY <1>0, <1>4, TransitionMoves DEF state_in_handshake_event_timeout
  <2>2. /\ fsm'.global = "BalanceMode" /\ fsm'.balance = "Quorum"
        /\ fsm'.quorum = "CheckQuorumIn" /\ fsm'.phase = None
    BY <1>0, <1>4, <2>1, LeafShape
       DEF state_in_handshake_event_timeout, In, Leaf, FsmValues, Hierarchy, Checks
  <2>3. fsm.global \notin {"Start", "Normal"}
    BY <1>4 DEF state_in_handshake_event_timeout, In
  <2>4. compute_on_entry(fsm, fsm')
          = <<Op("OnEntryBalance", "Quorum"), Op("OnEntryQuorum", "CheckQuorumIn")>>
    BY <1>0, <1>4, <2>2, LeafShape, EntryIs
       DEF state_in_handshake_event_timeout, In, Leaf, FsmValues, Hierarchy, Checks,
           None
  <2>5. /\ Tells(Op("OnEntryQuorum", "CheckQuorumIn"), fsm')
        /\ Op("OnEntryQuorum", "CheckQuorumIn") \in Ops
        /\ Neutral(Op("OnEntryBalance", "Quorum"))
        /\ Op("OnEntryBalance", "Quorum") \in Ops
        /\ Op("OnEntryBalance", "Quorum") # StopTimer
    BY <2>2, OpsMade DEF Tells, Neutral, Op, StopTimer
  <2>6. QED
    BY <2>1, <2>2, <2>3, <2>4, <2>5, MovesEnter, NeutralActs DEF Checks, None
<1>5. CASE state_out_handshake_event_timeout
  <2>1. /\ Moves(<<>>)
        /\ fsm' = [fsm EXCEPT !.balance = "Quorum", !.quorum = "CheckQuorumOut"]
    BY <1>0, <1>5, TransitionMoves DEF state_out_handshake_event_timeout
  <2>2. /\ fsm'.global = "BalanceMode" /\ fsm'.balance = "Quorum"
        /\ fsm'.quorum = "CheckQuorumOut" /\ fsm'.phase = None
    BY <1>0, <1>5, <2>1, LeafShape
       DEF state_out_handshake_event_timeout, In, Leaf, FsmValues, Hierarchy, Checks
  <2>3. fsm.global \notin {"Start", "Normal"}
    BY <1>5 DEF state_out_handshake_event_timeout, In
  <2>4. compute_on_entry(fsm, fsm')
          = <<Op("OnEntryBalance", "Quorum"), Op("OnEntryQuorum", "CheckQuorumOut")>>
    BY <1>0, <1>5, <2>2, LeafShape, EntryIs
       DEF state_out_handshake_event_timeout, In, Leaf, FsmValues, Hierarchy,
           Checks, None
  <2>5. /\ Tells(Op("OnEntryQuorum", "CheckQuorumOut"), fsm')
        /\ Op("OnEntryQuorum", "CheckQuorumOut") \in Ops
        /\ Neutral(Op("OnEntryBalance", "Quorum"))
        /\ Op("OnEntryBalance", "Quorum") \in Ops
        /\ Op("OnEntryBalance", "Quorum") # StopTimer
    BY <2>2, OpsMade DEF Tells, Neutral, Op, StopTimer
  <2>6. QED
    BY <2>1, <2>2, <2>3, <2>4, <2>5, MovesEnter, NeutralActs DEF Checks, None
<1>6. CASE state_repeat_handshake_in
  <2>1. /\ Moves(<<>>)
        /\ fsm' = [fsm EXCEPT !.quorum = "CheckQuorumIn"]
    BY <1>0, <1>6, TransitionMoves DEF state_repeat_handshake_in
  <2>2. /\ fsm'.global = "BalanceMode" /\ fsm'.balance = "Quorum"
        /\ fsm'.quorum = "CheckQuorumIn" /\ fsm'.phase = None
    BY <1>0, <1>6, <2>1, LeafShape
       DEF state_repeat_handshake_in, In, Leaf, FsmValues, Hierarchy, Checks
  <2>3. fsm.global \notin {"Start", "Normal"}
    BY <1>6 DEF state_repeat_handshake_in, In
  <2>4. compute_on_entry(fsm, fsm') = <<Op("OnEntryQuorum", "CheckQuorumIn")>>
    BY <1>0, <1>6, <2>2, LeafShape, EntryIs
       DEF state_repeat_handshake_in, In, Leaf, FsmValues, Hierarchy, Checks, None
  <2>5. /\ Tells(Op("OnEntryQuorum", "CheckQuorumIn"), fsm')
        /\ Op("OnEntryQuorum", "CheckQuorumIn") \in Ops
    BY <2>2, OpsMade DEF Tells, Neutral, Op
  <2>6. QED
    BY <2>1, <2>2, <2>3, <2>4, <2>5, MovesEnter, NeutralActs DEF Checks, None
<1>7. CASE state_repeat_handshake_out
  <2>1. /\ Moves(<<>>)
        /\ fsm' = [fsm EXCEPT !.quorum = "CheckQuorumOut"]
    BY <1>0, <1>7, TransitionMoves DEF state_repeat_handshake_out
  <2>2. /\ fsm'.global = "BalanceMode" /\ fsm'.balance = "Quorum"
        /\ fsm'.quorum = "CheckQuorumOut" /\ fsm'.phase = None
    BY <1>0, <1>7, <2>1, LeafShape
       DEF state_repeat_handshake_out, In, Leaf, FsmValues, Hierarchy, Checks
  <2>3. fsm.global \notin {"Start", "Normal"}
    BY <1>7 DEF state_repeat_handshake_out, In
  <2>4. compute_on_entry(fsm, fsm') = <<Op("OnEntryQuorum", "CheckQuorumOut")>>
    BY <1>0, <1>7, <2>2, LeafShape, EntryIs
       DEF state_repeat_handshake_out, In, Leaf, FsmValues, Hierarchy, Checks, None
  <2>5. /\ Tells(Op("OnEntryQuorum", "CheckQuorumOut"), fsm')
        /\ Op("OnEntryQuorum", "CheckQuorumOut") \in Ops
    BY <2>2, OpsMade DEF Tells, Neutral, Op
  <2>6. QED
    BY <2>1, <2>2, <2>3, <2>4, <2>5, MovesEnter, NeutralActs DEF Checks, None
<1>8. CASE new_message_handshake
  <2>1. /\ Moves(<<CalculateQuorum>>)
        /\ fsm' = fsm
    BY <1>0, <1>8, TransitionMoves DEF new_message_handshake
  <2>2. compute_on_entry(fsm, fsm') = <<>>
    BY <1>0, <2>1, EntryIs
  <2>3. fsmOut' = << <<CalculateQuorum>> >>
    BY <2>1, <2>2, Concats DEF Moves
  <2>4. In(Handshakes) /\ Head(events) # "Timeout"
    BY <1>8 DEF new_message_handshake, Transition, TakesEvent
  <2>5. QED
    BY <2>1, <2>3, <2>4 DEF Moves, StepKinds
<1>9. CASE HandshakeNotApproved
  <2>1. /\ Moves(<<>>)
        /\ fsm' = fsm
    BY <1>0, <1>9, TransitionMoves DEF HandshakeNotApproved
  <2>2. compute_on_entry(fsm, fsm') = <<>>
    BY <1>0, <2>1, EntryIs
  <2>3. fsmOut' = << <<>> >>
    BY <2>1, <2>2, Concats DEF Moves
  <2>4. In(Handshakes) /\ Head(events) # "Timeout"
    BY <1>9 DEF HandshakeNotApproved, Transition, TakesEvent
  <2>5. QED
    BY <2>1, <2>3, <2>4 DEF Moves, StepKinds
<1>10. CASE approve_in
  <2>1. /\ Moves(<<StopTimer>>)
        /\ fsm' = [fsm EXCEPT !.balance = "Phase", !.phase = "Alert",
                          !.quorum = None]
    BY <1>0, <1>10, TransitionMoves DEF approve_in
  <2>2. /\ fsm'.global = "BalanceMode" /\ fsm'.balance = "Phase"
        /\ fsm'.quorum = None /\ fsm'.phase = "Alert"
    BY <1>0, <1>10, <2>1, LeafShape
       DEF approve_in, In, Leaf, FsmValues, Hierarchy, Checks
  <2>3. fsm.global \notin {"Start", "Normal"}
    BY <1>10 DEF approve_in, In
  <2>4. compute_on_entry(fsm, fsm')
          = <<Op("OnEntryBalance", "Phase"), Op("OnEntryPhase", "Alert")>>
    BY <1>0, <1>10, <2>2, LeafShape, EntryIs
       DEF approve_in, In, Leaf, FsmValues, Hierarchy, Checks, None
  <2>5. /\ Tells(Op("OnEntryPhase", "Alert"), fsm')
        /\ Op("OnEntryPhase", "Alert") \in Ops
        /\ Neutral(Op("OnEntryBalance", "Phase"))
        /\ Op("OnEntryBalance", "Phase") \in Ops
        /\ Op("OnEntryBalance", "Phase") # StopTimer
    BY <2>2, OpsMade DEF Tells, Neutral, Op, StopTimer
  <2>6. QED
    BY <2>1, <2>2, <2>3, <2>4, <2>5, MovesEnter, NeutralActs DEF Checks, None
<1>11. CASE approve_out
  <2>1. /\ Moves(<<StopTimer>>)
        /\ fsm' = [fsm EXCEPT !.balance = None, !.quorum = None,
                          !.global = "Normal"]
    BY <1>0, <1>11, TransitionMoves DEF approve_out
  <2>2. /\ fsm'.global = "Normal" /\ fsm'.balance = None
        /\ fsm'.quorum = None /\ fsm'.phase = None
    BY <1>0, <1>11, <2>1, LeafShape
       DEF approve_out, In, Leaf, FsmValues, Hierarchy, Checks
  <2>3. fsm.global \notin {"Start", "Normal"}
    BY <1>11 DEF approve_out, In
  <2>4. compute_on_entry(fsm, fsm') = <<Op("OnEntryNormal", None)>>
    BY <1>0, <1>11, <2>2, LeafShape, EntryIs
       DEF approve_out, In, Leaf, FsmValues, Hierarchy, Checks, None
  <2>5. Tells(Op("OnEntryNormal", None), fsm') /\ Op("OnEntryNormal", None) \in Ops
    BY <2>2, OpsMade DEF Tells, Neutral, Op
  <2>6. QED
    BY <2>1, <2>2, <2>3, <2>4, <2>5, MovesEnter, NeutralActs DEF Checks, None
<1>12. CASE state_check_quorum_in_event_not_approve
  <2>1. /\ Moves(<<>>)
        /\ fsm' = [fsm EXCEPT !.quorum = "RepeatHandshakeIn"]
    BY <1>0, <1>12, TransitionMoves DEF state_check_quorum_in_event_not_approve
  <2>2. /\ fsm'.global = "BalanceMode" /\ fsm'.balance = "Quorum"
        /\ fsm'.quorum = "RepeatHandshakeIn" /\ fsm'.phase = None
    BY <1>0, <1>12, <2>1, LeafShape
       DEF state_check_quorum_in_event_not_approve, In, Leaf, FsmValues, Hierarchy,
           Checks
  <2>3. fsm.global \notin {"Start", "Normal"}
    BY <1>12 DEF state_check_quorum_in_event_not_approve, In
  <2>4. compute_on_entry(fsm, fsm') = <<Op("OnEntryQuorum", "RepeatHandshakeIn")>>
    BY <1>0, <1>12, <2>2, LeafShape, EntryIs
       DEF state_check_quorum_in_event_not_approve, In, Leaf, FsmValues, Hierarchy,
           Checks, None
  <2>5. /\ Tells(Op("OnEntryQuorum", "RepeatHandshakeIn"), fsm')
        /\ Op("OnEntryQuorum", "RepeatHandshakeIn") \in Ops
    BY <2>2, OpsMade DEF Tells, Neutral, Op
  <2>6. QED
    BY <2>1, <2>2, <2>3, <2>4, <2>5, MovesEnter, NeutralActs DEF Checks, None
<1>13. CASE state_check_quorum_out_event_not_approve
  <2>1. /\ Moves(<<>>)
        /\ fsm' = [fsm EXCEPT !.quorum = "RepeatHandshakeOut"]
    BY <1>0, <1>13, TransitionMoves DEF state_check_quorum_out_event_not_approve
  <2>2. /\ fsm'.global = "BalanceMode" /\ fsm'.balance = "Quorum"
        /\ fsm'.quorum = "RepeatHandshakeOut" /\ fsm'.phase = None
    BY <1>0, <1>13, <2>1, LeafShape
       DEF state_check_quorum_out_event_not_approve, In, Leaf, FsmValues, Hierarchy,
           Checks
  <2>3. fsm.global \notin {"Start", "Normal"}
    BY <1>13 DEF state_check_quorum_out_event_not_approve, In
  <2>4. compute_on_entry(fsm, fsm') = <<Op("OnEntryQuorum", "RepeatHandshakeOut")>>
    BY <1>0, <1>13, <2>2, LeafShape, EntryIs
       DEF state_check_quorum_out_event_not_approve, In, Leaf, FsmValues, Hierarchy,
           Checks, None
  <2>5. /\ Tells(Op("OnEntryQuorum", "RepeatHandshakeOut"), fsm')
        /\ Op("OnEntryQuorum", "RepeatHandshakeOut") \in Ops
    BY <2>2, OpsMade DEF Tells, Neutral, Op
  <2>6. QED
    BY <2>1, <2>2, <2>3, <2>4, <2>5, MovesEnter, NeutralActs DEF Checks, None
<1>14. CASE state_check_quorum_event_not_and_not
  <2>1. /\ Moves(<<>>)
        /\ fsm' = [fsm EXCEPT !.global = "SafeMode", !.balance = None,
                          !.quorum = None]
    BY <1>0, <1>14, TransitionMoves DEF state_check_quorum_event_not_and_not
  <2>2. /\ fsm'.global = "SafeMode" /\ fsm'.balance = None
        /\ fsm'.quorum = None /\ fsm'.phase = None
    BY <1>0, <1>14, <2>1, LeafShape
       DEF state_check_quorum_event_not_and_not, In, Leaf, FsmValues, Hierarchy,
           Checks
  <2>3. fsm.global \notin {"Start", "Normal"}
    BY <1>14 DEF state_check_quorum_event_not_and_not, In
  <2>4. compute_on_entry(fsm, fsm') = <<Op("OnEntrySafeMode", None)>>
    BY <1>0, <1>14, <2>2, LeafShape, EntryIs
       DEF state_check_quorum_event_not_and_not, In, Leaf, FsmValues, Hierarchy,
           Checks, None
  <2>5. /\ Tells(Op("OnEntrySafeMode", None), fsm')
        /\ Op("OnEntrySafeMode", None) \in Ops
    BY <2>2, OpsMade DEF Tells, Neutral, Op
  <2>6. QED
    BY <2>1, <2>2, <2>3, <2>4, <2>5, MovesEnter, NeutralActs DEF Checks, None
<1>15. CASE state_alert_event_timeout_or_quorum
  <2>1. /\ Moves(<<StopTimer>>)
        /\ fsm' = [fsm EXCEPT !.phase = "Data"]
    <3>1. PICK event \in PhaseOver :
            Transition(event, [fsm EXCEPT !.phase = "Data"],
                       <<StopTimer>>)
      BY <1>15 DEF state_alert_event_timeout_or_quorum
    <3>2. QED
      BY <1>0, <3>1, TransitionMoves
  <2>2. /\ fsm'.global = "BalanceMode" /\ fsm'.balance = "Phase"
        /\ fsm'.quorum = None /\ fsm'.phase = "Data"
    BY <1>0, <1>15, <2>1, LeafShape
       DEF state_alert_event_timeout_or_quorum, In, Leaf, FsmValues, Hierarchy,
           Checks
  <2>3. fsm.global \notin {"Start", "Normal"}
    BY <1>15 DEF state_alert_event_timeout_or_quorum, In
  <2>4. compute_on_entry(fsm, fsm') = <<Op("OnEntryPhase", "Data")>>
    BY <1>0, <1>15, <2>2, LeafShape, EntryIs
       DEF state_alert_event_timeout_or_quorum, In, Leaf, FsmValues, Hierarchy,
           Checks, None
  <2>5. Tells(Op("OnEntryPhase", "Data"), fsm') /\ Op("OnEntryPhase", "Data") \in Ops
    BY <2>2, OpsMade DEF Tells, Neutral, Op
  <2>6. QED
    BY <2>1, <2>2, <2>3, <2>4, <2>5, MovesEnter, NeutralActs DEF Checks, None
<1>16. CASE state_data_event_timeout_or_quorum
  <2>1. /\ Moves(<<StopTimer>>)
        /\ fsm' = [fsm EXCEPT !.phase = "Monitor"]
    <3>1. PICK event \in PhaseOver :
            Transition(event, [fsm EXCEPT !.phase = "Monitor"],
                       <<StopTimer>>)
      BY <1>16 DEF state_data_event_timeout_or_quorum
    <3>2. QED
      BY <1>0, <3>1, TransitionMoves
  <2>2. /\ fsm'.global = "BalanceMode" /\ fsm'.balance = "Phase"
        /\ fsm'.quorum = None /\ fsm'.phase = "Monitor"
    BY <1>0, <1>16, <2>1, LeafShape
       DEF state_data_event_timeout_or_quorum, In, Leaf, FsmValues, Hierarchy,
           Checks
  <2>3. fsm.global \notin {"Start", "Normal"}
    BY <1>16 DEF state_data_event_timeout_or_quorum, In
  <2>4. compute_on_entry(fsm, fsm') = <<Op("OnEntryPhase", "Monitor")>>
    BY <1>0, <1>16, <2>2, LeafShape, EntryIs
       DEF state_data_event_timeout_or_quorum, In, Leaf, FsmValues, Hierarchy,
           Checks, None
  <2>5. /\ Tells(Op("OnEntryPhase", "Monitor"), fsm')
        /\ Op("OnEntryPhase", "Monitor") \in Ops
    BY <2>2, OpsMade DEF Tells, Neutral, Op
  <2>6. QED
    BY <2>1, <2>2, <2>3, <2>4, <2>5, MovesEnter, NeutralActs DEF Checks, None
<1>17. CASE state_monitor_event_timeout_or_quorum
  <2>1. /\ Moves(<<Op("heartbeat", "StopPhase"), StopTimer>>)
        /\ fsm' = [fsm EXCEPT !.balance = "OutHandshake", !.phase = None]
    <3>1. PICK event \in PhaseOver :
            Transition(event, [fsm EXCEPT !.balance = "OutHandshake", !.phase = None],
                       <<Op("heartbeat", "StopPhase"), StopTimer>>)
      BY <1>17 DEF state_monitor_event_timeout_or_quorum
    <3>2. QED
      BY <1>0, <3>1, TransitionMoves
  <2>2. /\ fsm'.global = "BalanceMode" /\ fsm'.balance = "OutHandshake"
        /\ fsm'.quorum = None /\ fsm'.phase = None
    BY <1>0, <1>17, <2>1, LeafShape
       DEF state_monitor_event_timeout_or_quorum, In, Leaf, FsmValues, Hierarchy,
           Checks
  <2>3. fsm.global \notin {"Start", "Normal"}
    BY <1>17 DEF state_monitor_event_timeout_or_quorum, In
  <2>4. compute_on_entry(fsm, fsm') = <<Op("OnEntryBalance", "OutHandshake")>>
    BY <1>0, <1>17, <2>2, LeafShape, EntryIs
       DEF state_monitor_event_timeout_or_quorum, In, Leaf, FsmValues, Hierarchy,
           Checks, None
  <2>5. /\ Tells(Op("OnEntryBalance", "OutHandshake"), fsm')
        /\ Op("OnEntryBalance", "OutHandshake") \in Ops
    BY <2>2, OpsMade DEF Tells, Neutral, Op
  <2>6. QED
    BY <2>1, <2>2, <2>3, <2>4, <2>5, MovesEnter, NeutralActs DEF Checks, None
<1>18. CASE step_safe_mode
  <2>1. /\ Moves(<<Op("heartbeat", "StopSafeMode")>>)
        /\ fsm' = [fsm EXCEPT !.global = "Normal"]
    <3>1. PICK event \in {"Timeout", "QuorumSafeMode"} :
            Transition(event, [fsm EXCEPT !.global = "Normal"],
                       <<Op("heartbeat", "StopSafeMode")>>)
      BY <1>18 DEF step_safe_mode
    <3>2. QED
      BY <1>0, <3>1, TransitionMoves
  <2>2. /\ fsm'.global = "Normal" /\ fsm'.balance = None
        /\ fsm'.quorum = None /\ fsm'.phase = None
    BY <1>0, <1>18, <2>1, LeafShape
       DEF step_safe_mode, In, Leaf, FsmValues, Hierarchy, Checks, None
  <2>3. fsm.global \notin {"Start", "Normal"}
    BY <1>18 DEF step_safe_mode, In
  <2>4. compute_on_entry(fsm, fsm') = <<Op("OnEntryNormal", None)>>
    BY <1>0, <1>18, <2>2, LeafShape, EntryIs
       DEF step_safe_mode, In, Leaf, FsmValues, Hierarchy, Checks, None
  <2>5. Tells(Op("OnEntryNormal", None), fsm') /\ Op("OnEntryNormal", None) \in Ops
    BY <2>2, OpsMade DEF Tells, Neutral, Op
  <2>6. QED
    BY <2>1, <2>2, <2>3, <2>4, <2>5, MovesEnter, NeutralActs DEF Checks, None
<1>19. CASE invalid
  BY <1>19 DEF invalid, TakesEvent, StepKinds, TakesAnEvent, fsmVars
<1>20. QED
  BY <1>1, <1>2, <1>3, <1>4, <1>5, <1>6, <1>7, <1>8, <1>9, <1>10, <1>11, <1>12,
     <1>13, <1>14, <1>15, <1>16, <1>17, <1>18, <1>19
     DEF step_inner, step_balance_mode
-----------------------------------------------------------------------------
(* The session that the actions under way lead to.                         *)

\* The state of the session that an action sets, if it sets any.
Sets(op) ==
    IF op.do = "OnEntryBalance" /\ op.arg \in {"InHandshake", "OutHandshake"}
    THEN op.arg
    ELSE IF op.do \in {"OnEntryQuorum", "OnEntryPhase"} THEN SessionOf[op.arg]
    ELSE IF op.do = "OnEntrySafeMode" THEN "SafeMode" ELSE None

\* A vector sets no state; or the last state it sets is s.
Keeps(vec) == \A i \in DOMAIN vec : Sets(vec[i]) = None
Leads(vec, s) ==
    \E i \in DOMAIN vec :
        Sets(vec[i]) = s /\ \A j \in DOMAIN vec : j > i => Sets(vec[j]) = None

\* The same for a sequence of vectors.
AllKeep(q)     == \A i \in DOMAIN q : Keeps(q[i])
AllLeads(q, s) ==
    \E i \in DOMAIN q :
        Leads(q[i], s) /\ \A j \in DOMAIN q : j > i => Keeps(q[j])

\* Once what is under way is done, the session is in state s.
WillBe(s) ==
    \/ AllLeads(fsmOut, s)
    \/ /\ AllKeep(fsmOut)
       /\ \/ AllLeads(actions, s)
          \/ AllKeep(actions) /\ (Leads(todo, s) \/ (Keeps(todo) /\ session.state = s))

\* The state that the session must get to, if the machine's calls for one.
Due == IF fsm.global = "SafeMode" THEN "SafeMode"
       ELSE IF In(DOMAIN SessionOf) THEN SessionOf[Leaf] ELSE None

\* What is under way leads the session to the state the machine is in.
AgreesInv == Due # None => WillBe(Due)

\* The states that the coordinator keeps a copy of.
LEMMA SessionOfIs ==
  /\ DOMAIN SessionOf = {"InHandshake", "OutHandshake"} \cup SubStateQuorum
                          \cup SubStatePhase
  /\ \A a \in DOMAIN SessionOf : SessionOf[a] # None
  /\ SessionOf["InHandshake"] = "InHandshake"
  /\ SessionOf["OutHandshake"] = "OutHandshake"
BY DEF SessionOf, SubStateQuorum, SubStatePhase, None

\* Places in a queue, moved on by n - 1.
LEMMA Places ==
  \A n, m \in Nat :
    /\ \A i \in 1 .. m : i # 1 => i \in 2 .. m /\ i + n - 1 \in 1 .. (n + m - 1)
    /\ \A k \in 1 .. n : m > 0 => k \in 1 .. (n + m - 1)
    /\ \A k \in 1 .. (n + m - 1) : k \in 1 .. n \/ k - n + 1 \in 2 .. m
    /\ \A k \in 1 .. (n + m - 1) : k = (k - n + 1) + n - 1
    /\ \A i, j \in 1 .. m : j > i <=> j + n - 1 > i + n - 1
    /\ \A k \in 1 .. n : \A i \in 1 .. m : i # 1 => ~(k > i + n - 1)
    /\ \A i \in 1 .. m : ~(1 > i)
OBVIOUS

\* The head of vec was replaced by sends: where the rest of it is now.
Place(sends, i) == i + Len(sends) - 1

Replaces(vec, sends, rest) ==
    /\ Head(vec) = vec[1] /\ 1 \in DOMAIN vec
    /\ \A i \in DOMAIN vec : ~(1 > i)
    /\ \A k \in DOMAIN sends : k \in DOMAIN rest /\ rest[k] = sends[k]
    /\ \A i \in DOMAIN vec : i # 1 =>
         Place(sends, i) \in DOMAIN rest /\ rest[Place(sends, i)] = vec[i]
    /\ \A k \in DOMAIN rest :
         k \in DOMAIN sends \/ \E i \in DOMAIN vec : i # 1 /\ k = Place(sends, i)
    /\ \A i, j \in DOMAIN vec : j > i <=> Place(sends, j) > Place(sends, i)
    /\ \A k \in DOMAIN sends : \A i \in DOMAIN vec :
         i # 1 => ~(k > Place(sends, i))

\* What the elements are after the first made way for others.
LEMMA Replaced ==
  ASSUME NEW vec \in Seq(Ops), vec # <<>>, NEW sends \in Seq(Ops),
         NEW rest, rest = sends \o Tail(vec)
  PROVE  Replaces(vec, sends, rest)
<1> DEFINE n == Len(sends)
           m == Len(vec)
<1>1. /\ n \in Nat /\ m \in Nat /\ m > 0
      /\ Head(vec) = vec[1] /\ 1 \in DOMAIN vec
      /\ DOMAIN vec = 1 .. m /\ DOMAIN sends = 1 .. n
      /\ Tail(vec) \in Seq(Ops) /\ Len(Tail(vec)) = m - 1
  OBVIOUS
<1>2. DOMAIN rest = 1 .. (n + m - 1)
  BY <1>1
<1>3. \A k \in 1 .. n : rest[k] = sends[k]
  BY <1>1
<1>4. ASSUME NEW i \in 2 .. m PROVE rest[i + n - 1] = vec[i]
  <2>1. rest[i + n - 1] = Tail(vec)[i - 1]
    BY <1>1, ConcatProperties
  <2>2. QED
    BY <1>1, <2>1
<1>5. \A i : Place(sends, i) = i + n - 1
  BY DEF Place
<1> HIDE DEF n, m
<1>6. \A i \in DOMAIN vec : i # 1 =>
        Place(sends, i) \in DOMAIN rest /\ rest[Place(sends, i)] = vec[i]
  BY <1>1, <1>2, <1>4, <1>5, Places
<1>7. ASSUME NEW k \in DOMAIN rest, k \notin DOMAIN sends
      PROVE  \E i \in DOMAIN vec : i # 1 /\ k = Place(sends, i)
  <2>1. k - n + 1 \in 2 .. m /\ k = (k - n + 1) + n - 1
    BY <1>1, <1>2, <1>7, Places
  <2>2. k - n + 1 \in DOMAIN vec /\ k - n + 1 # 1
    BY <1>1, <2>1
  <2>3. QED
    BY <1>5, <2>1, <2>2
<1>8. \A k \in DOMAIN sends : k \in DOMAIN rest /\ rest[k] = sends[k]
  BY <1>1, <1>2, <1>3, Places
<1>9. \A i, j \in DOMAIN vec : j > i <=> Place(sends, j) > Place(sends, i)
  BY <1>1, <1>5, Places
<1>10. \A k \in DOMAIN sends : \A i \in DOMAIN vec : i # 1 => ~(k > Place(sends, i))
  BY <1>1, <1>5, Places
<1>11. \A i \in DOMAIN vec : ~(1 > i)
  BY <1>1, Places
<1>12. QED
  BY <1>1, <1>6, <1>7, <1>8, <1>9, <1>10, <1>11 DEF Replaces

\* The action at the head of a vector is executed, its sends take its place.
LEMMA Consumed ==
  ASSUME NEW vec \in Seq(Ops), vec # <<>>, NEW sends \in Seq(Ops), Keeps(sends),
         NEW s, NEW rest, rest = sends \o Tail(vec)
  PROVE  /\ Keeps(vec) => Sets(Head(vec)) = None /\ Keeps(rest)
         /\ Leads(vec, s) => Leads(rest, s) \/ (Sets(Head(vec)) = s /\ Keeps(rest))
<1>1. Replaces(vec, sends, rest)
  BY Replaced
<1>2. (\A i \in DOMAIN vec : i # 1 => Sets(vec[i]) = None) => Keeps(rest)
  BY <1>1 DEF Keeps, Replaces
<1>3. Keeps(vec) => Sets(Head(vec)) = None /\ Keeps(rest)
  BY <1>1, <1>2 DEF Keeps, Replaces
<1>4. ASSUME Leads(vec, s)
      PROVE  Leads(rest, s) \/ (Sets(Head(vec)) = s /\ Keeps(rest))
  <2>1. PICK i \in DOMAIN vec :
           Sets(vec[i]) = s /\ \A j \in DOMAIN vec : j > i => Sets(vec[j]) = None
    BY <1>4 DEF Leads
  <2>2. CASE i = 1
    <3>1. ASSUME NEW j \in DOMAIN vec, j # 1 PROVE j > 1
      <4>1. DOMAIN vec = 1 .. Len(vec)
        OBVIOUS
      <4>2. QED
        BY <3>1, <4>1
    <3>2. QED
      BY <1>1, <1>2, <2>1, <2>2, <3>1 DEF Replaces
  <2>3. CASE i # 1
    <3>1. Place(sends, i) \in DOMAIN rest /\ rest[Place(sends, i)] = vec[i]
      BY <1>1, <2>3 DEF Replaces
    <3>2. ASSUME NEW k \in DOMAIN rest, k > Place(sends, i)
          PROVE  Sets(rest[k]) = None
      <4>1. PICK j \in DOMAIN vec : j # 1 /\ k = Place(sends, j)
        BY <1>1, <2>3, <3>2 DEF Replaces
      <4>2. QED
        BY <1>1, <2>1, <3>2, <4>1 DEF Replaces
    <3>3. QED
      BY <2>1, <3>1, <3>2 DEF Leads
  <2>4. QED
    BY <2>2, <2>3
<1>5. QED
  BY <1>3, <1>4

\* What the session will be, over a step that touches todo and session only.
LEMMA ConsumedWillBe ==
  ASSUME TypeOK, todo # <<>>, NEW sends \in Seq(Ops), Keeps(sends),
         todo' = sends \o Tail(todo), UNCHANGED fsmVars,
         session'.state = IF Sets(Head(todo)) = None THEN session.state
                                                     ELSE Sets(Head(todo)),
         NEW s, s # None, WillBe(s)
  PROVE  WillBe(s)'
<1>1. /\ Keeps(todo) => Sets(Head(todo)) = None /\ Keeps(todo')
      /\ Leads(todo, s) => Leads(todo', s) \/ (Sets(Head(todo)) = s /\ Keeps(todo'))
  BY Consumed DEF TypeOK
<1>2. /\ AllLeads(fsmOut, s)' <=> AllLeads(fsmOut, s)
      /\ AllKeep(fsmOut)' <=> AllKeep(fsmOut)
      /\ AllLeads(actions, s)' <=> AllLeads(actions, s)
      /\ AllKeep(actions)' <=> AllKeep(actions)
  BY DEF fsmVars, AllLeads, AllKeep
<1>3. QED
  BY <1>1, <1>2 DEF WillBe

\* The handlers of messages and the sends neither set nor hide a state.
LEMMA SetsIs ==
  /\ \A op \in Ops :
       /\ op.do \in {"fsm", "timer", "core", "heartbeat", "edge", "CalculateQuorum",
                     "OnEntryNormal"} => Sets(op) = None
       /\ Neutral(op) => Sets(op) = None
       /\ op.do \in {"OnEntryQuorum", "OnEntryPhase"} =>
            op.arg \in DOMAIN SessionOf /\ Sets(op) = SessionOf[op.arg]
  /\ Keeps(<<>>)
  /\ \A a \in Ops : Sets(a) = None => Keeps(<<a>>)
  /\ \A a, b \in Ops : Sets(a) = None /\ Sets(b) = None => Keeps(<<a, b>>)
  /\ \A a, b, c \in Ops :
       Sets(a) = None /\ Sets(b) = None /\ Sets(c) = None => Keeps(<<a, b, c>>)
<1>1. \A op \in Ops :
         /\ op.do \in {"fsm", "timer", "core", "heartbeat", "edge",
                       "CalculateQuorum", "OnEntryNormal"} => Sets(op) = None
         /\ Neutral(op) => Sets(op) = None
  BY DEF Sets, Neutral, StopTimer, Op
<1>2. \A op \in Ops : op.do \in {"OnEntryQuorum", "OnEntryPhase"} =>
            op.arg \in DOMAIN SessionOf /\ Sets(op) = SessionOf[op.arg]
  BY SessionOfIs DEF Sets, Ops, StopTimer, InitTimer, CalculateQuorum, Op
<1>3. Keeps(<<>>)
  BY DEF Keeps
<1>4. \A a \in Ops : Sets(a) = None => Keeps(<<a>>)
  BY DEF Keeps
<1>5. \A a, b \in Ops : Sets(a) = None /\ Sets(b) = None => Keeps(<<a, b>>)
  <2>1. SUFFICES ASSUME NEW a \in Ops, NEW b \in Ops, Sets(a) = None, Sets(b) = None
                 PROVE  Keeps(<<a, b>>)
    OBVIOUS
  <2>2. \A i \in DOMAIN <<a, b>> : <<a, b>>[i] \in {a, b}
    OBVIOUS
  <2>3. QED
    BY <2>1, <2>2 DEF Keeps
<1>6. \A a, b, c \in Ops :
        Sets(a) = None /\ Sets(b) = None /\ Sets(c) = None => Keeps(<<a, b, c>>)
  <2>1. SUFFICES ASSUME NEW a \in Ops, NEW b \in Ops, NEW c \in Ops,
                        Sets(a) = None, Sets(b) = None, Sets(c) = None
                 PROVE  Keeps(<<a, b, c>>)
    OBVIOUS
  <2>2. \A i \in DOMAIN <<a, b, c>> : <<a, b, c>>[i] \in {a, b, c}
    OBVIOUS
  <2>3. QED
    BY <2>1, <2>2 DEF Keeps
<1>7. QED
  BY <1>1, <1>2, <1>3, <1>4, <1>5, <1>6

\* The entry of a state leads the session to it.
LEMMA EntryLeads ==
  ASSUME NEW vec, EntryOf(vec, fsm), fsm \in FsmValues, Hierarchy, Due # None
  PROVE  Leads(vec, Due)
<1>1. PICK front, op : AllNeutral(front) /\ op \in Ops /\ Tells(op, fsm)
                       /\ vec = Append(front, op)
  BY DEF EntryOf
<1>2. front \in Seq(Ops) /\ Len(front) \in Nat
  BY <1>1 DEF AllNeutral
<1>3. /\ DOMAIN vec = 1 .. (Len(front) + 1)
      /\ vec[Len(front) + 1] = op
  BY <1>1, <1>2
<1>4. Sets(op) = Due
  <2>1. CASE fsm.global = "SafeMode"
    BY <1>1, <2>1 DEF Tells, Due, Sets, Op
  <2>2. CASE fsm.global # "SafeMode"
    <3>1. In(DOMAIN SessionOf) /\ Due = SessionOf[Leaf]
      BY <2>2 DEF Due
    <3>2. fsm.global = "BalanceMode" /\ Leaf \in DOMAIN SessionOf
      BY <3>1 DEF In
    <3>3. CASE fsm.balance = "Quorum"
      <4>1. op = Op("OnEntryQuorum", fsm.quorum) /\ Leaf = fsm.quorum
        BY <1>1, <3>2, <3>3 DEF Tells, Leaf
      <4>2. QED
        BY <3>1, <4>1 DEF Sets, Op
    <3>4. CASE fsm.balance = "Phase"
      <4>1. op = Op("OnEntryPhase", fsm.phase) /\ Leaf = fsm.phase
        BY <1>1, <3>2, <3>4 DEF Tells, Leaf
      <4>2. QED
        BY <3>1, <4>1 DEF Sets, Op
    <3>5. CASE fsm.balance \notin {"Quorum", "Phase"}
      <4>1. op = Op("OnEntryBalance", fsm.balance) /\ Leaf = fsm.balance
        BY <1>1, <3>2, <3>5 DEF Tells, Leaf
      <4>2. fsm.balance \in {"InHandshake", "OutHandshake"}
        BY <3>2, <4>1, <3>5, SessionOfIs
           DEF FsmValues, SubStateBalanceMode, SubStateQuorum, SubStatePhase, None
      <4>3. QED
        BY <3>1, <4>1, <4>2, SessionOfIs DEF Sets, Op
    <3>6. QED
      BY <3>3, <3>4, <3>5
  <2>3. QED
    BY <2>1, <2>2
<1>5. QED
  BY <1>2, <1>3, <1>4 DEF Leads

\* The state to come changes with these variables only.
LEMMA WillBeUnchanged ==
  ASSUME UNCHANGED <<todo, fsmVars>>, session'.state = session.state, NEW s
  PROVE  WillBe(s)' <=> WillBe(s)
BY DEF WillBe, fsmVars, AllLeads, AllKeep, Leads, Keeps

\* The state called for changes with the machine only.
LEMMA DueUnchanged == ASSUME fsm' = fsm PROVE Due' = Due
BY DEF Due, In, Leaf

\* What a message makes the coordinator send sets no state.
LEMMA CommandKeeps ==
  ASSUME TypeOK, TakesCommand
  PROVE  /\ todo = <<>> /\ Keeps(todo')
         /\ session'.state = session.state /\ UNCHANGED fsmVars
<1> USE SetsIs, OpsMade DEF Receives, Op, TypeOK, Events, StateGlobal
<1>1. /\ Op("fsm", "NewMessageHandshake") \in Ops
      /\ Sets(Op("fsm", "NewMessageHandshake")) = None
      /\ \A e \in Events : Op("fsm", e) \in Ops /\ Sets(Op("fsm", e)) = None
      /\ StopTimer \in Ops /\ Sets(StopTimer) = None
      /\ Op("core", "NewEpoch") \in Ops /\ Sets(Op("core", "NewEpoch")) = None
      /\ Op("edge", "BalanceMode") \in Ops /\ Sets(Op("edge", "BalanceMode")) = None
  BY DEF Sets, StopTimer
<1>2. CASE TakesHandshake
  <2>1. todo' = <<>> \/ todo' = <<Op("fsm", "NewMessageHandshake")>>
    BY <1>2 DEF TakesHandshake
  <2>2. Keeps(todo')
    BY <1>1, <2>1, SetsIs
  <2>3. QED
    BY <1>2, <2>2 DEF TakesHandshake
<1>3. ASSUME NEW e \in Events, NEW p, Reports(e, p)
      PROVE  Keeps(todo') /\ session'.state = session.state
  <2>1. todo' = <<>> \/ todo' = <<Op("fsm", e), StopTimer>>
    BY <1>3 DEF Reports
  <2>2. Keeps(todo')
    BY <1>1, <2>1, SetsIs
  <2>3. QED
    BY <1>3, <2>2 DEF Reports
<1>4. CASE quorum_phase
  <2>1. Keeps(<<>>)
    BY SetsIs
  <2>2. QED
    BY <1>3, <1>4, <2>1 DEF quorum_phase
<1>5. CASE quorum_safe_mode
  <2>1. Keeps(<<>>)
    BY SetsIs
  <2>2. QED
    BY <1>3, <1>5, <2>1 DEF quorum_safe_mode
<1>6. CASE TakesErrorEpoch
  <2>1. Keeps(<<Op("fsm", "BalanceEpochNotOk")>>)
    BY <1>1, SetsIs
  <2>2. QED
    BY <1>6, <2>1 DEF TakesErrorEpoch
<1>7. CASE TakesEpoch
  <2>1. Keeps(<<Op("fsm", "BalanceEpochOk"), Op("core", "NewEpoch"),
                Op("edge", "BalanceMode")>>)
    BY <1>1, SetsIs
  <2>2. QED
    BY <1>7, <2>1 DEF TakesEpoch
<1>8. QED
  BY <1>2, <1>4, <1>5, <1>6, <1>7 DEF TakesCommand

\* An action of the machine sets the state of the session that Sets says.
LEMMA HandleSets ==
  ASSUME TypeOK, handle_action
  PROVE  \E sends \in Seq(Ops) :
            /\ Keeps(sends) /\ Executes(sends) /\ todo # <<>>
            /\ session'.state = IF Sets(Head(todo)) = None THEN session.state
                                                           ELSE Sets(Head(todo))
<1> DEFINE Good(sends) ==
             /\ sends \in Seq(Ops) /\ Keeps(sends) /\ Executes(sends)
             /\ todo # <<>>
             /\ session'.state = IF Sets(Head(todo)) = None THEN session.state
                                                            ELSE Sets(Head(todo))
<1>0. /\ Head(todo) \in Ops /\ todo # <<>>
      /\ session.state \in StateOfSession
      /\ \A s : InSession(s) => session'.state = s
  BY DEF TypeOK, InSession, handle_action, OnEntryInitBalanceMode,
         on_entry_in_handshake, on_entry_out_handshake, OnEntryOtherBalance,
         OnEntryCheckQuorum, on_entry_repeat_handshake, DoCalculateQuorum,
         OnEntryPhase, on_entry_normal, on_entry_safe_mode, Does
<1>1. /\ \A a \in Labels \cup {"GetEpoch", "NewEpoch"} : Sets(Op("core", a)) = None
      /\ \A m \in Modes : Sets(Op("heartbeat", m)) = None
      /\ \A g \in StateGlobal : Sets(Op("edge", g)) = None
      /\ \A e \in Events : Sets(Op("fsm", e)) = None
      /\ Sets(InitTimer) = None
  BY DEF Sets, Op, InitTimer
<1>2. quorum_algorithm \in Events
  BY DEF quorum_algorithm, Events
<1>3. /\ \A a \in {"GetEpoch", "in", "out", "alert", "data", "monitor"} :
           Op("core", a) \in Ops /\ Sets(Op("core", a)) = None
      /\ InitTimer \in Ops
  BY <1>1, OpsMade, LabelsAre
<1>4. CASE OnEntryInitBalanceMode
  <2>1. Sets(Head(todo)) = None
    BY <1>4 DEF OnEntryInitBalanceMode, Does, Arg, Sets
  <2>2. Good(<<Op("core", "GetEpoch")>>)
    BY <1>0, <1>3, <1>4, <2>1, SetsIs DEF OnEntryInitBalanceMode
  <2>3. QED
    BY <2>2
<1>5. CASE on_entry_in_handshake
  <2>1. Sets(Head(todo)) = "InHandshake"
    BY <1>5 DEF on_entry_in_handshake, Does, Arg, Sets
  <2>2. Good(<<Op("core", "in"), InitTimer>>)
    BY <1>0, <1>1, <1>3, <1>5, <2>1, SetsIs DEF on_entry_in_handshake, None
  <2>3. QED
    BY <2>2
<1>6. CASE on_entry_out_handshake
  <2>1. Sets(Head(todo)) = "OutHandshake"
    BY <1>6 DEF on_entry_out_handshake, Does, Arg, Sets
  <2>2. Good(<<Op("core", "out"), InitTimer>>)
    BY <1>0, <1>1, <1>3, <1>6, <2>1, SetsIs DEF on_entry_out_handshake, None
  <2>3. QED
    BY <2>2
<1>7. CASE OnEntryOtherBalance
  <2>1. Sets(Head(todo)) = None
    BY <1>7 DEF OnEntryOtherBalance, Does, Arg, Sets
  <2>2. Good(<<>>)
    BY <1>0, <1>7, <2>1, SetsIs DEF OnEntryOtherBalance
  <2>3. QED
    BY <2>2
<1>8. CASE OnEntryCheckQuorum
  <2>1. Sets(Head(todo)) = "Quorum"
    BY <1>8 DEF OnEntryCheckQuorum, Does, Arg, Sets, SessionOf
  <2>2. Good(<<Op("fsm", quorum_algorithm)>>)
    BY <1>0, <1>1, <1>2, <1>8, <2>1, SetsIs, OpsMade DEF OnEntryCheckQuorum, None
  <2>3. QED
    BY <2>2
<1>9. CASE on_entry_repeat_handshake
  <2>1. Sets(Head(todo)) = "RepeatHandshake"
    BY <1>9 DEF on_entry_repeat_handshake, Does, Arg, Sets, SessionOf
  <2>2. session'.state = "RepeatHandshake"
    BY <1>9 DEF on_entry_repeat_handshake, TypeOK
  <2>3. PICK a \in {"in", "out"} : Executes(<<Op("core", a), InitTimer>>)
    BY <1>9 DEF on_entry_repeat_handshake
  <2>4. Good(<<Op("core", a), InitTimer>>)
    BY <1>0, <1>1, <1>3, <2>1, <2>2, <2>3, SetsIs DEF None
  <2>5. QED
    BY <2>4
<1>10. CASE DoCalculateQuorum
  <2>1. Sets(Head(todo)) = None
    BY <1>10 DEF DoCalculateQuorum, Does, Sets
  <2>2. Good(<<Op("fsm", quorum_algorithm)>>)
    BY <1>0, <1>1, <1>2, <1>10, <2>1, SetsIs, OpsMade DEF DoCalculateQuorum
  <2>3. QED
    BY <2>2
<1>11. CASE OnEntryPhase
  <2>1. Arg \in SubStatePhase /\ Head(todo).do = "OnEntryPhase"
    BY <1>11, OpsTyped DEF OnEntryPhase, Does, Arg, TypeOK
  <2>2. PhaseLabel[Arg] \in {"alert", "data", "monitor"}
    BY <2>1 DEF PhaseLabel, SubStatePhase
  <2>3. Sets(Head(todo)) = Arg /\ Arg # None
    BY <2>1 DEF Sets, SessionOf, SubStatePhase, Arg, None
  <2>4. /\ Op("core", PhaseLabel[Arg]) \in Ops
        /\ Sets(Op("core", PhaseLabel[Arg])) = None
        /\ Op("heartbeat", "Phase") \in Ops /\ Sets(Op("heartbeat", "Phase")) = None
    BY <1>1, <1>3, <2>2, OpsMade DEF Modes
  <2>5. session'.state = Arg
    BY <1>11 DEF OnEntryPhase
  <2>6. CASE Arg = "Alert"
    <3>1. <<InitTimer, Op("core", PhaseLabel[Arg])>> \o <<Op("heartbeat", "Phase")>>
            = <<InitTimer, Op("core", PhaseLabel[Arg]), Op("heartbeat", "Phase")>>
      BY ConcatPair
    <3>2. Good(<<InitTimer, Op("core", PhaseLabel[Arg]), Op("heartbeat", "Phase")>>)
      <4>1. Executes(<<InitTimer, Op("core", PhaseLabel[Arg]), Op("heartbeat", "Phase")>>)
        BY <1>11, <2>6, <3>1 DEF OnEntryPhase
      <4>2. Keeps(<<InitTimer, Op("core", PhaseLabel[Arg]), Op("heartbeat", "Phase")>>)
        BY <1>1, <1>3, <2>4, SetsIs
      <4>3. QED
        BY <1>0, <1>3, <2>3, <2>4, <2>5, <4>1, <4>2
    <3>3. QED
      BY <3>2
  <2>7. CASE Arg # "Alert"
    <3>1. Good(<<InitTimer, Op("core", PhaseLabel[Arg])>>)
      BY <1>0, <1>1, <1>3, <1>11, <2>3, <2>4, <2>5, <2>7, Concats, SetsIs
         DEF OnEntryPhase
    <3>2. QED
      BY <3>1
  <2>8. QED
    BY <2>6, <2>7
<1>12. CASE on_entry_normal
  <2>1. Sets(Head(todo)) = None
    BY <1>12 DEF on_entry_normal, Does, Sets
  <2>2. Good(<<Op("heartbeat", "Normal"), Op("edge", "Normal")>>)
    BY <1>0, <1>1, <1>12, <2>1, SetsIs, OpsMade
       DEF on_entry_normal, Modes, StateGlobal
  <2>3. QED
    BY <2>2
<1>13. CASE on_entry_safe_mode
  <2>1. Sets(Head(todo)) = "SafeMode"
    BY <1>13 DEF on_entry_safe_mode, Does, Sets
  <2>2. session'.state = "SafeMode"
    BY <1>13 DEF on_entry_safe_mode, TypeOK
  <2>3. Good(<<InitTimer, Op("heartbeat", "SafeMode"), Op("edge", "SafeMode")>>)
    BY <1>0, <1>1, <1>3, <1>13, <2>1, <2>2, SetsIs, OpsMade
       DEF on_entry_safe_mode, Modes, StateGlobal, None
  <2>4. QED
    BY <2>3
<1>14. QED
  BY <1>4, <1>5, <1>6, <1>7, <1>8, <1>9, <1>10, <1>11, <1>12, <1>13
     DEF handle_action

\* The elements of a tail.
LEMMA TailElements ==
  ASSUME NEW S, NEW q \in Seq(S), q # <<>>
  PROVE  /\ Head(q) = q[1] /\ 1 \in DOMAIN q
         /\ \A i \in DOMAIN Tail(q) : i + 1 \in DOMAIN q /\ Tail(q)[i] = q[i + 1]
         /\ \A i \in DOMAIN q : i # 1 => i - 1 \in DOMAIN Tail(q) /\ i > 1
         /\ DOMAIN q = 1 .. Len(q) /\ DOMAIN Tail(q) = 1 .. (Len(q) - 1)
         /\ Len(q) \in Nat
OBVIOUS

\* The elements after an append.
LEMMA AppendElements ==
  ASSUME NEW S, NEW q \in Seq(S), NEW e \in S
  PROVE  /\ \A i \in DOMAIN q : Append(q, e)[i] = q[i]
         /\ Append(q, e)[Len(q) + 1] = e
         /\ DOMAIN q = 1 .. Len(q) /\ Len(q) \in Nat
         /\ DOMAIN Append(q, e) = 1 .. (Len(q) + 1)
OBVIOUS

\* The element of a sequence of one.
LEMMA SoleElement ==
  ASSUME NEW S, NEW q \in Seq(S), q # <<>>, Len(q) <= 1
  PROVE  DOMAIN q = {1} /\ q[1] \in S /\ Head(q) = q[1]
<1>1. Len(q) = 1 /\ DOMAIN q = 1 .. Len(q)
  <2>1. 1 \in DOMAIN q /\ DOMAIN q = 1 .. Len(q) /\ Len(q) \in Nat
    BY TailElements
  <2>2. QED
    BY <2>1
<1>2. QED
  BY <1>1, TailElements, ElementOfSeq

\* An entry leads to the session of the state that is entered.
LEMMA EntriesLead ==
  fsm \in FsmValues /\ Hierarchy /\ Due # None
    => \A v : EntryOf(v, fsm) => Leads(v, Due)
BY EntryLeads

\* Every step keeps the agreement.
LEMMA AgreesStep ==
  ASSUME TypeOK, Hierarchy, TypeOK', Hierarchy', AgreesInv, [Next]_vars
  PROVE  AgreesInv'
<1>1. SUFFICES ASSUME NEW d, d # None, Due' = d PROVE WillBe(d)'
  BY DEF AgreesInv
<1>2. ASSUME fsm' = fsm PROVE WillBe(d)
  BY <1>1, <1>2, DueUnchanged DEF AgreesInv
<1>3. ASSUME UNCHANGED <<todo, fsmVars>>, session'.state = session.state
      PROVE  WillBe(d)'
  BY <1>2, <1>3, WillBeUnchanged DEF fsmVars
<1>4. ASSUME NEW sends \in Seq(Ops), Keeps(sends), todo # <<>>,
             todo' = sends \o Tail(todo), UNCHANGED fsmVars,
             session'.state = IF Sets(Head(todo)) = None THEN session.state
                                                         ELSE Sets(Head(todo))
      PROVE  WillBe(d)'
  <2>1. WillBe(d)
    BY <1>2, <1>4 DEF fsmVars
  <2>2. QED
    BY <1>1, <1>4, <2>1, ConsumedWillBe
<1>5. CASE DataAnswers \/ HubSends
  BY <1>3, <1>5 DEF DataAnswers, HubSends, Command
<1>6. CASE TakesCommand
  <2>1. /\ todo = <<>> /\ Keeps(todo')
        /\ session'.state = session.state /\ UNCHANGED fsmVars
    BY <1>6, CommandKeeps
  <2>2. WillBe(d)
    BY <1>2, <2>1 DEF fsmVars
  <2>3. ~Leads(todo, d)
    BY <2>1 DEF Leads
  <2>4. QED
    BY <2>1, <2>2, <2>3 DEF WillBe, fsmVars, AllLeads, AllKeep
<1>7. CASE TakesActions
  <2>1. /\ todo = <<>> /\ actions # <<>> /\ todo' = Head(actions)
        /\ actions' = Tail(actions) /\ fsm' = fsm /\ fsmOut' = fsmOut
        /\ session' = session
    BY <1>7 DEF TakesActions
  <2>0. actions \in Seq(Seq(Ops))
    BY DEF TypeOK
  <2>2. WillBe(d)
    BY <1>2, <2>1
  <2>3. ~Leads(todo, d)
    BY <2>1 DEF Leads
  <2>4. /\ Head(actions) = actions[1] /\ 1 \in DOMAIN actions
        /\ \A i \in DOMAIN actions' :
             i + 1 \in DOMAIN actions /\ actions'[i] = actions[i + 1]
        /\ \A i \in DOMAIN actions : i # 1 =>
             i - 1 \in DOMAIN actions' /\ i > 1
        /\ DOMAIN actions = 1 .. Len(actions) /\ DOMAIN actions' = 1 .. (Len(actions) - 1)
        /\ Len(actions) \in Nat
    BY <2>1, <2>0, TailElements
  <2>5. AllKeep(actions) => Keeps(todo') /\ AllKeep(actions')
    BY <2>1, <2>4 DEF AllKeep
  <2>6. ASSUME AllLeads(actions, d)
        PROVE  AllLeads(actions', d) \/ (AllKeep(actions') /\ Leads(todo', d))
    <3>1. PICK i \in DOMAIN actions :
             Leads(actions[i], d) /\ \A j \in DOMAIN actions : j > i => Keeps(actions[j])
      BY <2>6 DEF AllLeads
    <3>2. CASE i = 1
      <4>1. ASSUME NEW j \in DOMAIN actions'
            PROVE  Keeps(actions'[j])
        <5>1. j + 1 \in DOMAIN actions /\ actions'[j] = actions[j + 1] /\ j + 1 > 1
          BY <2>4
        <5>2. QED
          BY <3>1, <3>2, <5>1
      <4>2. QED
        BY <2>1, <2>4, <3>1, <3>2, <4>1 DEF AllKeep
    <3>3. CASE i # 1
      <4>1. i - 1 \in DOMAIN actions' /\ actions'[i - 1] = actions[i]
        BY <2>4, <3>3
      <4>2. \A j \in DOMAIN actions' : j > i - 1 => Keeps(actions'[j])
        BY <2>4, <3>1
      <4>3. QED
        BY <3>1, <4>1, <4>2 DEF AllLeads
    <3>4. QED
      BY <3>2, <3>3
  <2>7. QED
    BY <2>1, <2>2, <2>3, <2>5, <2>6 DEF WillBe, AllLeads, AllKeep
<1>8. CASE Sends
  <2>1. todo # <<>> /\ todo' = Tail(todo) /\ session' = session /\ UNCHANGED fsmVars
    BY <1>8 DEF Sends, SendsEvent, SendsTimerCommand, SendsToCore,
                SendsHeartbeatMode, SendsEdgeState, Does
  <2>2. Head(todo) \in Ops /\ Tail(todo) \in Seq(Ops)
    BY <2>1 DEF TypeOK
  <2>3. Head(todo).do \in {"fsm", "timer", "core", "heartbeat", "edge"}
    BY <1>8 DEF Sends, SendsEvent, SendsTimerCommand, SendsToCore,
                SendsHeartbeatMode, SendsEdgeState, Does
  <2>4. Sets(Head(todo)) = None
    BY <2>2, <2>3, SetsIs
  <2>5. todo' = <<>> \o Tail(todo)
    BY <2>1, <2>2, ConcatEmptySeq
  <2>6. <<>> \in Seq(Ops) /\ Keeps(<<>>)
    BY SetsIs
  <2>7. QED
    BY <1>4, <2>1, <2>4, <2>5, <2>6
<1>9. CASE handle_action
  <2>1. PICK sends \in Seq(Ops) :
            /\ Keeps(sends) /\ Executes(sends) /\ todo # <<>>
            /\ session'.state = IF Sets(Head(todo)) = None THEN session.state
                                                           ELSE Sets(Head(todo))
    BY <1>9, HandleSets
  <2>2. QED
    BY <1>4, <2>1 DEF Executes
<1>10. CASE step_inner
  <2>1. StepKinds
    BY <1>10, StepVectors
  <2>2. UNCHANGED <<session, todo, actions>>
    BY <2>1 DEF StepKinds
  <2>3. CASE UNCHANGED <<fsm, fsmOut>>
    BY <1>3, <2>2, <2>3 DEF fsmVars
  <2>4. CASE /\ fsmOut = <<>> /\ fsm' = fsm
             /\ fsmOut' \in {<< <<>> >>, << <<CalculateQuorum>> >>}
    <3>1. Keeps(<<>>) /\ Keeps(<<CalculateQuorum>>)
      BY SetsIs, OpsMade DEF CalculateQuorum, Op
    <3>2. AllKeep(fsmOut)' /\ ~AllLeads(fsmOut, d)
      BY <2>4, <3>1 DEF AllKeep, AllLeads
    <3>3. QED
      BY <1>2, <2>2, <2>4, <3>2 DEF WillBe, AllLeads, AllKeep, Leads, Keeps
  <2>5. CASE \E vec : fsmOut' = <<vec>> /\ EntryOf(vec, fsm')
    <3>1. PICK vec : fsmOut' = <<vec>> /\ EntryOf(vec, fsm')
      BY <2>5
    <3>2. Leads(vec, d)
      <4>1. (fsm \in FsmValues /\ Hierarchy /\ Due # None
              => \A v : EntryOf(v, fsm) => Leads(v, Due))'
        BY EntriesLead, PTL
      <4>2. QED
        BY <1>1, <3>1, <4>1 DEF TypeOK, FsmValues, EntryOf
    <3>3. AllLeads(fsmOut, d)'
      BY <3>1, <3>2 DEF AllLeads
    <3>4. QED
      BY <3>3 DEF WillBe
  <2>6. CASE fsm'.global = "BalanceMode" /\ fsm'.balance = "InitBalanceMode"
    <3>1. Due' = None
      BY <2>6 DEF Due, In, Leaf, SessionOf
    <3>2. QED
      BY <1>1, <3>1
  <2>7. QED
    BY <2>1, <2>3, <2>4, <2>5, <2>6 DEF StepKinds, TakesAnEvent
<1>11. CASE RunFsmSendsActions
  <2>1. /\ fsmOut # <<>> /\ actions' = Append(actions, Head(fsmOut))
        /\ fsmOut' = <<>> /\ UNCHANGED <<session, todo, fsm>>
    BY <1>11 DEF RunFsmSendsActions
  <2>2. WillBe(d)
    BY <1>2, <2>1
  <2>3. DOMAIN fsmOut = {1} /\ fsmOut[1] \in Seq(Ops) /\ Head(fsmOut) = fsmOut[1]
    BY <2>1, SoleElement DEF TypeOK
  <2>4. /\ \A i \in DOMAIN actions : actions'[i] = actions[i]
        /\ actions'[Len(actions) + 1] = fsmOut[1]
        /\ DOMAIN actions = 1 .. Len(actions) /\ Len(actions) \in Nat
        /\ DOMAIN actions' = 1 .. (Len(actions) + 1)
    <3>1. actions \in Seq(Seq(Ops)) /\ fsmOut[1] \in Seq(Ops)
          /\ actions' = Append(actions, fsmOut[1])
      BY <2>1, <2>3 DEF TypeOK
    <3>2. QED
      BY <3>1, AppendElements
  <2>5. AllKeep(fsmOut')
    BY <2>1 DEF AllKeep
  <2>6. CASE AllLeads(fsmOut, d)
    <3>1. Leads(fsmOut[1], d)
      BY <2>3, <2>6 DEF AllLeads
    <3>2. AllLeads(actions', d)
      BY <2>4, <3>1 DEF AllLeads
    <3>3. QED
      BY <2>2, <2>5, <3>2 DEF WillBe, AllLeads, AllKeep
  <2>7. CASE AllKeep(fsmOut)
    <3>1. Keeps(fsmOut[1])
      BY <2>3, <2>7 DEF AllKeep
    <3>2. AllKeep(actions) => AllKeep(actions')
      BY <2>4, <3>1 DEF AllKeep
    <3>3. AllLeads(actions, d) => AllLeads(actions', d)
      BY <2>4, <3>1 DEF AllLeads
    <3>4. ~AllLeads(fsmOut, d)
      BY <1>1, <2>7 DEF AllKeep, AllLeads, Keeps, Leads
    <3>5. QED
      BY <2>1, <2>2, <2>5, <3>2, <3>3, <3>4 DEF WillBe, AllLeads, AllKeep
  <2>8. QED
    BY <2>2, <2>6, <2>7 DEF WillBe
<1>12. CASE fsm_watchdog_timer
  BY <1>3, <1>12 DEF fsm_watchdog_timer
<1>13. CASE UNCHANGED vars
  BY <1>3, <1>13 DEF vars
<1>14. QED
  BY <1>5, <1>6, <1>7, <1>8, <1>9, <1>10, <1>11, <1>12, <1>13
     DEF Next, TakesCommand, Sends

\* The coordinator's copy of the state is the machine's once no action is under
\* way (fsm/logic.rs 266-426).
THEOREM SessionAgreesHolds == Spec => []SessionAgrees
<1>1. Init => AgreesInv
  BY DEF Init, AgreesInv, Due, In
<1>2. TypeOK /\ Hierarchy /\ TypeOK' /\ Hierarchy' /\ AgreesInv /\ [Next]_vars
        => AgreesInv'
  BY AgreesStep
<1>3. TypeOK /\ Hierarchy /\ AgreesInv => SessionAgrees
  <2>1. SUFFICES ASSUME TypeOK, AgreesInv, Pending = {}, Due # None
                 PROVE  session.state = Due
    BY SessionOfIs DEF SessionAgrees, Due, In, None
  <2>3. \A i \in DOMAIN todo : todo[i] \in Pending
    BY DEF Pending, ElementsOf
  <2>4. \A i \in DOMAIN actions : \A j \in DOMAIN actions[i] : actions[i][j] \in Pending
    <3>1. SUFFICES ASSUME NEW i \in DOMAIN actions, NEW j \in DOMAIN actions[i]
                   PROVE  actions[i][j] \in Pending
      OBVIOUS
    <3>2. /\ actions[i] \in ElementsOf(actions)
          /\ actions[i][j] \in ElementsOf(actions[i])
      BY DEF ElementsOf
    <3>3. actions[i][j] \in UNION {ElementsOf(v) : v \in ElementsOf(actions)}
      BY <3>2
    <3>4. QED
      BY <3>3 DEF Pending
  <2>5. \A i \in DOMAIN fsmOut : \A j \in DOMAIN fsmOut[i] : fsmOut[i][j] \in Pending
    <3>1. SUFFICES ASSUME NEW i \in DOMAIN fsmOut, NEW j \in DOMAIN fsmOut[i]
                   PROVE  fsmOut[i][j] \in Pending
      OBVIOUS
    <3>2. fsmOut[i] \in ElementsOf(fsmOut) /\ fsmOut[i][j] \in ElementsOf(fsmOut[i])
      BY DEF ElementsOf
    <3>3. fsmOut[i][j] \in UNION {ElementsOf(v) : v \in ElementsOf(fsmOut)}
      BY <3>2
    <3>4. UNION {ElementsOf(v) : v \in ElementsOf(fsmOut)} \subseteq Pending
      BY DEF Pending
    <3>5. QED
      BY <3>3, <3>4
  <2>6. ~AllLeads(fsmOut, Due) /\ ~AllLeads(actions, Due) /\ ~Leads(todo, Due)
    BY <2>1, <2>3, <2>4, <2>5 DEF AllLeads, Leads
  <2>7. QED
    BY <2>1, <2>6 DEF AgreesInv, WillBe
<1>4. QED
  BY <1>1, <1>2, <1>3, TypeCorrect, HierarchyHolds, PTL DEF Spec
-----------------------------------------------------------------------------
(* Every stop of the watchdog that is under way will be made good.         *)

\* Actions and sends that lead to a start of the watchdog, and to a verdict.
Starters ==
    {op \in Ops :
        \/ op = InitTimer
        \/ op.do = "OnEntryBalance" /\ op.arg \in {"InHandshake", "OutHandshake"}
        \/ op.do = "OnEntryQuorum"
             /\ op.arg \in {"RepeatHandshakeIn", "RepeatHandshakeOut"}
        \/ op.do \in {"OnEntryPhase", "OnEntrySafeMode"}}
Askers ==
    {op \in Ops : \/ op.do = "OnEntryQuorum" /\ op.arg \in Checks
                  \/ op.do = "fsm" /\ op.arg \in Verdicts}

Has(vec, S) == \E i \in DOMAIN vec : vec[i] \in S
Coming(S) ==
    \/ \E i \in DOMAIN actions : Has(actions[i], S)
    \/ \E i \in DOMAIN fsmOut : Has(fsmOut[i], S)

\* The states that a timeout ends, and the reports that end them as well.
NeedsTimer == In(Handshakes) \/ In(SubStatePhase) \/ fsm.global = "SafeMode"
Ends(e) == \/ In(SubStatePhase) /\ e = "QuorumPhase"
           \/ fsm.global = "SafeMode" /\ e = "QuorumSafeMode"
Ending == \E i \in DOMAIN events : Ends(events[i])

\* Behind a stop comes a start, or before it went a report that ends the state.
StopsInCmds ==
    \A i \in DOMAIN cmds : cmds[i] = "StopTimer" =>
        \/ \E j \in DOMAIN cmds : j > i /\ cmds[j] = "InitTimer"
        \/ Has(todo, Starters) \/ Coming(Starters) \/ Ending
Covered(vec, i) ==
    \/ \E j \in DOMAIN vec : j > i /\ vec[j] \in Starters
    \/ \E j \in DOMAIN vec : j < i /\ vec[j].do = "fsm" /\ Ends(vec[j].arg)
StopsInTodo ==
    \A i \in DOMAIN todo : todo[i] = StopTimer =>
        Covered(todo, i) \/ Coming(Starters) \/ Ending

\* A stop of the machine itself has the start in its vector.
MadeGood(vec) ==
    \A i \in DOMAIN vec : vec[i] = StopTimer =>
        \E j \in DOMAIN vec : j > i /\ vec[j] \in Starters
VectorsMadeGood ==
    /\ \A i \in DOMAIN actions : MadeGood(actions[i])
    /\ \A i \in DOMAIN fsmOut : MadeGood(fsmOut[i])

\* Every stop of the watchdog is made good, or no longer matters.
StopsInv ==
    /\ NeedsTimer => StopsInCmds /\ StopsInTodo
    /\ fsm.global # "Normal" => VectorsMadeGood

\* Something will get the machine out of its state.
LiveInv ==
    /\ NeedsTimer =>
         \/ timer # "idle" \/ \E i \in DOMAIN events : events[i] = "Timeout"
         \/ \E i \in DOMAIN cmds : cmds[i] = "InitTimer"
         \/ Has(todo, Starters) \/ Coming(Starters) \/ Ending
    /\ In(Checks) =>
         \/ \E i \in DOMAIN events : events[i] \in Verdicts
         \/ Has(todo, Askers) \/ Coming(Askers)

\* What an action of the machine makes the coordinator send.
Others == {op \in Ops : /\ op.do \in {"core", "heartbeat", "edge"}
                        /\ op # Op("core", "GetEpoch")}
Replies(op, sends) ==
    \/ op.do = "OnEntryBalance" /\ op \notin Starters
         /\ \/ sends = <<>>
            \/ sends = <<Op("core", "GetEpoch")>> /\ op.arg = "InitBalanceMode"
    \/ op \in Starters /\ op # InitTimer /\
         \E a, b \in Others : sends \in {<<a, InitTimer>>, <<InitTimer, a>>,
                                         <<InitTimer, a, b>>}
    \/ (op = CalculateQuorum \/ (op.do = "OnEntryQuorum" /\ op.arg \in Checks)) /\
         \E v \in Verdicts : sends = <<Op("fsm", v)>>
    \/ op.do = "OnEntryNormal" /\ \E a, b \in Others : sends = <<a, b>>

\* Every action is replaced by the sends it calls for.
LEMMA HandleReplies ==
  ASSUME TypeOK, handle_action
  PROVE  /\ todo # <<>> /\ Head(todo) \in Ops
         /\ \E sends \in Seq(Ops) : Replies(Head(todo), sends) /\ Executes(sends)
<1>0. /\ todo # <<>> /\ Head(todo) \in Ops
  BY DEF TypeOK, handle_action, OnEntryInitBalanceMode,
         on_entry_in_handshake, on_entry_out_handshake, OnEntryOtherBalance,
         OnEntryCheckQuorum, on_entry_repeat_handshake, DoCalculateQuorum,
         OnEntryPhase, on_entry_normal, on_entry_safe_mode, Does
<1> SUFFICES \E sends \in Seq(Ops) : Replies(Head(todo), sends) /\ Executes(sends)
  BY <1>0
<1>1. /\ \A a \in {"in", "out", "alert", "data", "monitor"} :
           Op("core", a) \in Others
      /\ \A m \in Modes : Op("heartbeat", m) \in Others
      /\ \A g \in StateGlobal : Op("edge", g) \in Others
      /\ Others \subseteq Ops /\ InitTimer \in Ops /\ Op("core", "GetEpoch") \in Ops
  BY OpsMade, LabelsAre DEF Others, Op
<1>2. quorum_algorithm \in Verdicts /\ Op("fsm", quorum_algorithm) \in Ops
  BY OpsMade DEF quorum_algorithm, Verdicts, Events
<1>14. \A s : s \in Seq(Ops) /\ Replies(Head(todo), s) /\ Executes(s) =>
          \E sends \in Seq(Ops) : Replies(Head(todo), sends) /\ Executes(sends)
  OBVIOUS
<1> USE DEF Does, Arg
<1>3. CASE OnEntryInitBalanceMode
  <2>1. Replies(Head(todo), <<Op("core", "GetEpoch")>>)
    BY <1>3 DEF OnEntryInitBalanceMode, Replies, Starters, InitTimer, Op
  <2>2. /\ <<Op("core", "GetEpoch")>> \in Seq(Ops)
        /\ Executes(<<Op("core", "GetEpoch")>>)
    BY <1>1, <1>3 DEF OnEntryInitBalanceMode
  <2>3. QED
    BY <1>14, <2>1, <2>2
<1>4. CASE on_entry_in_handshake
  <2>1. Head(todo) \in Starters /\ Head(todo) # InitTimer
    BY <1>0, <1>4 DEF on_entry_in_handshake, Starters, InitTimer, Op
  <2>2. Replies(Head(todo), <<Op("core", "in"), InitTimer>>)
    BY <1>1, <2>1 DEF Replies
  <2>3. /\ <<Op("core", "in"), InitTimer>> \in Seq(Ops)
        /\ Executes(<<Op("core", "in"), InitTimer>>)
    BY <1>1, <1>4 DEF on_entry_in_handshake
  <2>4. QED
    BY <1>14, <2>2, <2>3
<1>5. CASE on_entry_out_handshake
  <2>1. Head(todo) \in Starters /\ Head(todo) # InitTimer
    BY <1>0, <1>5 DEF on_entry_out_handshake, Starters, InitTimer, Op
  <2>2. Replies(Head(todo), <<Op("core", "out"), InitTimer>>)
    BY <1>1, <2>1 DEF Replies
  <2>3. /\ <<Op("core", "out"), InitTimer>> \in Seq(Ops)
        /\ Executes(<<Op("core", "out"), InitTimer>>)
    BY <1>1, <1>5 DEF on_entry_out_handshake
  <2>4. QED
    BY <1>14, <2>2, <2>3
<1>6. CASE OnEntryOtherBalance
  <2>1. Replies(Head(todo), <<>>)
    BY <1>6 DEF OnEntryOtherBalance, Replies, Starters, InitTimer, Op
  <2>2. <<>> \in Seq(Ops) /\ Executes(<<>>)
    BY <1>6 DEF OnEntryOtherBalance
  <2>3. QED
    BY <1>14, <2>1, <2>2
<1>7. CASE OnEntryCheckQuorum
  <2>1. Replies(Head(todo), <<Op("fsm", quorum_algorithm)>>)
    BY <1>2, <1>7 DEF OnEntryCheckQuorum, Replies, Checks
  <2>2. /\ <<Op("fsm", quorum_algorithm)>> \in Seq(Ops)
        /\ Executes(<<Op("fsm", quorum_algorithm)>>)
    BY <1>2, <1>7 DEF OnEntryCheckQuorum
  <2>3. QED
    BY <1>14, <2>1, <2>2
<1>8. CASE on_entry_repeat_handshake
  <2>1. Head(todo) \in Starters /\ Head(todo) # InitTimer
    BY <1>0, <1>8 DEF on_entry_repeat_handshake, Starters, InitTimer, Op
  <2>2. PICK a \in {"in", "out"} : Executes(<<Op("core", a), InitTimer>>)
    BY <1>8 DEF on_entry_repeat_handshake
  <2>3. Replies(Head(todo), <<Op("core", a), InitTimer>>)
    BY <1>1, <2>1 DEF Replies
  <2>4. /\ <<Op("core", a), InitTimer>> \in Seq(Ops)
        /\ Executes(<<Op("core", a), InitTimer>>)
    BY <1>1, <2>2
  <2>5. QED
    BY <1>14, <2>3, <2>4
<1>9. CASE DoCalculateQuorum
  <2>1. Head(todo) = CalculateQuorum
    BY <1>0, <1>9
       DEF DoCalculateQuorum, Ops, Op, StopTimer, InitTimer, CalculateQuorum
  <2>2. Replies(Head(todo), <<Op("fsm", quorum_algorithm)>>)
    BY <1>2, <2>1 DEF Replies
  <2>3. /\ <<Op("fsm", quorum_algorithm)>> \in Seq(Ops)
        /\ Executes(<<Op("fsm", quorum_algorithm)>>)
    BY <1>2, <1>9 DEF DoCalculateQuorum
  <2>4. QED
    BY <1>14, <2>2, <2>3
<1>10. CASE OnEntryPhase
  <2>1. Arg \in SubStatePhase /\ Head(todo).do = "OnEntryPhase"
    BY <1>0, <1>10, OpsTyped DEF OnEntryPhase
  <2>2. PhaseLabel[Arg] \in {"alert", "data", "monitor"}
    BY <2>1 DEF PhaseLabel, SubStatePhase
  <2>3. Head(todo) \in Starters /\ Head(todo) # InitTimer
    BY <1>0, <2>1 DEF Starters, InitTimer, Op
  <2>4. PICK a \in Others : a = Op("core", PhaseLabel[Arg])
    BY <1>1, <2>2
  <2>5. PICK b \in Others : b = Op("heartbeat", "Phase")
    BY <1>1 DEF Modes
  <2>6. Executes(<<InitTimer, a, b>>) \/ Executes(<<InitTimer, a>>)
    <3>1. <<InitTimer, a>> \o <<b>> = <<InitTimer, a, b>>
          /\ <<InitTimer, a>> \o <<>> = <<InitTimer, a>>
      BY ConcatPair, Concats
    <3>2. QED
      BY <1>10, <2>4, <2>5, <3>1 DEF OnEntryPhase
  <2>7. /\ Replies(Head(todo), <<InitTimer, a, b>>)
        /\ Replies(Head(todo), <<InitTimer, a>>)
    BY <2>3, <2>4, <2>5 DEF Replies
  <2>8. <<InitTimer, a, b>> \in Seq(Ops) /\ <<InitTimer, a>> \in Seq(Ops)
    BY <1>1
  <2>9. QED
    BY <1>0, <2>6, <2>7, <2>8
<1>11. CASE on_entry_normal
  <2>1. PICK a, b \in Others : Executes(<<a, b>>)
    BY <1>1, <1>11 DEF on_entry_normal, Modes, StateGlobal
  <2>2. Replies(Head(todo), <<a, b>>)
    BY <1>11 DEF on_entry_normal, Replies
  <2>3. <<a, b>> \in Seq(Ops) /\ Executes(<<a, b>>)
    BY <1>1, <2>1
  <2>4. QED
    BY <1>14, <2>2, <2>3
<1>12. CASE on_entry_safe_mode
  <2>1. Head(todo) \in Starters /\ Head(todo) # InitTimer
    BY <1>0, <1>12 DEF on_entry_safe_mode, Starters, InitTimer, Op
  <2>2. PICK a, b \in Others : Executes(<<InitTimer, a, b>>)
    BY <1>1, <1>12 DEF on_entry_safe_mode, Modes, StateGlobal
  <2>3. Replies(Head(todo), <<InitTimer, a, b>>)
    BY <2>1 DEF Replies
  <2>4. <<InitTimer, a, b>> \in Seq(Ops) /\ Executes(<<InitTimer, a, b>>)
    BY <1>1, <2>2
  <2>5. QED
    BY <1>14, <2>3, <2>4
<1>13. QED
  BY <1>3, <1>4, <1>5, <1>6, <1>7, <1>8, <1>9, <1>10, <1>11, <1>12
     DEF handle_action

\* An action that is not the first outlives the first.
LEMMA HasMoves ==
  ASSUME NEW vec \in Seq(Ops), vec # <<>>, NEW sends \in Seq(Ops),
         NEW rest, rest = sends \o Tail(vec), NEW S
  PROVE  /\ Has(vec, S) => Head(vec) \in S \/ Has(rest, S)
         /\ Has(sends, S) => Has(rest, S)
<1>1. Replaces(vec, sends, rest)
  BY Replaced
<1>2. QED
  BY <1>1 DEF Has, Replaces

\* A stop that is still to come was there before, with what covers it.
LEMMA CoverMoves ==
  ASSUME NEW vec \in Seq(Ops), vec # <<>>, NEW sends \in Seq(Ops),
         \A i \in DOMAIN sends : sends[i] # StopTimer,
         NEW rest, rest = sends \o Tail(vec),
         NEW i \in DOMAIN rest, rest[i] = StopTimer
  PROVE  \E k \in DOMAIN vec :
            /\ vec[k] = StopTimer
            /\ Covered(vec, k) => \/ Covered(rest, i)
                                  \/ Head(vec).do = "fsm" /\ Ends(Head(vec).arg)
<1>1. Replaces(vec, sends, rest)
  BY Replaced
<1>2. PICK k \in DOMAIN vec : k # 1 /\ i = Place(sends, k)
  BY <1>1 DEF Replaces
<1>3. vec[k] = StopTimer
  BY <1>1, <1>2 DEF Replaces
<1>4. ASSUME NEW j \in DOMAIN vec, j > k, vec[j] \in Starters
      PROVE  Covered(rest, i)
  <2>1. j # 1 /\ Place(sends, j) > i
    BY <1>1, <1>2, <1>4 DEF Replaces
  <2>2. QED
    BY <1>1, <1>4, <2>1 DEF Covered, Replaces
<1>5. ASSUME NEW j \in DOMAIN vec, j < k, j # 1, vec[j].do = "fsm", Ends(vec[j].arg)
      PROVE  Covered(rest, i)
  <2>1. Place(sends, j) < i
    <3>1. k > j
      BY <1>5
    <3>2. i > Place(sends, j)
      BY <1>1, <1>2, <3>1 DEF Replaces
    <3>3. QED
      BY <3>2
  <2>2. Place(sends, j) \in DOMAIN rest /\ rest[Place(sends, j)] = vec[j]
    BY <1>1, <1>5 DEF Replaces
  <2>3. QED
    BY <1>5, <2>1, <2>2 DEF Covered
<1>6. Covered(vec, k) => \/ Covered(rest, i)
                         \/ Head(vec).do = "fsm" /\ Ends(Head(vec).arg)
  BY <1>1, <1>4, <1>5 DEF Covered, Replaces
<1>7. QED
  BY <1>3, <1>6

\* What the sends of an action may be.
LEMMA RepliesAre ==
  ASSUME NEW op \in Ops, NEW sends, Replies(op, sends)
  PROVE  /\ \A i \in DOMAIN sends : sends[i] # StopTimer
         /\ op \in Starters => Has(sends, Starters)
         /\ op \in Askers => Has(sends, Askers)
         /\ op.do # "fsm" /\ op # InitTimer /\ op # StopTimer
<1>1. InitTimer \in Starters /\ InitTimer # StopTimer
  BY OpsMade DEF Starters, InitTimer, StopTimer, Op
<1>2. \A a \in Others : a # StopTimer
  BY DEF Others, StopTimer, Op
<1>3. op.do # "fsm" /\ op # InitTimer /\ op # StopTimer
  BY DEF Replies, Starters, InitTimer, StopTimer, CalculateQuorum, Op
<1>4. CASE /\ op.do = "OnEntryBalance" /\ op \notin Starters
           /\ sends = <<>> \/ sends = <<Op("core", "GetEpoch")>>
  <2>1. \A i \in DOMAIN sends : sends[i] # StopTimer
    BY <1>4 DEF StopTimer, Op
  <2>2. op \notin Starters /\ op \notin Askers
    BY <1>4 DEF Askers
  <2>3. QED
    BY <1>3, <2>1, <2>2
<1>5. ASSUME NEW a \in Others, NEW b \in Others, op \in Starters,
             sends \in {<<a, InitTimer>>, <<InitTimer, a>>, <<InitTimer, a, b>>}
      PROVE  /\ \A i \in DOMAIN sends : sends[i] # StopTimer
             /\ Has(sends, Starters) /\ op \notin Askers
  <2>1. \A i \in DOMAIN sends : sends[i] \in {a, b, InitTimer}
    BY <1>5
  <2>2. \E i \in DOMAIN sends : sends[i] = InitTimer
    <3>1. CASE sends = <<a, InitTimer>>
      <4>1. 2 \in DOMAIN sends /\ sends[2] = InitTimer
        BY <3>1
      <4>2. QED
        BY <4>1
    <3>2. CASE sends # <<a, InitTimer>>
      <4>1. 1 \in DOMAIN sends /\ sends[1] = InitTimer
        BY <1>5, <3>2
      <4>2. QED
        BY <4>1
    <3>3. QED
      BY <3>1, <3>2
  <2>3. op \notin Askers
    BY <1>5 DEF Starters, Askers, Checks, InitTimer, Op
  <2>4. QED
    BY <1>1, <1>2, <2>1, <2>2, <2>3 DEF Has
<1>6. ASSUME NEW v \in Verdicts, sends = <<Op("fsm", v)>>,
             op = CalculateQuorum \/ (op.do = "OnEntryQuorum" /\ op.arg \in Checks)
      PROVE  /\ \A i \in DOMAIN sends : sends[i] # StopTimer
             /\ Has(sends, Askers) /\ op \notin Starters
  <2>1. Op("fsm", v) \in Askers
    BY OpsMade DEF Askers, Verdicts, Events, Op
  <2>2. 1 \in DOMAIN sends /\ sends[1] = Op("fsm", v)
    BY <1>6
  <2>3. Has(sends, Askers)
    BY <2>1, <2>2 DEF Has
  <2>4. \A i \in DOMAIN sends : sends[i] # StopTimer
    BY <1>6 DEF StopTimer, Op
  <2>5. op \notin Starters
    BY <1>6 DEF Starters, Checks, InitTimer, CalculateQuorum, Op
  <2>6. QED
    BY <2>3, <2>4, <2>5
<1>7. ASSUME NEW a \in Others, NEW b \in Others, op.do = "OnEntryNormal",
             sends = <<a, b>>
      PROVE  /\ \A i \in DOMAIN sends : sends[i] # StopTimer
             /\ op \notin Starters /\ op \notin Askers
  <2>1. \A i \in DOMAIN sends : sends[i] \in {a, b}
    BY <1>7
  <2>2. op \notin Starters /\ op \notin Askers
    BY <1>7 DEF Starters, Askers, InitTimer, Op
  <2>3. QED
    BY <1>2, <2>1, <2>2
<1>8. QED
  BY <1>3, <1>4, <1>5, <1>6, <1>7 DEF Replies

\* The vectors under way, over the steps that move them.
LEMMA ComingMoves ==
  ASSUME TypeOK, NEW S
  PROVE  /\ TakesActions /\ Coming(S) => Has(todo', S) \/ Coming(S)'
         /\ RunFsmSendsActions => (Coming(S) <=> Coming(S)')
<1>1. actions \in Seq(Seq(Ops)) /\ fsmOut \in Seq(Seq(Ops)) /\ Len(fsmOut) <= 1
  BY DEF TypeOK
<1>2. ASSUME TakesActions, Coming(S)
      PROVE  Has(todo', S) \/ Coming(S)'
  <2>1. /\ actions # <<>> /\ todo' = Head(actions) /\ actions' = Tail(actions)
        /\ fsmOut' = fsmOut
    BY <1>2 DEF TakesActions
  <2>2. ASSUME NEW i \in DOMAIN actions, Has(actions[i], S)
        PROVE  Has(todo', S) \/ Coming(S)'
    <3>1. /\ Head(actions) = actions[1]
          /\ \A j \in DOMAIN Tail(actions) :
               j + 1 \in DOMAIN actions /\ Tail(actions)[j] = actions[j + 1]
          /\ \A j \in DOMAIN actions :
               j # 1 => j - 1 \in DOMAIN Tail(actions) /\ j > 1
          /\ DOMAIN actions = 1 .. Len(actions) /\ Len(actions) \in Nat
      BY <1>1, <2>1, TailElements
    <3>2. CASE i = 1
      BY <2>1, <2>2, <3>1, <3>2
    <3>3. CASE i # 1
      <4>1. i - 1 \in DOMAIN actions' /\ actions'[i - 1] = actions[i]
        BY <2>1, <3>1, <3>3
      <4>2. QED
        BY <2>2, <4>1 DEF Coming
    <3>4. QED
      BY <3>2, <3>3
  <2>3. QED
    BY <1>2, <2>1, <2>2 DEF Coming
<1>3. ASSUME RunFsmSendsActions
      PROVE  Coming(S) <=> Coming(S)'
  <2>1. /\ fsmOut # <<>> /\ actions' = Append(actions, Head(fsmOut)) /\ fsmOut' = <<>>
    BY <1>3 DEF RunFsmSendsActions
  <2>2. DOMAIN fsmOut = {1} /\ fsmOut[1] \in Seq(Ops) /\ Head(fsmOut) = fsmOut[1]
    BY <1>1, <2>1, SoleElement
  <2>3. /\ \A i \in DOMAIN actions : actions'[i] = actions[i]
        /\ actions'[Len(actions) + 1] = fsmOut[1]
        /\ DOMAIN actions = 1 .. Len(actions) /\ Len(actions) \in Nat
        /\ DOMAIN actions' = 1 .. (Len(actions) + 1)
    BY <1>1, <2>1, <2>2, AppendElements
  <2>4. DOMAIN fsmOut' = {}
    BY <2>1
  <2>5. Coming(S)' <=> \E i \in DOMAIN actions' : Has(actions'[i], S)
    BY <2>4 DEF Coming, Has
  <2>6. (\E i \in DOMAIN actions' : Has(actions'[i], S))
          <=> Has(fsmOut[1], S) \/ \E i \in DOMAIN actions : Has(actions[i], S)
    BY <2>3
  <2>7. QED
    BY <2>2, <2>5, <2>6 DEF Coming
<1>4. QED
  BY <1>2, <1>3

\* While the state stays, so does what it needs and what ends it.
LEMMA SameState ==
  ASSUME fsm' = fsm
  PROVE  /\ NeedsTimer' = NeedsTimer /\ \A e : Ends(e)' <=> Ends(e)
         /\ \A S : In(S)' <=> In(S)
BY DEF NeedsTimer, Ends, In, Leaf

\* A report that ends the state stays until the machine takes one.
LEMMA EndingKept ==
  ASSUME TypeOK, fsm' = fsm,
         events' = events \/ \E e \in Events : events' = Append(events, e)
  PROVE  Ending => Ending'
<1>1. \A i \in DOMAIN events : i \in DOMAIN events' /\ events'[i] = events[i]
  <2>1. CASE events' = events
    BY <2>1
  <2>2. CASE \E e \in Events : events' = Append(events, e)
    <3>1. PICK e \in Events : events' = Append(events, e)
      BY <2>2
    <3>2. /\ \A i \in DOMAIN events : events'[i] = events[i]
          /\ DOMAIN events = 1 .. Len(events) /\ Len(events) \in Nat
          /\ DOMAIN events' = 1 .. (Len(events) + 1)
      BY <3>1, AppendElements DEF TypeOK
    <3>3. QED
      BY <3>2
  <2>3. QED
    BY <2>1, <2>2
<1>2. QED
  BY <1>1, SameState DEF Ending

\* What gets the machine out of its state is accepted in it.
LEMMA ExitsAccepted ==
  /\ \A e : Ends(e) => e \in Accepted
  /\ NeedsTimer => "Timeout" \in Accepted
  /\ In(Checks) => Verdicts \subseteq Accepted
  /\ In(Handshakes) => \A e : ~Ends(e)
  /\ In(Handshakes) => ~In(Checks)
BY DEF Ends, Accepted, NeedsTimer, In, Checks, Verdicts, Handshakes, SubStatePhase,
       PhaseOver

\* The session is set to a state that needs the timer by starters only.
LEMMA SetsStarts ==
  ASSUME NEW op \in Ops,
         Sets(op) \in {"InHandshake", "OutHandshake", "RepeatHandshake", "SafeMode"}
                        \cup SubStatePhase
  PROVE  op \in Starters
<1>1. CASE op.do \in {"OnEntryQuorum", "OnEntryPhase"}
  <2>1. Sets(op) = SessionOf[op.arg]
    BY <1>1 DEF Sets
  <2>2. CASE op.do = "OnEntryPhase"
    BY <2>2 DEF Starters
  <2>3. CASE op.do = "OnEntryQuorum"
    <3>1. op.arg \in SubStateQuorum
      BY <2>3 DEF Ops, StopTimer, InitTimer, CalculateQuorum, Op
    <3>2. op.arg \notin Checks
      BY <2>1 DEF Checks, SessionOf, SubStatePhase
    <3>3. QED
      BY <2>3, <3>1, <3>2 DEF Starters, SubStateQuorum, Checks
  <2>4. QED
    BY <1>1, <2>2, <2>3
<1>2. CASE op.do \notin {"OnEntryQuorum", "OnEntryPhase"}
  BY <1>2 DEF Sets, Starters, SubStatePhase, None
<1>3. QED
  BY <1>1, <1>2

\* When the session is behind the machine, an entry is under way.
LEMMA BehindComing ==
  ASSUME TypeOK, AgreesInv, todo = <<>>, NeedsTimer, session.state # Due
  PROVE  Coming(Starters)
<1>1. Due \in {"InHandshake", "OutHandshake", "RepeatHandshake", "SafeMode"}
                 \cup SubStatePhase
  <2>1. CASE fsm.global = "SafeMode"
    BY <2>1 DEF Due
  <2>2. CASE In(Handshakes) \/ In(SubStatePhase)
    <3>1. fsm.global # "SafeMode" /\ Leaf \in Handshakes \cup SubStatePhase
      BY <2>2 DEF In
    <3>2. Leaf \in DOMAIN SessionOf
      BY <3>1, SessionOfIs DEF Handshakes, SubStateQuorum
    <3>3. Due = SessionOf[Leaf]
      BY <2>2, <3>1, <3>2 DEF Due, In
    <3>4. QED
      BY <3>1, <3>3 DEF SessionOf, Handshakes, SubStatePhase
  <2>3. QED
    BY <2>1, <2>2 DEF NeedsTimer
<1>2. Due # None
  BY <1>1 DEF None, SubStatePhase
<1>3. WillBe(Due) /\ ~Leads(todo, Due)
  BY <1>2 DEF AgreesInv, Leads
<1>4. AllLeads(fsmOut, Due) \/ AllLeads(actions, Due)
  BY <1>3 DEF WillBe
<1>5. ASSUME NEW q \in Seq(Seq(Ops)), AllLeads(q, Due)
      PROVE  \E i \in DOMAIN q : Has(q[i], Starters)
  <2>1. PICK i \in DOMAIN q : Leads(q[i], Due)
    BY <1>5 DEF AllLeads
  <2>2. q[i] \in Seq(Ops)
    BY <1>5, ElementOfSeq
  <2>3. PICK k \in DOMAIN q[i] : Sets(q[i][k]) = Due
    BY <2>1 DEF Leads
  <2>4. q[i][k] \in Ops
    BY <2>2, ElementOfSeq
  <2>5. QED
    BY <1>1, <2>3, <2>4, SetsStarts DEF Has
<1>6. QED
  BY <1>4, <1>5 DEF Coming, TypeOK

\* The stops that the coordinator sends by itself come after the report.
LEMMA CommandStops ==
  ASSUME TypeOK, AgreesInv, TakesCommand, NeedsTimer,
         NEW i \in DOMAIN todo', todo'[i] = StopTimer
  PROVE  Covered(todo', i) \/ Coming(Starters)
<1>1. todo = <<>>
  BY DEF TakesCommand, TakesHandshake, quorum_phase, quorum_safe_mode,
         TakesErrorEpoch, TakesEpoch, Receives
<1>2. ASSUME NEW a, NEW b, todo' = <<a, b>>
      PROVE  i = 2 => b = StopTimer /\ 1 \in DOMAIN todo' /\ todo'[1] = a
  BY <1>2
<1>3. ASSUME NEW e \in {"QuorumPhase", "QuorumSafeMode"}, NEW p, Reports(e, p),
             ~Ends(e) => session.state # Due
      PROVE  Covered(todo', i) \/ Coming(Starters)
  <2>1. CASE ~Ends(e)
    BY <1>1, <1>3, <2>1, BehindComing
  <2>2. CASE Ends(e)
    <3>1. todo' = <<>> \/ todo' = <<Op("fsm", e), StopTimer>>
      BY <1>3 DEF Reports
    <3>2. todo' = <<Op("fsm", e), StopTimer>>
      BY <3>1
    <3>3. Op("fsm", e).do = "fsm" /\ Op("fsm", e).arg = e /\ Op("fsm", e) # StopTimer
      BY DEF Op, StopTimer
    <3>4. i = 2 /\ 1 \in DOMAIN todo' /\ todo'[1] = Op("fsm", e)
      BY <3>2, <3>3
    <3>5. QED
      BY <2>2, <3>3, <3>4 DEF Covered
  <2>3. QED
    BY <2>1, <2>2
<1>4. CASE TakesHandshake
  <2>1. todo' = <<>> \/ todo' = <<Op("fsm", "NewMessageHandshake")>>
    BY <1>1, <1>4 DEF TakesHandshake
  <2>2. QED
    BY <2>1 DEF Op, StopTimer
<1>5. CASE quorum_phase
  <2>1. Reports("QuorumPhase", 80) /\ session.state \in SubStatePhase
    BY <1>1, <1>5 DEF quorum_phase
  <2>2. ~Ends("QuorumPhase") => session.state # Due
    <3>1. SUFFICES ASSUME ~In(SubStatePhase) PROVE Due \notin SubStatePhase
      BY <2>1 DEF Ends
    <3>2. CASE In(Handshakes)
      <4>1. fsm.global # "SafeMode" /\ Leaf \in Handshakes
        BY <3>2 DEF In
      <4>2. Due = None \/ Due = SessionOf[Leaf]
        BY <4>1 DEF Due
      <4>3. QED
        BY <4>1, <4>2 DEF SessionOf, Handshakes, SubStatePhase, None
    <3>3. CASE fsm.global = "SafeMode"
      BY <3>3 DEF Due, SubStatePhase
    <3>4. QED
      BY <3>1, <3>2, <3>3 DEF NeedsTimer
  <2>3. QED
    BY <1>3, <2>1, <2>2
<1>6. CASE quorum_safe_mode
  <2>1. Reports("QuorumSafeMode", 70) /\ session.state = "SafeMode"
    BY <1>1, <1>6 DEF quorum_safe_mode
  <2>2. ~Ends("QuorumSafeMode") => session.state # Due
    <3>1. SUFFICES ASSUME fsm.global # "SafeMode" PROVE Due # "SafeMode"
      BY <2>1 DEF Ends
    <3>2. Due = None \/ (Leaf \in DOMAIN SessionOf /\ Due = SessionOf[Leaf])
      BY <3>1 DEF Due, In
    <3>3. QED
      BY <3>2 DEF SessionOf, None
  <2>3. QED
    BY <1>3, <2>1, <2>2
<1>7. CASE TakesErrorEpoch
  <2>1. todo' = <<Op("fsm", "BalanceEpochNotOk")>>
    BY <1>7 DEF TakesErrorEpoch
  <2>2. QED
    BY <2>1 DEF Op, StopTimer
<1>8. CASE TakesEpoch
  <2>1. todo' = <<Op("fsm", "BalanceEpochOk"), Op("core", "NewEpoch"),
                  Op("edge", "BalanceMode")>>
    BY <1>8 DEF TakesEpoch
  <2>2. i \in {1, 2, 3}
    BY <2>1
  <2>3. QED
    BY <2>1, <2>2 DEF Op, StopTimer
<1>9. QED
  BY <1>4, <1>5, <1>6, <1>7, <1>8 DEF TakesCommand

\* The vector that enters a state starts its watchdog or asks for its verdict.
LEMMA EntryStarts ==
  fsm \in FsmValues /\ Hierarchy /\ fsm.balance # "InitBalanceMode" =>
    \A v : EntryOf(v, fsm) =>
      /\ NeedsTimer => Has(v, Starters)
      /\ In(Checks) => Has(v, Askers)
      /\ fsm.global # "Normal" => MadeGood(v)
<1>1. SUFFICES ASSUME fsm \in FsmValues, Hierarchy, fsm.balance # "InitBalanceMode",
                      NEW v, EntryOf(v, fsm)
               PROVE  /\ NeedsTimer => Has(v, Starters)
                      /\ In(Checks) => Has(v, Askers)
                      /\ fsm.global # "Normal" => MadeGood(v)
  OBVIOUS
<1>2. PICK front, op :
        /\ AllNeutral(front) /\ op \in Ops /\ Tells(op, fsm)
        /\ v = Append(front, op)
        /\ fsm.quorum \in Checks => \A i \in DOMAIN front : front[i] # StopTimer
  BY <1>1 DEF EntryOf
<1>3. /\ \A i \in DOMAIN front : v[i] = front[i]
      /\ v[Len(front) + 1] = op
      /\ DOMAIN front = 1 .. Len(front) /\ Len(front) \in Nat
      /\ DOMAIN v = 1 .. (Len(front) + 1)
  BY <1>2, AppendElements DEF AllNeutral
<1>4. CASE fsm.global = "Normal"
  BY <1>4 DEF NeedsTimer, In
<1>5. CASE fsm.global # "Normal" /\ op \in Starters /\ ~In(Checks)
  <2>1. MadeGood(v)
    BY <1>3, <1>5 DEF MadeGood, Starters, StopTimer, InitTimer, Op
  <2>2. QED
    BY <1>3, <1>5, <2>1 DEF Has
<1>6. CASE fsm.global # "Normal" /\ op \in Askers /\ ~NeedsTimer /\ fsm.quorum \in Checks
            /\ op # StopTimer
  <2>1. MadeGood(v)
    BY <1>2, <1>3, <1>6 DEF MadeGood
  <2>2. QED
    BY <1>3, <1>6, <2>1 DEF Has
<1>7. ASSUME fsm.global # "Normal"
      PROVE  \/ op \in Starters /\ ~In(Checks)
             \/ op \in Askers /\ ~NeedsTimer /\ fsm.quorum \in Checks /\ op # StopTimer
  <2>1. CASE fsm.global = "SafeMode"
    BY <1>2, <2>1 DEF Tells, Starters, Op, In
  <2>2. CASE fsm.global = "BalanceMode" /\ fsm.balance = "Quorum"
    <3>1. op = Op("OnEntryQuorum", fsm.quorum) /\ Leaf = fsm.quorum
          /\ fsm.quorum \in SubStateQuorum
      BY <1>1, <1>2, <2>2 DEF Tells, Leaf, FsmValues, Hierarchy
    <3>2. CASE fsm.quorum \in Checks
      BY <1>2, <2>2, <3>1, <3>2
         DEF Askers, Op, StopTimer, NeedsTimer, In, Checks, Handshakes, SubStatePhase
    <3>3. CASE fsm.quorum \notin Checks
      BY <1>2, <3>1, <3>3 DEF Starters, Op, In, Checks, SubStateQuorum
    <3>4. QED
      BY <3>2, <3>3
  <2>3. CASE fsm.global = "BalanceMode" /\ fsm.balance = "Phase"
    <3>1. op = Op("OnEntryPhase", fsm.phase) /\ Leaf = fsm.phase
          /\ fsm.phase \in SubStatePhase
      BY <1>1, <1>2, <2>3 DEF Tells, Leaf, FsmValues, Hierarchy
    <3>2. QED
      BY <1>2, <3>1 DEF Starters, Op, In, Checks, SubStatePhase
  <2>4. CASE fsm.global = "BalanceMode" /\ fsm.balance \notin {"Quorum", "Phase"}
    <3>1. op = Op("OnEntryBalance", fsm.balance) /\ Leaf = fsm.balance
      BY <1>1, <1>2, <2>4 DEF Tells, Leaf
    <3>2. fsm.balance \in {"InHandshake", "OutHandshake"}
      BY <1>1, <2>4 DEF FsmValues, Hierarchy, SubStateBalanceMode
    <3>3. QED
      BY <1>2, <3>1, <3>2 DEF Starters, Op, In, Checks
  <2>5. QED
    BY <1>2, <1>7, <2>1, <2>2, <2>3, <2>4 DEF Tells
<1>8. QED
  BY <1>4, <1>5, <1>6, <1>7

\* A step of a handler: its head is done, and what that sends takes its place.
Consumes(sends) ==
    /\ todo # <<>> /\ todo' = sends \o Tail(todo)
    /\ UNCHANGED fsmVars /\ timer' = timer
    /\ \A i \in DOMAIN sends : sends[i] # StopTimer
    /\ \/ /\ Head(todo).do = "fsm" /\ Head(todo).arg \in Events
          /\ events' = Append(events, Head(todo).arg) /\ cmds' = cmds
       \/ /\ Head(todo) \in {InitTimer, StopTimer}
          /\ cmds' = Append(cmds, Head(todo).arg) /\ events' = events
       \/ /\ Head(todo).do \notin {"fsm", "timer"}
          /\ events' = events /\ cmds' = cmds
          /\ Head(todo) \in Starters => Has(sends, Starters)
          /\ Head(todo) \in Askers => Has(sends, Askers)

\* A send takes the first operation away and puts nothing in its place.
LEMMA SendsConsume ==
  ASSUME TypeOK, Sends
  PROVE  Consumes(<<>>)
<1>1. todo # <<>> /\ todo' = Tail(todo) /\ UNCHANGED fsmVars /\ timer' = timer
  BY DEF Sends, SendsEvent, SendsTimerCommand, SendsToCore,
         SendsHeartbeatMode, SendsEdgeState, Does, timerVars
<1>2. Head(todo) \in Ops /\ Tail(todo) \in Seq(Ops)
  BY <1>1 DEF TypeOK
<1>3. todo' = <<>> \o Tail(todo) /\ \A i \in DOMAIN <<>> : <<>>[i] # StopTimer
  BY <1>1, <1>2, ConcatEmptySeq
<1>4. CASE SendsEvent
  <2>1. /\ Head(todo).do = "fsm"
        /\ events' = Append(events, Head(todo).arg)
        /\ cmds' = cmds
    BY <1>4 DEF SendsEvent, Does, Arg, timerVars
  <2>2. Head(todo).arg \in Events
    BY <1>2, <2>1 DEF Ops, StopTimer, InitTimer, CalculateQuorum, Op
  <2>3. QED
    BY <1>1, <1>3, <2>1, <2>2 DEF Consumes
<1>5. CASE SendsTimerCommand
  <2>1. /\ Head(todo).do = "timer"
        /\ cmds' = Append(cmds, Head(todo).arg)
        /\ events' = events
    BY <1>5 DEF SendsTimerCommand, Does, Arg
  <2>2. Head(todo) \in {InitTimer, StopTimer}
    BY <1>2, <2>1 DEF Ops, StopTimer, InitTimer, CalculateQuorum, Op
  <2>3. QED
    BY <1>1, <1>3, <2>1, <2>2 DEF Consumes
<1>6. CASE SendsToCore \/ SendsHeartbeatMode \/ SendsEdgeState
  <2>1. /\ Head(todo).do \in {"core", "heartbeat", "edge"}
        /\ events' = events /\ cmds' = cmds
    BY <1>6 DEF SendsToCore, SendsHeartbeatMode, SendsEdgeState, Does, timerVars
  <2>2. Head(todo) \notin Starters /\ Head(todo) \notin Askers
    BY <2>1 DEF Starters, Askers, InitTimer, Op
  <2>3. QED
    BY <1>1, <1>3, <2>1, <2>2 DEF Consumes
<1>7. QED
  BY <1>4, <1>5, <1>6 DEF Sends

\* An entry action puts its sends in its place.
LEMMA RepliesConsume ==
  ASSUME TypeOK, todo # <<>>, Head(todo) \in Ops, NEW sends \in Seq(Ops),
         Replies(Head(todo), sends), Executes(sends)
  PROVE  Consumes(sends) /\ Head(todo).do \notin {"fsm", "timer"}
<1>1. /\ \A i \in DOMAIN sends : sends[i] # StopTimer
      /\ Head(todo) \in Starters => Has(sends, Starters)
      /\ Head(todo) \in Askers => Has(sends, Askers)
      /\ Head(todo).do # "fsm" /\ Head(todo) # InitTimer /\ Head(todo) # StopTimer
  BY RepliesAre
<1>2. Head(todo).do # "timer"
  BY <1>1 DEF Ops, StopTimer, InitTimer, CalculateQuorum, Op
<1>3. /\ todo' = sends \o Tail(todo) /\ UNCHANGED fsmVars /\ timer' = timer
      /\ events' = events /\ cmds' = cmds
  BY DEF Executes, timerVars
<1>4. QED
  BY <1>1, <1>2, <1>3 DEF Consumes

\* So the handlers of the actions are such steps.
LEMMA HandleConsumes ==
  ASSUME TypeOK, handle_action
  PROVE  \E sends \in Seq(Ops) : Consumes(sends)
BY HandleReplies, RepliesConsume

\* Over such a step: the vectors stay, nothing that ends the state is lost.
LEMMA ConsumesKeeps ==
  ASSUME TypeOK, NEW sends \in Seq(Ops), Consumes(sends)
  PROVE  /\ fsm' = fsm /\ fsmOut' = fsmOut /\ actions' = actions
         /\ \A S : Coming(S)' <=> Coming(S)
         /\ Ending => Ending'
         /\ \A i \in DOMAIN events : i \in DOMAIN events' /\ events'[i] = events[i]
         /\ \A i \in DOMAIN cmds : i \in DOMAIN cmds' /\ cmds'[i] = cmds[i]
         /\ Has(todo, Starters) =>
              Has(todo', Starters) \/ \E i \in DOMAIN cmds' : cmds'[i] = "InitTimer"
         /\ Has(todo, Askers) =>
              Has(todo', Askers) \/ \E i \in DOMAIN events' : events'[i] \in Verdicts
<1>1. fsm' = fsm /\ fsmOut' = fsmOut /\ actions' = actions
  BY DEF Consumes, fsmVars
<1>2. \A S : Coming(S)' <=> Coming(S)
  BY <1>1 DEF Coming, Has
<1>3. Ending => Ending'
  BY <1>1, EndingKept DEF Consumes
<1>4. /\ events \in Seq(Events) /\ cmds \in Seq(W!Commands)
      /\ "InitTimer" \in W!Commands /\ "StopTimer" \in W!Commands
      /\ InitTimer.arg = "InitTimer" /\ StopTimer.arg = "StopTimer"
      /\ InitTimer.do = "timer" /\ StopTimer.do = "timer"
  BY DEF TypeOK, W!Commands, InitTimer, StopTimer, Op
<1>5. \A i \in DOMAIN events : i \in DOMAIN events' /\ events'[i] = events[i]
  <2>1. CASE events' = events
    BY <2>1
  <2>2. CASE Head(todo).arg \in Events /\ events' = Append(events, Head(todo).arg)
    BY <1>4, <2>2, AppendElements
  <2>3. QED
    BY <2>1, <2>2 DEF Consumes
<1>6. \A i \in DOMAIN cmds : i \in DOMAIN cmds' /\ cmds'[i] = cmds[i]
  <2>1. CASE cmds' = cmds
    BY <2>1
  <2>2. CASE Head(todo).arg \in W!Commands /\ cmds' = Append(cmds, Head(todo).arg)
    BY <1>4, <2>2, AppendElements
  <2>3. QED
    BY <1>4, <2>1, <2>2 DEF Consumes
<1>7. /\ todo \in Seq(Ops)
      /\ todo # <<>>
      /\ Head(todo) \in Ops
      /\ todo' = sends \o Tail(todo)
  BY DEF TypeOK, Consumes
<1>8. /\ \A S : Has(todo, S) => Head(todo) \in S \/ Has(todo', S)
      /\ \A S : Has(sends, S) => Has(todo', S)
  BY <1>7, HasMoves
<1>9. ASSUME Head(todo) \in Starters
      PROVE  Has(todo', Starters) \/ \E i \in DOMAIN cmds' : cmds'[i] = "InitTimer"
  <2>1. Head(todo).do # "fsm" /\ Head(todo) # StopTimer
    BY <1>9 DEF Starters, StopTimer, InitTimer, Op
  <2>2. CASE Has(sends, Starters)
    BY <1>8, <2>2
  <2>3. CASE Head(todo) = InitTimer /\ cmds' = Append(cmds, "InitTimer")
    <3>1. Len(cmds) + 1 \in DOMAIN cmds' /\ cmds'[Len(cmds) + 1] = "InitTimer"
      BY <1>4, <2>3, AppendElements
    <3>2. QED
      BY <3>1
  <2>4. QED
    BY <1>4, <1>9, <2>1, <2>2, <2>3 DEF Consumes
<1>10. ASSUME Head(todo) \in Askers
       PROVE  Has(todo', Askers) \/ \E i \in DOMAIN events' : events'[i] \in Verdicts
  <2>1. Head(todo).do # "timer"
    BY <1>10 DEF Askers
  <2>2. CASE Has(sends, Askers)
    BY <1>8, <2>2
  <2>3. CASE /\ Head(todo).do = "fsm" /\ Head(todo).arg \in Events
             /\ events' = Append(events, Head(todo).arg)
    <3>1. Head(todo).arg \in Verdicts
      BY <1>10, <2>3 DEF Askers
    <3>2. Len(events) + 1 \in DOMAIN events' /\ events'[Len(events) + 1] \in Verdicts
      BY <1>4, <2>3, <3>1, AppendElements
    <3>3. QED
      BY <3>2
  <2>4. QED
    BY <1>4, <1>10, <2>1, <2>2, <2>3 DEF Consumes
<1>11. QED
  BY <1>1, <1>2, <1>3, <1>5, <1>6, <1>8, <1>9, <1>10

\* No step of a handler leaves a stop without what makes it good.
LEMMA ConsumesStops ==
  ASSUME TypeOK, StopsInv, NEW sends \in Seq(Ops), Consumes(sends)
  PROVE  StopsInv'
<1>1. /\ fsm' = fsm /\ fsmOut' = fsmOut /\ actions' = actions
      /\ Coming(Starters)' <=> Coming(Starters)
      /\ Ending => Ending'
      /\ \A i \in DOMAIN cmds : i \in DOMAIN cmds' /\ cmds'[i] = cmds[i]
      /\ Has(todo, Starters) =>
           Has(todo', Starters) \/ \E i \in DOMAIN cmds' : cmds'[i] = "InitTimer"
  BY ConsumesKeeps
<1>2. /\ NeedsTimer' = NeedsTimer /\ \A e : Ends(e)' <=> Ends(e)
  BY <1>1, SameState
<1>3. /\ cmds \in Seq(W!Commands) /\ events \in Seq(Events) /\ todo \in Seq(Ops)
      /\ "InitTimer" \in W!Commands /\ "StopTimer" \in W!Commands
      /\ InitTimer.arg = "InitTimer" /\ StopTimer.arg = "StopTimer"
      /\ InitTimer.do = "timer" /\ StopTimer.do = "timer"
  BY DEF TypeOK, W!Commands, InitTimer, StopTimer, Op
<1>4. /\ todo # <<>>
      /\ todo' = sends \o Tail(todo)
      /\ \A i \in DOMAIN sends : sends[i] # StopTimer
  BY DEF Consumes
<1>5. fsm'.global # "Normal" => VectorsMadeGood'
  BY <1>1 DEF StopsInv, VectorsMadeGood, MadeGood
<1>6. ASSUME NeedsTimer, NEW i \in DOMAIN todo', todo'[i] = StopTimer
      PROVE  Covered(todo', i) \/ Coming(Starters)' \/ Ending'
  <2>1. PICK k \in DOMAIN todo :
            /\ todo[k] = StopTimer
            /\ Covered(todo, k) => \/ Covered(todo', i)
                                   \/ Head(todo).do = "fsm" /\ Ends(Head(todo).arg)
    BY <1>3, <1>4, <1>6, CoverMoves
  <2>2. Covered(todo, k) \/ Coming(Starters) \/ Ending
    BY <1>6, <2>1 DEF StopsInv, StopsInTodo
  <2>3. ASSUME Head(todo).do = "fsm", Ends(Head(todo).arg)
        PROVE  Ending'
    <3>1. Head(todo).arg \in Events /\ events' = Append(events, Head(todo).arg)
      BY <1>3, <2>3 DEF Consumes
    <3>2. /\ Len(events) + 1 \in DOMAIN events'
          /\ events'[Len(events) + 1] = Head(todo).arg
      BY <1>3, <3>1, AppendElements
    <3>3. QED
      BY <1>2, <2>3, <3>2 DEF Ending
  <2>4. QED
    BY <1>1, <2>1, <2>2, <2>3
<1>7. NeedsTimer' => StopsInTodo'
  BY <1>2, <1>6 DEF StopsInTodo, Covered
<1>8. ASSUME NeedsTimer, NEW i \in DOMAIN cmds', cmds'[i] = "StopTimer"
      PROVE  \/ \E j \in DOMAIN cmds' : j > i /\ cmds'[j] = "InitTimer"
             \/ Has(todo', Starters) \/ Coming(Starters)' \/ Ending'
  <2>1. CASE Head(todo) = InitTimer
    <3>1. cmds' = Append(cmds, "InitTimer")
      BY <1>3, <2>1 DEF Consumes
    <3>2. /\ DOMAIN cmds = 1 .. Len(cmds) /\ Len(cmds) \in Nat
          /\ DOMAIN cmds' = 1 .. (Len(cmds) + 1) /\ cmds'[Len(cmds) + 1] = "InitTimer"
      BY <1>3, <3>1, AppendElements
    <3>3. i # Len(cmds) + 1
      BY <1>8, <3>2
    <3>4. Len(cmds) + 1 > i /\ Len(cmds) + 1 \in DOMAIN cmds'
      BY <3>2, <3>3
    <3>5. QED
      BY <3>2, <3>4
  <2>2. ASSUME NEW k \in DOMAIN cmds, k = i, Head(todo) # InitTimer
        PROVE  \/ \E j \in DOMAIN cmds' : j > i /\ cmds'[j] = "InitTimer"
               \/ Has(todo', Starters) \/ Coming(Starters)' \/ Ending'
    <3>1. cmds[k] = "StopTimer"
      BY <1>1, <1>8, <2>2
    <3>2. \/ \E j \in DOMAIN cmds : j > k /\ cmds[j] = "InitTimer"
          \/ Has(todo, Starters) \/ Coming(Starters) \/ Ending
      BY <1>8, <3>1 DEF StopsInv, StopsInCmds
    <3>3. ASSUME Has(todo, Starters) PROVE Has(todo', Starters)
      <4>1. Head(todo) \in Starters \/ Has(todo', Starters)
        BY <1>3, <1>4, <3>3, HasMoves
      <4>2. Has(sends, Starters) => Has(todo', Starters)
        BY <1>3, <1>4, HasMoves
      <4>3. Head(todo) \in Starters => Head(todo).do # "fsm" /\ Head(todo) # StopTimer
        BY DEF Starters, StopTimer, InitTimer, Op
      <4>4. QED
        BY <2>2, <4>1, <4>2, <4>3 DEF Consumes
    <3>4. QED
      BY <1>1, <2>2, <3>2, <3>3
  <2>3. CASE Head(todo) # InitTimer /\ i \notin DOMAIN cmds
    <3>1. cmds' = Append(cmds, "StopTimer") /\ Head(todo) = StopTimer
      BY <1>3, <2>3 DEF Consumes
    <3>2. 1 \in DOMAIN todo /\ todo[1] = StopTimer /\ DOMAIN todo = 1 .. Len(todo)
      BY <1>3, <1>4, <3>1, TailElements
    <3>3. Covered(todo, 1) \/ Coming(Starters) \/ Ending
      BY <1>8, <3>2 DEF StopsInv, StopsInTodo
    <3>4. Covered(todo, 1) => Has(todo, Starters)
      BY <3>2 DEF Covered, Has
    <3>5. Has(todo, Starters) => Has(todo', Starters)
      <4>1. StopTimer \notin Starters
        BY DEF Starters, StopTimer, InitTimer, Op
      <4>2. QED
        BY <1>3, <1>4, <3>1, <4>1, HasMoves
    <3>6. QED
      BY <1>1, <3>3, <3>4, <3>5
  <2>4. QED
    BY <2>1, <2>2, <2>3
<1>9. NeedsTimer' => StopsInCmds'
  BY <1>2, <1>8 DEF StopsInCmds
<1>10. QED
  BY <1>5, <1>7, <1>9 DEF StopsInv

\* Entering a state that needs the watchdog brings a start.
LEMMA EntriesStart ==
  TypeOK /\ Hierarchy /\ fsm.balance # "InitBalanceMode" =>
    \A v : EntryOf(v, fsm) =>
      /\ NeedsTimer => Has(v, Starters)
      /\ In(Checks) => Has(v, Askers)
      /\ fsm.global # "Normal" => MadeGood(v)
BY EntryStarts DEF TypeOK, FsmValues

\* The machine enters a state: what that needs is on its way.
LEMMA EnteredState ==
  ASSUME TypeOK', Hierarchy', fsm'.balance # "InitBalanceMode",
         NEW vec, fsmOut' = <<vec>>, EntryOf(vec, fsm')
  PROVE  /\ NeedsTimer' => Coming(Starters)'
         /\ In(Checks)' => Coming(Askers)'
         /\ fsm'.global # "Normal" => MadeGood(vec)
<1>1. (TypeOK /\ Hierarchy /\ fsm.balance # "InitBalanceMode" =>
         \A v : EntryOf(v, fsm) =>
           /\ NeedsTimer => Has(v, Starters)
           /\ In(Checks) => Has(v, Askers)
           /\ fsm.global # "Normal" => MadeGood(v))'
  BY EntriesStart, PTL
<1>2. /\ NeedsTimer' => Has(vec, Starters)
      /\ In(Checks)' => Has(vec, Askers)
      /\ fsm'.global # "Normal" => MadeGood(vec)
  BY <1>1 DEF EntryOf, Has, MadeGood
<1>3. 1 \in DOMAIN fsmOut' /\ fsmOut'[1] = vec
  OBVIOUS
<1>4. QED
  BY <1>2, <1>3 DEF Coming, Has

\* The vectors under way, when the machine takes an event without moving.
LEMMA StaysComing ==
  ASSUME actions' = actions, fsmOut = <<>> \/ fsmOut' = fsmOut, NEW S
  PROVE  Coming(S) => Coming(S)'
BY DEF Coming, Has

\* Events behind the head stay.
LEMMA EventsBehind ==
  ASSUME TypeOK, TakesAnEvent, NEW S, Head(events) \notin S,
         \E i \in DOMAIN events : events[i] \in S
  PROVE  \E i \in DOMAIN events' : events'[i] \in S
<1>1. events \in Seq(Events) /\ events # <<>> /\ events' = Tail(events)
  BY DEF TypeOK, TakesAnEvent
<1>2. PICK i \in DOMAIN events : events[i] \in S
  OBVIOUS
<1>3. i # 1 /\ i - 1 \in DOMAIN events' /\ events'[i - 1] = events[i]
  BY <1>1, <1>2, TailElements
<1>4. QED
  BY <1>2, <1>3

\* Every step keeps the pairing of stops and starts.
LEMMA StopsStep ==
  ASSUME TypeOK, Hierarchy, TypeOK', Hierarchy', AgreesInv, StopsInv, [Next]_vars
  PROVE  StopsInv'
<1>1. ASSUME UNCHANGED <<todo, events, fsmVars, cmds>>
      PROVE  StopsInv'
  <2>1. fsm' = fsm /\ fsmOut' = fsmOut /\ actions' = actions
        /\ todo' = todo /\ events' = events /\ cmds' = cmds
    BY <1>1 DEF fsmVars
  <2>2. NeedsTimer' = NeedsTimer /\ \A e : Ends(e)' <=> Ends(e)
    BY <2>1, SameState
  <2>3. QED
    BY <2>1, <2>2 DEF StopsInv, StopsInCmds, StopsInTodo, VectorsMadeGood,
                      MadeGood, Covered, Coming, Ending, Has
<1>2. CASE DataAnswers \/ HubSends
  BY <1>1, <1>2 DEF DataAnswers, HubSends, Command, timerVars
<1>3. CASE TakesCommand
  <2>1. todo = <<>> /\ UNCHANGED fsmVars
    BY <1>3, CommandKeeps
  <2>2. /\ fsm' = fsm /\ fsmOut' = fsmOut /\ actions' = actions
        /\ events' = events /\ cmds' = cmds
    BY <1>3, <2>1 DEF TakesCommand, TakesHandshake, quorum_phase, quorum_safe_mode,
                      TakesErrorEpoch, TakesEpoch, Receives, fsmVars, timerVars
  <2>3. NeedsTimer' = NeedsTimer /\ \A e : Ends(e)' <=> Ends(e)
    BY <2>2, SameState
  <2>4. Coming(Starters)' <=> Coming(Starters)
    BY <2>2 DEF Coming, Has
  <2>5. Ending' <=> Ending
    BY <2>2, <2>3 DEF Ending
  <2>6. ~Has(todo, Starters)
    BY <2>1 DEF Has
  <2>7. NeedsTimer => \A i \in DOMAIN todo' : todo'[i] = StopTimer =>
                         Covered(todo', i) \/ Coming(Starters)
    BY <1>3, CommandStops
  <2>8. NeedsTimer' => StopsInTodo'
    BY <2>3, <2>4, <2>7 DEF StopsInTodo, Covered
  <2>9. NeedsTimer' => StopsInCmds'
    BY <2>2, <2>3, <2>4, <2>5, <2>6 DEF StopsInv, StopsInCmds
  <2>10. fsm'.global # "Normal" => VectorsMadeGood'
    BY <2>2 DEF StopsInv, VectorsMadeGood, MadeGood
  <2>11. QED
    BY <2>8, <2>9, <2>10 DEF StopsInv
<1>4. CASE TakesActions
  <2>1. /\ todo = <<>> /\ actions # <<>> /\ todo' = Head(actions)
        /\ actions' = Tail(actions) /\ fsm' = fsm /\ fsmOut' = fsmOut
        /\ events' = events /\ cmds' = cmds
    BY <1>4 DEF TakesActions, timerVars
  <2>2. NeedsTimer' = NeedsTimer /\ \A e : Ends(e)' <=> Ends(e)
    BY <2>1, SameState
  <2>3. Coming(Starters) => Has(todo', Starters) \/ Coming(Starters)'
    BY <1>4, ComingMoves
  <2>4. Ending' <=> Ending
    BY <2>1, <2>2 DEF Ending
  <2>5. ~Has(todo, Starters)
    BY <2>1 DEF Has
  <2>6. /\ Head(actions) = actions[1] /\ 1 \in DOMAIN actions
        /\ \A i \in DOMAIN actions' :
             i + 1 \in DOMAIN actions /\ actions'[i] = actions[i + 1]
    <3>1. actions \in Seq(Seq(Ops))
      BY DEF TypeOK
    <3>2. QED
      BY <2>1, <3>1, TailElements
  <2>7. fsm'.global # "Normal" => VectorsMadeGood' /\ MadeGood(Head(actions))
    BY <2>1, <2>6 DEF StopsInv, VectorsMadeGood, MadeGood
  <2>8. NeedsTimer => fsm.global # "Normal"
    BY DEF NeedsTimer, In
  <2>9. NeedsTimer' => StopsInTodo'
    BY <2>1, <2>2, <2>7, <2>8 DEF StopsInTodo, MadeGood, Covered
  <2>10. NeedsTimer' => StopsInCmds'
    BY <2>1, <2>2, <2>3, <2>4, <2>5 DEF StopsInv, StopsInCmds
  <2>11. QED
    BY <2>7, <2>9, <2>10 DEF StopsInv
<1>5. CASE Sends
  <2>1. Consumes(<<>>) /\ <<>> \in Seq(Ops)
    BY <1>5, SendsConsume
  <2>2. QED
    BY <2>1, ConsumesStops
<1>6. CASE handle_action
  <2>1. PICK sends \in Seq(Ops) : Consumes(sends)
    BY <1>6, HandleConsumes
  <2>2. QED
    BY <2>1, ConsumesStops
<1>7. CASE step_inner
  <2>1. StepKinds
    BY <1>7, StepVectors
  <2>2. todo' = todo /\ actions' = actions /\ cmds' = cmds
    BY <2>1 DEF StepKinds, timerVars
  <2>3. ASSUME NeedsTimer' => NeedsTimer /\ (Coming(Starters) => Coming(Starters)'),
               NeedsTimer' => \A e : Ends(e)' <=> Ends(e),
               NeedsTimer' => (Ending => Ending')
        PROVE  NeedsTimer' => StopsInCmds' /\ StopsInTodo'
    <3>1. NeedsTimer' => StopsInCmds'
      BY <2>2, <2>3 DEF StopsInv, StopsInCmds, Has
    <3>2. NeedsTimer' => StopsInTodo'
      BY <2>2, <2>3 DEF StopsInv, StopsInTodo, Covered
    <3>3. QED
      BY <3>1, <3>2
  <2>4. CASE /\ TakesAnEvent /\ Head(events) \notin Accepted
             /\ UNCHANGED <<fsm, fsmOut>>
    <3>1. NeedsTimer' = NeedsTimer /\ \A e : Ends(e)' <=> Ends(e)
      BY <2>4, SameState
    <3>2. Coming(Starters) => Coming(Starters)'
      BY <2>2, <2>4, StaysComing
    <3>3. Ending => Ending'
      <4>1. Ending <=> \E i \in DOMAIN events : events[i] \in {e \in Events : Ends(e)}
        BY ElementOfSeq DEF Ending, TypeOK
      <4>2. Head(events) \notin {e \in Events : Ends(e)}
        BY <2>4, ExitsAccepted
      <4>3. Ending => \E i \in DOMAIN events' : events'[i] \in {e \in Events : Ends(e)}
        BY <2>4, <4>1, <4>2, EventsBehind
      <4>4. QED
        BY <3>1, <4>3 DEF Ending
    <3>4. fsm'.global # "Normal" => VectorsMadeGood'
      BY <2>2, <2>4 DEF StopsInv, VectorsMadeGood, MadeGood
    <3>5. QED
      BY <2>3, <3>1, <3>2, <3>3, <3>4 DEF StopsInv
  <2>5. CASE /\ TakesAnEvent /\ fsm' = fsm /\ In(Handshakes)
             /\ fsmOut' \in {<< <<>> >>, << <<CalculateQuorum>> >>}
    <3>1. NeedsTimer' = NeedsTimer /\ \A e : Ends(e)' <=> Ends(e)
      BY <2>5, SameState
    <3>2. Coming(Starters) => Coming(Starters)'
      BY <2>2, <2>5, StaysComing DEF TakesAnEvent
    <3>3. ~Ending
      BY <2>5, ExitsAccepted DEF Ending
    <3>4. MadeGood(<<>>) /\ MadeGood(<<CalculateQuorum>>)
      BY DEF MadeGood, CalculateQuorum, StopTimer, Op
    <3>5. \A i \in DOMAIN fsmOut' : MadeGood(fsmOut'[i])
      BY <2>5, <3>4
    <3>6. fsm'.global # "Normal" => VectorsMadeGood'
      BY <2>2, <2>5, <3>5 DEF StopsInv, VectorsMadeGood, MadeGood
    <3>7. QED
      BY <2>3, <3>1, <3>2, <3>3, <3>6 DEF StopsInv
  <2>6. CASE /\ fsm.global # "Normal" /\ fsm'.balance # "InitBalanceMode"
             /\ \E vec : fsmOut' = <<vec>> /\ EntryOf(vec, fsm')
    <3>1. PICK vec : fsmOut' = <<vec>> /\ EntryOf(vec, fsm')
      BY <2>6
    <3>2. /\ NeedsTimer' => Coming(Starters)'
          /\ fsm'.global # "Normal" => MadeGood(vec)
      BY <2>6, <3>1, EnteredState
    <3>3. NeedsTimer' => StopsInCmds' /\ StopsInTodo'
      BY <3>2 DEF StopsInCmds, StopsInTodo
    <3>4. \A i \in DOMAIN fsmOut' : fsmOut'[i] = vec
      BY <3>1
    <3>5. fsm'.global # "Normal" => VectorsMadeGood'
      BY <2>2, <2>6, <3>2, <3>4 DEF StopsInv, VectorsMadeGood, MadeGood
    <3>6. QED
      BY <3>3, <3>5 DEF StopsInv
  <2>7. CASE /\ fsm.global = "Start"
             /\ fsm'.global = "BalanceMode" /\ fsm'.balance = "InitBalanceMode"
             /\ fsmOut' = << <<Op("OnEntryBalance", "InitBalanceMode")>> >>
    <3>1. ~NeedsTimer'
      BY <2>7 DEF NeedsTimer, In, Leaf, Handshakes, SubStatePhase
    <3>2. MadeGood(<<Op("OnEntryBalance", "InitBalanceMode")>>)
      BY DEF MadeGood, StopTimer, Op
    <3>3. \A i \in DOMAIN fsmOut' : MadeGood(fsmOut'[i])
      BY <2>7, <3>2
    <3>4. VectorsMadeGood'
      BY <2>2, <2>7, <3>3 DEF StopsInv, VectorsMadeGood, MadeGood
    <3>5. QED
      BY <3>1, <3>4 DEF StopsInv
  <2>8. QED
    BY <2>1, <2>4, <2>5, <2>6, <2>7 DEF StepKinds
<1>8. CASE RunFsmSendsActions
  <2>1. /\ fsmOut # <<>> /\ actions' = Append(actions, Head(fsmOut))
        /\ fsmOut' = <<>> /\ fsm' = fsm /\ todo' = todo
        /\ events' = events /\ cmds' = cmds
    BY <1>8 DEF RunFsmSendsActions, timerVars
  <2>2. NeedsTimer' = NeedsTimer /\ \A e : Ends(e)' <=> Ends(e)
    BY <2>1, SameState
  <2>3. Coming(Starters) <=> Coming(Starters)'
    BY <1>8, ComingMoves
  <2>4. NeedsTimer' => StopsInCmds' /\ StopsInTodo'
    BY <2>1, <2>2, <2>3 DEF StopsInv, StopsInCmds, StopsInTodo, Covered, Ending, Has
  <2>5. DOMAIN fsmOut = {1} /\ fsmOut[1] \in Seq(Ops) /\ Head(fsmOut) = fsmOut[1]
    BY <2>1, SoleElement DEF TypeOK
  <2>6. /\ \A i \in DOMAIN actions : actions'[i] = actions[i]
        /\ actions'[Len(actions) + 1] = fsmOut[1]
        /\ DOMAIN actions = 1 .. Len(actions) /\ Len(actions) \in Nat
        /\ DOMAIN actions' = 1 .. (Len(actions) + 1)
    <3>1. actions \in Seq(Seq(Ops)) /\ actions' = Append(actions, fsmOut[1])
      BY <2>1, <2>5 DEF TypeOK
    <3>2. QED
      BY <2>5, <3>1, AppendElements
  <2>7. fsm'.global # "Normal" => \A i \in DOMAIN actions' : MadeGood(actions'[i])
    <3>1. ASSUME NEW i \in DOMAIN actions', fsm.global # "Normal"
          PROVE  MadeGood(actions'[i])
      <4>1. i \in DOMAIN actions \/ i = Len(actions) + 1
        BY <2>6
      <4>2. QED
        BY <2>5, <2>6, <3>1, <4>1 DEF StopsInv, VectorsMadeGood
    <3>2. QED
      BY <2>1, <3>1
  <2>8. fsm'.global # "Normal" => VectorsMadeGood'
    BY <2>1, <2>7 DEF VectorsMadeGood, MadeGood
  <2>9. QED
    BY <2>4, <2>8 DEF StopsInv
<1>9. CASE fsm_watchdog_timer
  <2>1. /\ fsm' = fsm /\ fsmOut' = fsmOut /\ actions' = actions /\ todo' = todo
    BY <1>9 DEF fsm_watchdog_timer, fsmVars
  <2>2. NeedsTimer' = NeedsTimer /\ \A e : Ends(e)' <=> Ends(e)
    BY <2>1, SameState
  <2>3. fsm'.global # "Normal" => VectorsMadeGood'
    BY <2>1 DEF StopsInv, VectorsMadeGood, MadeGood
  <2>4. Coming(Starters)' <=> Coming(Starters)
    BY <2>1 DEF Coming, Has
  <2>5. \/ events' = events
        \/ events' = Append(events, "Timeout") /\ "Timeout" \in Events
    BY <1>9 DEF fsm_watchdog_timer, W!TimerStep, W!TimerTakesCommand,
                W!TimerTakesCommandAsleep, W!TimerExpires, W!TimerSendsTimeout, Events
  <2>6. Ending => Ending'
    BY <2>1, <2>5, EndingKept
  <2>7. NeedsTimer' => StopsInTodo'
    BY <2>1, <2>2, <2>4, <2>6 DEF StopsInv, StopsInTodo, Covered
  <2>8. CASE cmds' = cmds
    <3>1. NeedsTimer' => StopsInCmds'
      BY <2>1, <2>2, <2>4, <2>6, <2>8 DEF StopsInv, StopsInCmds, Has
    <3>2. QED
      BY <2>3, <2>7, <3>1 DEF StopsInv
  <2>9. CASE cmds # <<>> /\ cmds' = Tail(cmds)
    <3>1. /\ \A i \in DOMAIN cmds' : i + 1 \in DOMAIN cmds /\ cmds'[i] = cmds[i + 1]
          /\ \A i \in DOMAIN cmds : i # 1 => i - 1 \in DOMAIN cmds' /\ i > 1
          /\ DOMAIN cmds = 1 .. Len(cmds) /\ DOMAIN cmds' = 1 .. (Len(cmds) - 1)
          /\ Len(cmds) \in Nat
      <4>1. cmds \in Seq(W!Commands)
        BY DEF TypeOK
      <4>2. QED
        BY <2>9, <4>1, TailElements
    <3>2. ASSUME NeedsTimer, NEW i \in DOMAIN cmds', cmds'[i] = "StopTimer"
          PROVE  \/ \E j \in DOMAIN cmds' : j > i /\ cmds'[j] = "InitTimer"
                 \/ Has(todo', Starters) \/ Coming(Starters)' \/ Ending'
      <4>1. i + 1 \in DOMAIN cmds /\ cmds[i + 1] = "StopTimer"
        BY <3>1, <3>2
      <4>2. \/ \E j \in DOMAIN cmds : j > i + 1 /\ cmds[j] = "InitTimer"
            \/ Has(todo, Starters) \/ Coming(Starters) \/ Ending
        BY <3>2, <4>1 DEF StopsInv, StopsInCmds
      <4>3. ASSUME NEW j \in DOMAIN cmds, j > i + 1, cmds[j] = "InitTimer"
            PROVE  j - 1 \in DOMAIN cmds' /\ j - 1 > i /\ cmds'[j - 1] = "InitTimer"
        BY <3>1, <4>3
      <4>4. QED
        BY <2>1, <2>4, <2>6, <4>2, <4>3
    <3>3. NeedsTimer' => StopsInCmds'
      BY <2>2, <3>2 DEF StopsInCmds
    <3>4. QED
      BY <2>3, <2>7, <3>3 DEF StopsInv
  <2>10. QED
    BY <1>9, <2>8, <2>9
       DEF fsm_watchdog_timer, W!TimerStep, W!TimerTakesCommand,
           W!TimerTakesCommandAsleep, W!TimerExpires, W!TimerSendsTimeout
<1>10. CASE UNCHANGED vars
  BY <1>1, <1>10 DEF vars, timerVars
<1>11. QED
  BY <1>2, <1>3, <1>4, <1>5, <1>6, <1>7, <1>8, <1>9, <1>10
     DEF Next, TakesCommand, Sends

\* What gets the machine out of its state survives every step that stays in it.
LEMMA LiveStep ==
  ASSUME TypeOK, Hierarchy, TypeOK', Hierarchy', StopsInv, LiveInv, [Next]_vars
  PROVE  LiveInv'
<1>0. events \in Seq(Events) /\ cmds \in Seq(W!Commands) /\ actions \in Seq(Seq(Ops))
  BY DEF TypeOK
<1>1. ASSUME UNCHANGED <<events, fsmVars, timer, cmds>>,
             Has(todo, Starters) => Has(todo', Starters),
             Has(todo, Askers) => Has(todo', Askers)
      PROVE  LiveInv'
  <2>1. fsm' = fsm /\ fsmOut' = fsmOut /\ actions' = actions
        /\ events' = events /\ cmds' = cmds /\ timer' = timer
    BY <1>1 DEF fsmVars
  <2>2. /\ NeedsTimer' = NeedsTimer /\ \A e : Ends(e)' <=> Ends(e)
        /\ \A S : In(S)' <=> In(S)
    BY <2>1, SameState
  <2>3. /\ Coming(Starters)' <=> Coming(Starters)
        /\ Coming(Askers)' <=> Coming(Askers)
        /\ Ending' <=> Ending
    BY <2>1, <2>2 DEF Coming, Ending, Has
  <2>4. QED
    BY <1>1, <2>1, <2>2, <2>3 DEF LiveInv
<1>2. CASE DataAnswers \/ HubSends
  BY <1>1, <1>2 DEF DataAnswers, HubSends, Command, timerVars, Has
<1>3. CASE TakesCommand
  <2>1. todo = <<>> /\ UNCHANGED fsmVars
    BY <1>3, CommandKeeps
  <2>2. UNCHANGED <<events, timer, cmds>>
    BY <1>3 DEF TakesCommand, TakesHandshake, quorum_phase, quorum_safe_mode,
                TakesErrorEpoch, TakesEpoch, Receives, timerVars
  <2>3. ~Has(todo, Starters) /\ ~Has(todo, Askers)
    BY <2>1 DEF Has
  <2>4. QED
    BY <1>1, <2>1, <2>2, <2>3
<1>4. CASE TakesActions
  <2>1. /\ todo = <<>> /\ fsm' = fsm
        /\ events' = events /\ cmds' = cmds /\ timer' = timer
    BY <1>4 DEF TakesActions, timerVars
  <2>2. /\ NeedsTimer' = NeedsTimer /\ \A e : Ends(e)' <=> Ends(e)
        /\ \A S : In(S)' <=> In(S)
    BY <2>1, SameState
  <2>3. /\ Coming(Starters) => Has(todo', Starters) \/ Coming(Starters)'
        /\ Coming(Askers) => Has(todo', Askers) \/ Coming(Askers)'
    BY <1>4, ComingMoves
  <2>4. Ending' <=> Ending
    BY <2>1, <2>2 DEF Ending
  <2>5. ~Has(todo, Starters) /\ ~Has(todo, Askers)
    BY <2>1 DEF Has
  <2>6. QED
    BY <2>1, <2>2, <2>3, <2>4, <2>5 DEF LiveInv
<1>5. ASSUME NEW sends \in Seq(Ops), Consumes(sends)
      PROVE  LiveInv'
  <2>1. /\ fsm' = fsm
        /\ Coming(Starters)' <=> Coming(Starters)
        /\ Coming(Askers)' <=> Coming(Askers)
        /\ Ending => Ending'
        /\ \A i \in DOMAIN events : i \in DOMAIN events' /\ events'[i] = events[i]
        /\ \A i \in DOMAIN cmds : i \in DOMAIN cmds' /\ cmds'[i] = cmds[i]
        /\ Has(todo, Starters) =>
             Has(todo', Starters) \/ \E i \in DOMAIN cmds' : cmds'[i] = "InitTimer"
        /\ Has(todo, Askers) =>
             Has(todo', Askers) \/ \E i \in DOMAIN events' : events'[i] \in Verdicts
    BY <1>5, ConsumesKeeps
  <2>2. NeedsTimer' = NeedsTimer /\ \A S : In(S)' <=> In(S)
    BY <2>1, SameState
  <2>3. timer' = timer
    BY <1>5 DEF Consumes
  <2>4. NeedsTimer' =>
          \/ timer' # "idle" \/ \E i \in DOMAIN events' : events'[i] = "Timeout"
          \/ \E i \in DOMAIN cmds' : cmds'[i] = "InitTimer"
          \/ Has(todo', Starters) \/ Coming(Starters)' \/ Ending'
    BY <2>1, <2>2, <2>3 DEF LiveInv
  <2>5. In(Checks)' =>
          \/ \E i \in DOMAIN events' : events'[i] \in Verdicts
          \/ Has(todo', Askers) \/ Coming(Askers)'
    BY <2>1, <2>2 DEF LiveInv
  <2>6. QED
    BY <2>4, <2>5 DEF LiveInv
<1>6. CASE Sends
  <2>1. Consumes(<<>>) /\ <<>> \in Seq(Ops)
    BY <1>6, SendsConsume
  <2>2. QED
    BY <1>5, <2>1
<1>7. CASE handle_action
  <2>1. PICK sends \in Seq(Ops) : Consumes(sends)
    BY <1>7, HandleConsumes
  <2>2. QED
    BY <1>5, <2>1
<1>8. CASE step_inner
  <2>1. StepKinds
    BY <1>8, StepVectors
  <2>2. /\ todo' = todo /\ actions' = actions /\ cmds' = cmds /\ timer' = timer
        /\ \A S : Has(todo', S) <=> Has(todo, S)
    BY <2>1 DEF StepKinds, timerVars, Has
  <2>3. CASE /\ TakesAnEvent /\ Head(events) \notin Accepted
             /\ UNCHANGED <<fsm, fsmOut>>
    <3>1. /\ NeedsTimer' = NeedsTimer /\ \A e : Ends(e)' <=> Ends(e)
          /\ \A S : In(S)' <=> In(S)
      BY <2>3, SameState
    <3>2. /\ Coming(Starters) => Coming(Starters)'
          /\ Coming(Askers) => Coming(Askers)'
      BY <2>2, <2>3, StaysComing
    <3>3. ASSUME NEW S, S \subseteq Accepted, \E i \in DOMAIN events : events[i] \in S
          PROVE  \E i \in DOMAIN events' : events'[i] \in S
      <4>1. Head(events) \notin S
        BY <2>3, <3>3
      <4>2. QED
        BY <2>3, <3>3, <4>1, EventsBehind
    <3>4. Ending => Ending'
      <4>1. {e \in Events : Ends(e)} \subseteq Accepted
        BY ExitsAccepted
      <4>2. Ending <=> \E i \in DOMAIN events : events[i] \in {e \in Events : Ends(e)}
        BY <1>0, ElementOfSeq DEF Ending
      <4>3. Ending => \E i \in DOMAIN events' : events'[i] \in {e \in Events : Ends(e)}
        BY <3>3, <4>1, <4>2
      <4>4. QED
        BY <3>1, <4>3 DEF Ending
    <3>5. NeedsTimer /\ (\E i \in DOMAIN events : events[i] = "Timeout")
            => \E i \in DOMAIN events' : events'[i] = "Timeout"
      <4>1. NeedsTimer => {"Timeout"} \subseteq Accepted
        BY ExitsAccepted
      <4>2. NeedsTimer /\ (\E i \in DOMAIN events : events[i] \in {"Timeout"})
              => \E i \in DOMAIN events' : events'[i] \in {"Timeout"}
        BY <3>3, <4>1
      <4>3. QED
        BY <4>2
    <3>6. In(Checks) /\ (\E i \in DOMAIN events : events[i] \in Verdicts)
            => \E i \in DOMAIN events' : events'[i] \in Verdicts
      BY <3>3, ExitsAccepted
    <3>7. QED
      BY <2>2, <3>1, <3>2, <3>4, <3>5, <3>6 DEF LiveInv
  <2>4. CASE /\ TakesAnEvent /\ fsm' = fsm
             /\ In(Handshakes) /\ Head(events) # "Timeout"
    <3>1. /\ NeedsTimer' = NeedsTimer /\ \A S : In(S)' <=> In(S)
      BY <2>4, SameState
    <3>2. Coming(Starters) => Coming(Starters)'
      BY <2>2, <2>4, StaysComing DEF TakesAnEvent
    <3>3. ~Ending /\ ~In(Checks)
      BY <2>4, ExitsAccepted DEF Ending
    <3>4. (\E i \in DOMAIN events : events[i] = "Timeout")
            => \E i \in DOMAIN events' : events'[i] = "Timeout"
      <4>1. Head(events) \notin {"Timeout"}
        BY <2>4
      <4>2. (\E i \in DOMAIN events : events[i] \in {"Timeout"})
              => \E i \in DOMAIN events' : events'[i] \in {"Timeout"}
        BY <2>4, <4>1, EventsBehind
      <4>3. QED
        BY <4>2
    <3>5. QED
      BY <2>2, <3>1, <3>2, <3>3, <3>4 DEF LiveInv
  <2>5. CASE /\ fsm'.balance # "InitBalanceMode"
             /\ \E vec : fsmOut' = <<vec>> /\ EntryOf(vec, fsm')
    <3>1. PICK vec : fsmOut' = <<vec>> /\ EntryOf(vec, fsm')
      BY <2>5
    <3>2. /\ NeedsTimer' => Coming(Starters)'
          /\ In(Checks)' => Coming(Askers)'
      BY <2>5, <3>1, EnteredState
    <3>3. QED
      BY <3>2 DEF LiveInv
  <2>6. CASE fsm'.global = "BalanceMode" /\ fsm'.balance = "InitBalanceMode"
    <3>1. ~NeedsTimer' /\ ~In(Checks)'
      BY <2>6 DEF NeedsTimer, In, Leaf, Handshakes, SubStatePhase, Checks
    <3>2. QED
      BY <3>1 DEF LiveInv
  <2>7. QED
    BY <2>1, <2>3, <2>4, <2>5, <2>6 DEF StepKinds
<1>9. CASE RunFsmSendsActions
  <2>1. /\ fsm' = fsm /\ todo' = todo
        /\ events' = events /\ cmds' = cmds /\ timer' = timer
    BY <1>9 DEF RunFsmSendsActions, timerVars
  <2>2. /\ NeedsTimer' = NeedsTimer /\ \A e : Ends(e)' <=> Ends(e)
        /\ \A S : In(S)' <=> In(S)
    BY <2>1, SameState
  <2>3. /\ Coming(Starters) <=> Coming(Starters)'
        /\ Coming(Askers) <=> Coming(Askers)'
    BY <1>9, ComingMoves
  <2>4. Ending' <=> Ending
    BY <2>1, <2>2 DEF Ending
  <2>5. QED
    BY <2>1, <2>2, <2>3, <2>4 DEF LiveInv, Has
<1>10. CASE fsm_watchdog_timer
  <2>1. /\ fsm' = fsm /\ fsmOut' = fsmOut /\ actions' = actions /\ todo' = todo
    BY <1>10 DEF fsm_watchdog_timer, fsmVars
  <2>2. /\ NeedsTimer' = NeedsTimer /\ \A e : Ends(e)' <=> Ends(e)
        /\ \A S : In(S)' <=> In(S)
    BY <2>1, SameState
  <2>3. /\ \A S : Coming(S)' <=> Coming(S)
        /\ \A S : Has(todo', S) <=> Has(todo, S)
    BY <2>1 DEF Coming, Has
  <2>4. \/ events' = events
        \/ events' = Append(events, "Timeout") /\ "Timeout" \in Events
    BY <1>10 DEF fsm_watchdog_timer, W!TimerStep, W!TimerTakesCommand,
                 W!TimerTakesCommandAsleep, W!TimerExpires, W!TimerSendsTimeout, Events
  <2>5. Ending => Ending'
    BY <2>1, <2>4, EndingKept
  <2>6. In(Checks)' =>
          \/ \E i \in DOMAIN events' : events'[i] \in Verdicts
          \/ Has(todo', Askers) \/ Coming(Askers)'
    <3>1. \A i \in DOMAIN events : i \in DOMAIN events' /\ events'[i] = events[i]
      <4>1. CASE events' = events
        BY <4>1
      <4>2. CASE events' = Append(events, "Timeout") /\ "Timeout" \in Events
        BY <1>0, <4>2, AppendElements
      <4>3. QED
        BY <2>4, <4>1, <4>2
    <3>2. QED
      BY <2>2, <2>3, <3>1 DEF LiveInv
  <2>7. cmds # <<>> =>
          /\ Head(cmds) = cmds[1] /\ 1 \in DOMAIN cmds
          /\ \A i \in DOMAIN cmds : i # 1 => i - 1 \in DOMAIN Tail(cmds) /\ i > 1
          /\ \A i \in DOMAIN Tail(cmds) :
               i + 1 \in DOMAIN cmds /\ Tail(cmds)[i] = cmds[i + 1]
          /\ DOMAIN cmds = 1 .. Len(cmds)
    BY <1>0, TailElements
  <2>8. ASSUME cmds # <<>>, cmds' = Tail(cmds), NEW i \in DOMAIN cmds, i # 1,
               cmds[i] = "InitTimer"
        PROVE  i - 1 \in DOMAIN cmds' /\ cmds'[i - 1] = "InitTimer"
    BY <2>7, <2>8
  <2>9. CASE W!TimerTakesCommand
    <3>1. /\ timer = "idle" /\ cmds # <<>> /\ cmds' = Tail(cmds) /\ events' = events
          /\ timer' = IF Head(cmds) = "InitTimer" THEN "running" ELSE "idle"
      BY <2>9 DEF W!TimerTakesCommand
    <3>2. CASE Head(cmds) = "InitTimer"
      BY <2>6, <3>1, <3>2 DEF LiveInv
    <3>3. CASE Head(cmds) # "InitTimer"
      <4>1. (\E i \in DOMAIN cmds : cmds[i] = "InitTimer")
              => \E i \in DOMAIN cmds' : cmds'[i] = "InitTimer"
        BY <2>7, <2>8, <3>1, <3>3
      <4>2. QED
        BY <2>2, <2>3, <2>5, <2>6, <3>1, <4>1 DEF LiveInv
    <3>4. QED
      BY <3>2, <3>3
  <2>10. CASE W!TimerTakesCommandAsleep
    <3>1. /\ cmds # <<>> /\ cmds' = Tail(cmds) /\ events' = events
          /\ timer' = IF Head(cmds) = "StopTimer" THEN "idle" ELSE "deaf"
      BY <2>10 DEF W!TimerTakesCommandAsleep
    <3>2. CASE Head(cmds) = "StopTimer"
      <4>1. 1 \in DOMAIN cmds /\ cmds[1] = "StopTimer"
        BY <2>7, <3>1, <3>2
      <4>2. NeedsTimer =>
              \/ \E j \in DOMAIN cmds : j > 1 /\ cmds[j] = "InitTimer"
              \/ Has(todo, Starters) \/ Coming(Starters) \/ Ending
        BY <4>1 DEF StopsInv, StopsInCmds
      <4>3. (\E j \in DOMAIN cmds : j > 1 /\ cmds[j] = "InitTimer")
              => \E i \in DOMAIN cmds' : cmds'[i] = "InitTimer"
        BY <2>8, <3>1
      <4>4. QED
        BY <2>2, <2>3, <2>5, <2>6, <4>2, <4>3 DEF LiveInv
    <3>3. CASE Head(cmds) # "StopTimer"
      BY <2>6, <3>1, <3>3 DEF LiveInv
    <3>4. QED
      BY <3>2, <3>3
  <2>11. CASE W!TimerExpires
    BY <2>6, <2>11 DEF LiveInv, W!TimerExpires
  <2>12. CASE W!TimerSendsTimeout
    <3>1. events' = Append(events, "Timeout") /\ "Timeout" \in Events
      BY <2>12 DEF W!TimerSendsTimeout, Events
    <3>2. Len(events) + 1 \in DOMAIN events' /\ events'[Len(events) + 1] = "Timeout"
      BY <1>0, <3>1, AppendElements
    <3>3. QED
      BY <2>6, <3>2 DEF LiveInv
  <2>13. QED
    BY <1>10, <2>9, <2>10, <2>11, <2>12 DEF fsm_watchdog_timer, W!TimerStep
<1>11. CASE UNCHANGED vars
  BY <1>1, <1>11 DEF vars, timerVars, Has
<1>12. QED
  BY <1>2, <1>3, <1>4, <1>6, <1>7, <1>8, <1>9, <1>10, <1>11
     DEF Next, TakesCommand, Sends

\* What is under way is pending.
LEMMA UnderWayIsPending ==
  ASSUME NEW S, Has(todo, S) \/ Coming(S)
  PROVE  \E op \in Pending : op \in S
<1>1. ASSUME NEW v, NEW i \in DOMAIN v, v[i] \in S,
             ElementsOf(v) \subseteq Pending
      PROVE  \E op \in Pending : op \in S
  BY <1>1 DEF ElementsOf
<1>2. ElementsOf(todo) \subseteq Pending
  BY DEF Pending
<1>3. \A i \in DOMAIN actions : ElementsOf(actions[i]) \subseteq Pending
  <2>1. UNION {ElementsOf(v) : v \in ElementsOf(actions)} \subseteq Pending
    BY DEF Pending
  <2>2. \A i \in DOMAIN actions : actions[i] \in ElementsOf(actions)
    BY DEF ElementsOf
  <2>3. QED
    BY <2>1, <2>2
<1>4. \A i \in DOMAIN fsmOut : ElementsOf(fsmOut[i]) \subseteq Pending
  <2>1. UNION {ElementsOf(v) : v \in ElementsOf(fsmOut)} \subseteq Pending
    BY DEF Pending
  <2>2. \A i \in DOMAIN fsmOut : fsmOut[i] \in ElementsOf(fsmOut)
    BY DEF ElementsOf
  <2>3. QED
    BY <2>1, <2>2
<1>5. QED
  BY <1>1, <1>2, <1>3, <1>4 DEF Has, Coming

\* With the way out under way the machine is not stuck.
LEMMA LiveIsNotStuck ==
  ASSUME TypeOK, LiveInv
  PROVE  NeverStuck
<1>1. Has(todo, Starters) \/ Coming(Starters) => TimerWillRun
  <2>1. SUFFICES ASSUME NEW op \in Pending, op \in Starters PROVE TimerWillRun
    BY UnderWayIsPending
  <2>2. CASE op.do = "OnEntryPhase"
    <3>1. op.arg \in SubStatePhase
      BY <2>1, <2>2 DEF Starters, Ops, StopTimer, InitTimer, CalculateQuorum, Op
    <3>2. QED
      BY <2>1, <2>2, <3>1 DEF TimerWillRun, Entering
  <2>3. CASE op.do = "OnEntrySafeMode"
    <3>1. op.arg = None
      BY <2>1, <2>3 DEF Starters, Ops, StopTimer, InitTimer, CalculateQuorum, Op
    <3>2. QED
      BY <2>1, <2>3, <3>1 DEF TimerWillRun, Entering
  <2>4. CASE op = InitTimer
    BY <2>1, <2>4 DEF TimerWillRun
  <2>5. CASE op.do = "OnEntryBalance" /\ op.arg \in {"InHandshake", "OutHandshake"}
    BY <2>1, <2>5 DEF TimerWillRun, Entering
  <2>6. CASE op.do = "OnEntryQuorum"
               /\ op.arg \in {"RepeatHandshakeIn", "RepeatHandshakeOut"}
    BY <2>1, <2>6 DEF TimerWillRun, Entering
  <2>7. QED
    BY <2>1, <2>2, <2>3, <2>4, <2>5, <2>6 DEF Starters
<1>2. Has(todo, Askers) \/ Coming(Askers)
        => Entering("OnEntryQuorum", Checks) \/ Entering("fsm", Verdicts)
  <2>1. SUFFICES ASSUME NEW op \in Pending, op \in Askers
                 PROVE  Entering("OnEntryQuorum", Checks) \/ Entering("fsm", Verdicts)
    BY UnderWayIsPending
  <2>2. QED
    BY <2>1 DEF Askers, Entering
<1>3. NeedsTimer => Armed \/ Ending
  BY <1>1 DEF LiveInv, Armed, ElementsOf
<1>4. Ending => \/ In(SubStatePhase) /\ "QuorumPhase" \in ElementsOf(events)
                \/ fsm.global = "SafeMode" /\ "QuorumSafeMode" \in ElementsOf(events)
  BY DEF Ending, Ends, ElementsOf
<1>5. In(Checks) => \/ Entering("OnEntryQuorum", Checks) \/ Entering("fsm", Verdicts)
                    \/ Verdicts \cap ElementsOf(events) # {}
  <2>1. (\E i \in DOMAIN events : events[i] \in Verdicts)
           => Verdicts \cap ElementsOf(events) # {}
    BY DEF ElementsOf
  <2>2. QED
    BY <1>2, <2>1 DEF LiveInv
<1>6. /\ In(Handshakes) => ~In(SubStatePhase) /\ fsm.global # "SafeMode"
      /\ In(SubStatePhase) => fsm.global # "SafeMode"
  BY DEF In, Handshakes, SubStatePhase
<1>7. QED
  BY <1>3, <1>4, <1>5, <1>6 DEF NeverStuck, NeedsTimer

\* Whatever state the machine waits in, something is under way that will get it
\* out (fsm/logic.rs 516-591, fsm/domain.rs 973-998).
THEOREM NeverStuckHolds == Spec => []NeverStuck
<1>1. Init => AgreesInv /\ StopsInv /\ LiveInv
  BY DEF Init, AgreesInv, Due, StopsInv, LiveInv, NeedsTimer, In, VectorsMadeGood
<1>2. TypeOK /\ Hierarchy /\ TypeOK' /\ Hierarchy' /\ AgreesInv /\ [Next]_vars
        => AgreesInv'
  BY AgreesStep
<1>3. TypeOK /\ Hierarchy /\ TypeOK' /\ Hierarchy' /\ AgreesInv /\ StopsInv
        /\ [Next]_vars => StopsInv'
  BY StopsStep
<1>4. TypeOK /\ Hierarchy /\ TypeOK' /\ Hierarchy' /\ StopsInv /\ LiveInv
        /\ [Next]_vars => LiveInv'
  BY LiveStep
<1>5. TypeOK /\ LiveInv => NeverStuck
  BY LiveIsNotStuck
<1>6. QED
  BY <1>1, <1>2, <1>3, <1>4, <1>5, TypeCorrect, HierarchyHolds, PTL DEF Spec
-----------------------------------------------------------------------------
(* The promise of BalanceProtocol.                                         *)

\* The height of a stage on the path of the protocol.
Height(s) == Protocol!Place[s]

\* What the hubs will be told by an action or a send, and how high it is.
HubsHear(op) ==
    IF op.do = "core" /\ op.arg \in Labels THEN op.arg
    ELSE IF op = Op("OnEntryBalance", "InHandshake")
            \/ op = Op("OnEntryQuorum", "RepeatHandshakeIn") THEN "in"
    ELSE IF op = Op("OnEntryBalance", "OutHandshake")
            \/ op = Op("OnEntryQuorum", "RepeatHandshakeOut") THEN "out"
    ELSE IF op.do = "OnEntryPhase" THEN PhaseLabel[op.arg] ELSE None
Level(op) == IF HubsHear(op) = None THEN 0 ELSE Height(HubsHear(op))

\* One operation may go before another; all of a vector before all of another.
Before(p, q)    == Level(q) # 0 => Level(p) <= Level(q)
AllBefore(v, w) == \A i \in DOMAIN v : \A j \in DOMAIN w : Before(v[i], w[j])
Ordered(v)      == \A i, j \in DOMAIN v : j > i => Before(v[i], v[j])

\* What a vector tells the hubs is between what they heard and the stage.
Between(v) ==
    \A i \in DOMAIN v :
        /\ Level(v[i]) # 0 => Height(announced) <= Level(v[i])
        /\ Level(v[i]) <= Height(Stage)

\* What is under way to the hubs is in the order of the path.
TellInv ==
    /\ Height(announced) <= Height(Stage)
    /\ Between(todo) /\ Ordered(todo)
    /\ \A i \in DOMAIN actions :
         /\ Between(actions[i]) /\ Ordered(actions[i]) /\ AllBefore(todo, actions[i])
         /\ \A j \in DOMAIN actions : j > i => AllBefore(actions[i], actions[j])
    /\ \A i \in DOMAIN fsmOut :
         /\ Between(fsmOut[i]) /\ Ordered(fsmOut[i]) /\ AllBefore(todo, fsmOut[i])
         /\ \A j \in DOMAIN actions : AllBefore(actions[j], fsmOut[i])

\* The stages along the path, and those beside it.
LEMMA Heights ==
  /\ Height("start") = 1 /\ Height("init") = 1
  /\ Height("nothing") = 1 /\ Height("in") = 2 /\ Height("alert") = 3
  /\ Height("data") = 4 /\ Height("monitor") = 5 /\ Height("out") = 6
  /\ Height("normal") = 7 /\ Height("safe") = 7
<1> DEFINE Names == {"start", "init", "safe"}
                      \cup {Protocol!Path[i] : i \in DOMAIN Protocol!Path}
<1>1. /\ DOMAIN Protocol!Path = 1 .. 7
      /\ Protocol!Path[1] = "nothing" /\ Protocol!Path[2] = "in"
      /\ Protocol!Path[3] = "alert" /\ Protocol!Path[4] = "data"
      /\ Protocol!Path[5] = "monitor" /\ Protocol!Path[6] = "out"
      /\ Protocol!Path[7] = "normal"
  BY DEF Protocol!Path
<1>2. ASSUME NEW n \in 1 .. 7
      PROVE  Protocol!Path[n] \in Names
  BY <1>1, <1>2
<1>3. ASSUME NEW n \in 1 .. 7
      PROVE  (CHOOSE i \in DOMAIN Protocol!Path : Protocol!Path[i] = Protocol!Path[n]) = n
  BY <1>1
<1>4. ASSUME NEW s \in Names
      PROVE  Height(s) = IF s \in {"start", "init"} THEN 1 ELSE IF s = "safe" THEN 7
                         ELSE CHOOSE i \in DOMAIN Protocol!Path : Protocol!Path[i] = s
  BY DEF Height, Protocol!Place
<1>5. ASSUME NEW n \in 1 .. 7
      PROVE  Height(Protocol!Path[n]) = n
  <2>1. Protocol!Path[n] \notin {"start", "init", "safe"}
    BY <1>1
  <2>2. QED
    BY <1>2, <1>3, <1>4, <2>1
<1>6. Height("start") = 1 /\ Height("init") = 1 /\ Height("safe") = 7
  BY <1>4
<1>7. QED
  BY <1>1, <1>5, <1>6

\* What is told is a label, or nothing is.
LEMMA Levels ==
  ASSUME NEW op \in Ops
  PROVE  /\ Level(op) \in 0 .. 6
         /\ op.do = "core" /\ op.arg \in Labels => Level(op) = Height(op.arg)
         /\ op.do \in {"fsm", "timer", "heartbeat", "edge", "CalculateQuorum",
                       "OnEntryNormal", "OnEntrySafeMode"} => Level(op) = 0
         /\ op.do = "core" /\ op.arg \notin Labels => Level(op) = 0
<1>1. \A l \in Labels : Height(l) \in 1 .. 6 /\ l # None
  BY Heights, LabelsAre DEF None
<1>2. HubsHear(op) \in Labels \cup {None}
  <2>1. op.do = "OnEntryPhase" => PhaseLabel[op.arg] \in Labels
    BY OpsTyped, LabelsAre DEF PhaseLabel, SubStatePhase
  <2>2. QED
    BY <2>1, LabelsAre DEF HubsHear
<1>3. Level(op) \in 0 .. 6
  BY <1>1, <1>2 DEF Level
<1>4. op.do = "core" /\ op.arg \in Labels => Level(op) = Height(op.arg)
  BY <1>1 DEF Level, HubsHear
<1>5. op.do \in {"fsm", "timer", "heartbeat", "edge", "CalculateQuorum",
                 "OnEntryNormal", "OnEntrySafeMode"} => HubsHear(op) = None
  BY DEF HubsHear, Op
<1>6. op.do = "core" /\ op.arg \notin Labels => HubsHear(op) = None
  BY DEF HubsHear, Op
<1>7. QED
  BY <1>3, <1>4, <1>5, <1>6 DEF Level

\* The stage, by the state of the machine.
StageFacts ==
    /\ fsm.global = "Start" => Stage = "start"
    /\ fsm.global = "SafeMode" => Stage = "safe"
    /\ fsm.global = "Normal" => Stage = "normal"
    /\ fsm.global = "BalanceMode" =>
         /\ fsm.balance = "InitBalanceMode" => Stage = "init"
         /\ fsm.balance = "InHandshake" => Stage = "in"
         /\ fsm.balance = "OutHandshake" => Stage = "out"
         /\ fsm.balance = "Quorum" =>
              /\ fsm.quorum \in {"CheckQuorumIn", "RepeatHandshakeIn"} => Stage = "in"
              /\ fsm.quorum \in {"CheckQuorumOut", "RepeatHandshakeOut"} => Stage = "out"
         /\ fsm.balance = "Phase" =>
              /\ fsm.phase = "Alert" => Stage = "alert"
              /\ fsm.phase = "Data" => Stage = "data"
              /\ fsm.phase = "Monitor" => Stage = "monitor"

\* In every state the stage is what the parts of the state say.
LEMMA StageIs == TypeOK /\ Hierarchy => StageFacts
BY DEF TypeOK, Hierarchy, Stage, StageFacts, In, Leaf, SubStatePhase, PhaseLabel, None

\* One stage on along the path, or given up, or recovered.
LEMMA Stages ==
  ASSUME announced' = announced,
         \/ Stage = "start" /\ Stage' = "init"
         \/ Stage = "init" /\ Stage' = "in"
         \/ Stage = "in" /\ Stage' = "alert"
         \/ Stage = "alert" /\ Stage' = "data"
         \/ Stage = "data" /\ Stage' = "monitor"
         \/ Stage = "monitor" /\ Stage' = "out"
         \/ Stage = "out" /\ Stage' = "normal"
         \/ Stage \in {"init", "in", "out"} /\ Stage' = "safe"
         \/ Stage = "safe" /\ Stage' = "normal"
  PROVE  Protocol!Move /\ Height(Stage) <= Height(Stage')
<1>1. /\ Protocol!Path[2] = "in" /\ Protocol!Path[3] = "alert"
      /\ Protocol!Path[4] = "data" /\ Protocol!Path[5] = "monitor"
      /\ Protocol!Path[6] = "out" /\ Protocol!Path[7] = "normal"
  BY DEF Protocol!Path
<1>2. \A s : Protocol!Place[s] = Height(s)
  BY DEF Height
<1>3. CASE Stage = "start" /\ Stage' = "init"
  BY <1>3, Heights DEF Protocol!Move, Protocol!Start
<1>4. CASE Stage = "safe" /\ Stage' = "normal"
  BY <1>4, Heights DEF Protocol!Move, Protocol!Recover
<1>5. CASE Stage \in {"init", "in", "out"} /\ Stage' = "safe"
  BY <1>5, Heights DEF Protocol!Move, Protocol!GiveUp
<1>6. ASSUME Stage \notin {"start", "safe", "normal"},
             Stage' = Protocol!Path[Height(Stage) + 1]
      PROVE  Protocol!Move
  BY <1>2, <1>6 DEF Protocol!Move, Protocol!Advance
<1>7. CASE Stage = "init" /\ Stage' = "in"
  BY <1>1, <1>6, <1>7, Heights
<1>8. CASE Stage = "in" /\ Stage' = "alert"
  BY <1>1, <1>6, <1>8, Heights
<1>9. CASE Stage = "alert" /\ Stage' = "data"
  BY <1>1, <1>6, <1>9, Heights
<1>10. CASE Stage = "data" /\ Stage' = "monitor"
  BY <1>1, <1>6, <1>10, Heights
<1>11. CASE Stage = "monitor" /\ Stage' = "out"
  BY <1>1, <1>6, <1>11, Heights
<1>12. CASE Stage = "out" /\ Stage' = "normal"
  BY <1>1, <1>6, <1>12, Heights
<1>13. QED
  BY <1>3, <1>4, <1>5, <1>7, <1>8, <1>9, <1>10, <1>11, <1>12

\* Every transition of the machine keeps the stage or moves it as the protocol
\* does.
LEMMA StageMoves ==
  ASSUME TypeOK, TypeOK', Hierarchy, Hierarchy', step_inner
  PROVE  /\ announced' = announced
         /\ Stage' = Stage \/ Protocol!Move
         /\ Height(Stage) <= Height(Stage')
<1>1. fsm \in FsmValues /\ fsm' \in FsmValues
  BY DEF TypeOK, FsmValues
<1>2. StageFacts /\ (TypeOK /\ Hierarchy => StageFacts)'
  BY StageIs, PTL
<1>3. StageFacts'
  BY <1>2
<1>4. announced' = announced
  BY StepVectors DEF StepKinds, told
<1>5. Stage' = Stage => Height(Stage) <= Height(Stage')
  <2>1. Stage \in {"start", "init", "in", "alert", "data", "monitor", "out", "normal",
                   "safe"}
    BY <1>1, <1>2 DEF StageFacts, FsmValues, Hierarchy, StateGlobal, SubStateBalanceMode,
                      SubStateQuorum, SubStatePhase, None
  <2>2. QED
    BY <2>1, Heights
<1>6. SUFFICES
        \/ Stage' = Stage
        \/ Stage = "start" /\ Stage' = "init"
        \/ Stage = "init" /\ Stage' = "in"
        \/ Stage = "in" /\ Stage' = "alert"
        \/ Stage = "alert" /\ Stage' = "data"
        \/ Stage = "data" /\ Stage' = "monitor"
        \/ Stage = "monitor" /\ Stage' = "out"
        \/ Stage = "out" /\ Stage' = "normal"
        \/ Stage \in {"init", "in", "out"} /\ Stage' = "safe"
        \/ Stage = "safe" /\ Stage' = "normal"
  BY <1>4, <1>5, Stages
<1>7. /\ fsm.global = "BalanceMode" => fsm.global # "SafeMode" /\ fsm.global # "Start"
      /\ \A e, next, acts : Transition(e, next, acts) => fsm' = next
  BY DEF Transition, Becomes
<1>8. fsm' = fsm => Stage' = Stage
  BY DEF Stage, In, Leaf
<1> USE <1>1, <1>2, <1>3, <1>7, LeafShape DEF StageFacts, FsmValues, In
<1>11. CASE step_start
  BY <1>11 DEF step_start, Becomes
<1>12. CASE state_init_balance_mode_event_balance_epoch
  BY <1>12 DEF state_init_balance_mode_event_balance_epoch
<1>13. CASE state_init_balance_mode_event_balance_epoch_not_ok
  BY <1>13 DEF state_init_balance_mode_event_balance_epoch_not_ok
<1>14. CASE state_in_handshake_event_timeout
  BY <1>14 DEF state_in_handshake_event_timeout
<1>15. CASE state_out_handshake_event_timeout
  BY <1>15 DEF state_out_handshake_event_timeout
<1>16. CASE state_repeat_handshake_in
  BY <1>16 DEF state_repeat_handshake_in, SubStateQuorum
<1>17. CASE state_repeat_handshake_out
  BY <1>17 DEF state_repeat_handshake_out, SubStateQuorum
<1>18. CASE new_message_handshake
  BY <1>8, <1>18 DEF new_message_handshake
<1>19. CASE HandshakeNotApproved
  BY <1>8, <1>19 DEF HandshakeNotApproved
<1>20. CASE approve_in
  <2>1. Stage = "in"
    BY <1>20 DEF approve_in, SubStateQuorum, Leaf
  <2>2. Stage' = "alert"
    BY <1>20 DEF approve_in
  <2>3. QED
    BY <2>1, <2>2
<1>21. CASE approve_out
  <2>1. Stage = "out"
    BY <1>21 DEF approve_out, SubStateQuorum, Leaf
  <2>2. Stage' = "normal"
    BY <1>21 DEF approve_out
  <2>3. QED
    BY <2>1, <2>2
<1>22. CASE state_check_quorum_in_event_not_approve
  BY <1>22 DEF state_check_quorum_in_event_not_approve, SubStateQuorum
<1>23. CASE state_check_quorum_out_event_not_approve
  BY <1>23 DEF state_check_quorum_out_event_not_approve, SubStateQuorum
<1>24. CASE state_check_quorum_event_not_and_not
  <2>1. Stage \in {"in", "out"}
    BY <1>24 DEF state_check_quorum_event_not_and_not, SubStateQuorum, Checks, Leaf
  <2>2. Stage' = "safe"
    BY <1>24 DEF state_check_quorum_event_not_and_not
  <2>3. QED
    BY <2>1, <2>2
<1>25. CASE state_alert_event_timeout_or_quorum
  BY <1>25 DEF state_alert_event_timeout_or_quorum, SubStatePhase
<1>26. CASE state_data_event_timeout_or_quorum
  BY <1>26 DEF state_data_event_timeout_or_quorum, SubStatePhase
<1>27. CASE state_monitor_event_timeout_or_quorum
  BY <1>27 DEF state_monitor_event_timeout_or_quorum, SubStatePhase
<1>28. CASE step_safe_mode
  BY <1>28 DEF step_safe_mode
<1>29. CASE invalid
  BY <1>8, <1>29 DEF invalid, fsmVars
<1>30. QED
  BY <1>11, <1>12, <1>13, <1>14, <1>15, <1>16, <1>17, <1>18, <1>19, <1>20, <1>21, <1>22,
     <1>23, <1>24, <1>25, <1>26, <1>27, <1>28, <1>29 DEF step_inner, step_balance_mode

\* What takes the place of the first operation is no higher and no lower, so
\* the order stays.
LEMMA TellsMove ==
  ASSUME NEW vec \in Seq(Ops), vec # <<>>, NEW sends \in Seq(Ops),
         \A i \in DOMAIN sends : Level(sends[i]) \in {0, Level(Head(vec))},
         NEW rest, rest = sends \o Tail(vec), Height(Stage) \in Nat
  PROVE  /\ Ordered(vec) => Ordered(rest)
         /\ Between(vec) => Between(rest)
         /\ \A w \in Seq(Ops) : AllBefore(vec, w) => AllBefore(rest, w)
<1>1. Replaces(vec, sends, rest)
  BY Replaced
<1>2. /\ \A i \in DOMAIN vec : vec[i] \in Ops
      /\ \A i \in DOMAIN sends : sends[i] \in Ops
      /\ \A op \in Ops : Level(op) \in 0 .. 6
      /\ 1 \in DOMAIN vec /\ vec[1] = Head(vec) /\ \A i \in DOMAIN vec : i # 1 => i > 1
  <2>1. /\ \A i \in DOMAIN vec : vec[i] \in Ops
        /\ \A i \in DOMAIN sends : sends[i] \in Ops
        /\ DOMAIN vec = 1 .. Len(vec)
    OBVIOUS
  <2>2. QED
    BY <1>1, <2>1, Levels DEF Replaces
<1>3. ASSUME NEW k \in DOMAIN rest
      PROVE  \/ k \in DOMAIN sends /\ Level(rest[k]) \in {0, Level(vec[1])}
             \/ \E i \in DOMAIN vec : i # 1 /\ k = Place(sends, i) /\ rest[k] = vec[i]
  BY <1>1, <1>2 DEF Replaces
<1>4. ASSUME Ordered(vec), NEW k \in DOMAIN rest, NEW l \in DOMAIN rest, l > k,
             Level(rest[l]) # 0
      PROVE  Level(rest[k]) <= Level(rest[l])
  <2>1. CASE k \in DOMAIN sends /\ Level(rest[k]) \in {0, Level(vec[1])}
    <3>1. CASE l \in DOMAIN sends /\ Level(rest[l]) \in {0, Level(vec[1])}
      BY <1>2, <1>4, <2>1, <3>1
    <3>2. CASE \E i \in DOMAIN vec : i # 1 /\ l = Place(sends, i) /\ rest[l] = vec[i]
      <4>1. PICK i \in DOMAIN vec : i # 1 /\ l = Place(sends, i) /\ rest[l] = vec[i]
        BY <3>2
      <4>2. Level(vec[1]) <= Level(vec[i])
        BY <1>2, <1>4, <4>1 DEF Ordered, Before
      <4>3. Level(vec[1]) \in 0 .. 6 /\ Level(vec[i]) \in 0 .. 6
        BY <1>2, <4>1
      <4>4. Level(rest[l]) = Level(vec[i])
        BY <4>1
      <4>5. \A a, b, c : a \in 0 .. 6 /\ b \in 0 .. 6 /\ a <= b /\ c \in {0, a} => c <= b
        OBVIOUS
      <4>6. QED
        BY ONLY <2>1, <4>2, <4>3, <4>4, <4>5
    <3>3. QED
      BY <1>3, <3>1, <3>2
  <2>2. CASE \E i \in DOMAIN vec : i # 1 /\ k = Place(sends, i) /\ rest[k] = vec[i]
    <3>1. PICK i \in DOMAIN vec : i # 1 /\ k = Place(sends, i) /\ rest[k] = vec[i]
      BY <2>2
    <3>2. PICK j \in DOMAIN vec : j # 1 /\ l = Place(sends, j) /\ rest[l] = vec[j]
      BY <1>1, <1>3, <1>4, <3>1 DEF Replaces
    <3>3. j > i
      BY <1>1, <1>4, <3>1, <3>2 DEF Replaces
    <3>4. QED
      BY <1>4, <3>1, <3>2, <3>3 DEF Ordered, Before
  <2>3. QED
    BY <1>3, <2>1, <2>2
<1>5. Ordered(vec) => Ordered(rest)
  BY <1>4 DEF Ordered, Before
<1>6. ASSUME Between(vec), NEW k \in DOMAIN rest
      PROVE  /\ Level(rest[k]) # 0 => Height(announced) <= Level(rest[k])
             /\ Level(rest[k]) <= Height(Stage)
  <2>1. \A i \in DOMAIN vec : /\ Level(vec[i]) # 0 => Height(announced) <= Level(vec[i])
                              /\ Level(vec[i]) <= Height(Stage)
    BY <1>6 DEF Between
  <2>2. QED
    BY <1>2, <1>3, <2>1
<1>7. ASSUME NEW w \in Seq(Ops), AllBefore(vec, w)
      PROVE  AllBefore(rest, w)
  <2>1. SUFFICES ASSUME NEW k \in DOMAIN rest, NEW j \in DOMAIN w, Level(w[j]) # 0
                 PROVE  Level(rest[k]) <= Level(w[j])
    BY DEF AllBefore, Before
  <2>2. \A i \in DOMAIN vec : Level(vec[i]) <= Level(w[j])
    BY <1>7, <2>1 DEF AllBefore, Before
  <2>3. w[j] \in Ops
    BY <1>7
  <2>4. Level(w[j]) \in Nat
    <3>1. Level(w[j]) \in 0 .. 6
      BY ONLY <1>2, <2>3
    <3>2. QED
      BY <3>1
  <2>5. CASE Level(rest[k]) \in {0, Level(vec[1])}
    BY <1>2, <2>2, <2>4, <2>5
  <2>6. QED
    BY <1>3, <2>2, <2>5
<1>8. QED
  BY <1>5, <1>6, <1>7 DEF Between

\* An entry action tells the hubs what it stands for, or nothing.
LEMMA HandleTells ==
  ASSUME TypeOK, handle_action
  PROVE  /\ todo # <<>>
         /\ \E sends \in Seq(Ops) :
              /\ Executes(sends)
              /\ \A i \in DOMAIN sends : Level(sends[i]) \in {0, Level(Head(todo))}
<1> DEFINE Quiet(op)   == op \in Ops /\ Level(op) = 0
           Repeats(op) == op \in Ops /\ Level(op) = Level(Head(todo))
           Goal == \E sends \in Seq(Ops) :
                     /\ Executes(sends)
                     /\ \A i \in DOMAIN sends : Level(sends[i]) \in {0, Level(Head(todo))}
<1>0. /\ todo # <<>> /\ Head(todo) \in Ops
  BY DEF TypeOK, handle_action, OnEntryInitBalanceMode,
         on_entry_in_handshake, on_entry_out_handshake, OnEntryOtherBalance,
         OnEntryCheckQuorum, on_entry_repeat_handshake, DoCalculateQuorum,
         OnEntryPhase, on_entry_normal, on_entry_safe_mode, Does
<1> SUFFICES Goal
  BY <1>0
<1>1. /\ Quiet(InitTimer) /\ Quiet(Op("core", "GetEpoch"))
      /\ \A m \in Modes : Quiet(Op("heartbeat", m))
      /\ \A g \in StateGlobal : Quiet(Op("edge", g))
      /\ \A e \in Events : Quiet(Op("fsm", e))
  <2>1. "GetEpoch" \notin Labels
    BY LabelsAre
  <2>2. /\ InitTimer.do = "timer" /\ Op("core", "GetEpoch").do = "core"
        /\ Op("core", "GetEpoch").arg = "GetEpoch"
        /\ \A x : /\ Op("heartbeat", x).do = "heartbeat" /\ Op("edge", x).do = "edge"
                  /\ Op("fsm", x).do = "fsm"
    BY DEF InitTimer, Op
  <2>3. QED
    BY <2>1, <2>2, OpsMade, Levels
<1>2. \A l \in Labels : /\ Op("core", l) \in Ops
                        /\ Level(Op("core", l)) = Height(l)
  <2>1. \A l : Op("core", l).do = "core" /\ Op("core", l).arg = l
    BY DEF Op
  <2>2. QED
    BY <2>1, OpsMade, Levels
<1>3. quorum_algorithm \in Events
  BY DEF quorum_algorithm, Events
<1>4. ASSUME Executes(<<>>) PROVE Goal
  <2>1. <<>> \in Seq(Ops) /\ DOMAIN <<>> = {}
    OBVIOUS
  <2>2. QED
    BY <1>4, <2>1
<1>5. ASSUME NEW a, Quiet(a), Executes(<<a>>) PROVE Goal
  <2>1. <<a>> \in Seq(Ops) /\ \A i \in DOMAIN <<a>> : Level(<<a>>[i]) = 0
    BY <1>5
  <2>2. QED
    BY <1>5, <2>1
<1>6. ASSUME NEW a, NEW b, Quiet(a) \/ Repeats(a), Quiet(b) \/ Repeats(b),
             Executes(<<a, b>>)
      PROVE  Goal
  <2>1. /\ <<a, b>> \in Seq(Ops)
        /\ \A i \in DOMAIN <<a, b>> : Level(<<a, b>>[i]) \in {0, Level(Head(todo))}
    BY <1>6
  <2>2. QED
    BY <1>6, <2>1
<1>7. ASSUME NEW a, NEW b, NEW c, Quiet(a) \/ Repeats(a), Quiet(b) \/ Repeats(b),
             Quiet(c), Executes(<<a, b, c>>)
      PROVE  Goal
  <2>1. /\ <<a, b, c>> \in Seq(Ops)
        /\ \A i \in DOMAIN <<a, b, c>> : Level(<<a, b, c>>[i]) \in {0, Level(Head(todo))}
    BY <1>7
  <2>2. QED
    BY <1>7, <2>1
<1>8. ASSUME NEW l \in Labels, HubsHear(Head(todo)) = l
      PROVE  Repeats(Op("core", l))
  BY <1>2, <1>8, LabelsAre DEF Level, None
<1> HIDE DEF Goal, Quiet, Repeats
<1>10. CASE OnEntryInitBalanceMode
  BY <1>1, <1>5, <1>10 DEF OnEntryInitBalanceMode
<1>11. CASE on_entry_in_handshake
  <2>1. HubsHear(Head(todo)) = "in"
    <3>1. Head(todo) = Op("OnEntryBalance", "InHandshake")
      BY <1>0, <1>11 DEF on_entry_in_handshake, Does, Arg, Ops, Op, StopTimer, InitTimer,
                         CalculateQuorum
    <3>2. QED
      BY <3>1 DEF HubsHear, Op
  <2>2. QED
    BY <1>1, <1>6, <1>8, <1>11, <2>1, LabelsAre DEF on_entry_in_handshake
<1>12. CASE on_entry_out_handshake
  <2>1. HubsHear(Head(todo)) = "out"
    <3>1. Head(todo) = Op("OnEntryBalance", "OutHandshake")
      BY <1>0, <1>12 DEF on_entry_out_handshake, Does, Arg, Ops, Op, StopTimer, InitTimer,
                         CalculateQuorum
    <3>2. QED
      BY <3>1 DEF HubsHear, Op
  <2>2. QED
    BY <1>1, <1>6, <1>8, <1>12, <2>1, LabelsAre DEF on_entry_out_handshake
<1>13. CASE OnEntryOtherBalance
  BY <1>4, <1>13 DEF OnEntryOtherBalance
<1>14. CASE OnEntryCheckQuorum
  BY <1>1, <1>3, <1>5, <1>14 DEF OnEntryCheckQuorum
<1>15. CASE on_entry_repeat_handshake
  <2>1. PICK l \in {"in", "out"} :
           /\ Executes(<<Op("core", l), InitTimer>>)
           /\ l = IF Arg = "RepeatHandshakeIn" THEN "in" ELSE "out"
    BY <1>15 DEF on_entry_repeat_handshake
  <2>2. HubsHear(Head(todo)) = l
    <3>1. Head(todo) = Op("OnEntryQuorum", Arg)
          /\ Arg \in {"RepeatHandshakeIn", "RepeatHandshakeOut"}
      BY <1>0, <1>15 DEF on_entry_repeat_handshake, Does, Arg, Ops, Op, StopTimer,
                         InitTimer, CalculateQuorum
    <3>2. QED
      BY <2>1, <3>1 DEF HubsHear, Op
  <2>3. QED
    BY <1>1, <1>6, <1>8, <2>1, <2>2, LabelsAre
<1>16. CASE DoCalculateQuorum
  BY <1>1, <1>3, <1>5, <1>16 DEF DoCalculateQuorum
<1>17. CASE OnEntryPhase
  <2>1. Arg \in SubStatePhase /\ Head(todo).do = "OnEntryPhase"
    BY <1>0, <1>17, OpsTyped DEF OnEntryPhase, Does, Arg
  <2>2. PhaseLabel[Arg] \in Labels /\ HubsHear(Head(todo)) = PhaseLabel[Arg]
    BY <2>1, LabelsAre DEF PhaseLabel, SubStatePhase, HubsHear, Op, Arg
  <2>3. Repeats(Op("core", PhaseLabel[Arg]))
    BY <1>8, <2>2
  <2>4. PICK a : a = Op("core", PhaseLabel[Arg])
    OBVIOUS
  <2>5. PICK b : b = Op("heartbeat", "Phase")
    OBVIOUS
  <2>6. Executes(<<InitTimer, a, b>>) \/ Executes(<<InitTimer, a>>)
    <3>1. <<InitTimer, a>> \o <<b>> = <<InitTimer, a, b>>
          /\ <<InitTimer, a>> \o <<>> = <<InitTimer, a>>
      BY ConcatPair, Concats
    <3>2. QED
      BY <1>17, <2>4, <2>5, <3>1 DEF OnEntryPhase
  <2>7. Quiet(b)
    BY <1>1, <2>5 DEF Modes
  <2>8. QED
    BY <1>1, <1>6, <1>7, <2>3, <2>4, <2>6, <2>7
<1>18. CASE on_entry_normal
  BY <1>1, <1>6, <1>18 DEF on_entry_normal, Modes, StateGlobal
<1>19. CASE on_entry_safe_mode
  BY <1>1, <1>7, <1>19 DEF on_entry_safe_mode, Modes, StateGlobal
<1>20. QED
  BY <1>10, <1>11, <1>12, <1>13, <1>14, <1>15, <1>16, <1>17, <1>18, <1>19
     DEF handle_action

\* What the coordinator makes of a message tells the hubs nothing yet.
LEMMA CommandsAreQuiet ==
  ASSUME TypeOK, TakesCommand
  PROVE  /\ todo = <<>> /\ UNCHANGED fsmVars /\ announced' = announced
         /\ \A i \in DOMAIN todo' : Level(todo'[i]) = 0
<1>1. /\ \A e \in Events : Level(Op("fsm", e)) = 0
      /\ Level(StopTimer) = 0 /\ Level(Op("core", "NewEpoch")) = 0
      /\ Level(Op("edge", "BalanceMode")) = 0
  <2>1. /\ \A x : Op("fsm", x).do = "fsm" /\ Op("edge", x).do = "edge"
        /\ StopTimer.do = "timer" /\ Op("core", "NewEpoch").do = "core"
        /\ Op("core", "NewEpoch").arg = "NewEpoch" /\ "NewEpoch" \notin Labels
    BY LabelsAre DEF Op, StopTimer
  <2>2. QED
    BY <2>1, OpsMade, Levels DEF StateGlobal
<1>2. todo = <<>> /\ UNCHANGED fsmVars
  BY CommandKeeps
<1>3. announced' = announced
  BY DEF TakesCommand, TakesHandshake, quorum_phase, quorum_safe_mode, TakesErrorEpoch,
         TakesEpoch, Receives, told
<1> SUFFICES \A i \in DOMAIN todo' : Level(todo'[i]) = 0
  BY <1>2, <1>3
<1>4. /\ "NewMessageHandshake" \in Events /\ "QuorumPhase" \in Events
      /\ "QuorumSafeMode" \in Events /\ "BalanceEpochNotOk" \in Events
      /\ "BalanceEpochOk" \in Events
  BY DEF Events
<1>5. ASSUME todo' = todo PROVE \A i \in DOMAIN todo' : Level(todo'[i]) = 0
  BY <1>2, <1>5
<1>6. ASSUME NEW e \in Events,
             todo' \in {<<>>, <<Op("fsm", e)>>, <<Op("fsm", e), StopTimer>>,
                        <<Op("fsm", e), Op("core", "NewEpoch"), Op("edge", "BalanceMode")>>}
      PROVE  \A i \in DOMAIN todo' : Level(todo'[i]) = 0
  BY <1>1, <1>6
<1>7. CASE TakesHandshake
  BY <1>4, <1>5, <1>6, <1>7 DEF TakesHandshake
<1>8. CASE quorum_phase
  BY <1>4, <1>5, <1>6, <1>8 DEF quorum_phase, Reports
<1>9. CASE quorum_safe_mode
  BY <1>4, <1>5, <1>6, <1>9 DEF quorum_safe_mode, Reports
<1>10. CASE TakesErrorEpoch
  BY <1>4, <1>6, <1>10 DEF TakesErrorEpoch
<1>11. CASE TakesEpoch
  BY <1>4, <1>6, <1>11 DEF TakesEpoch
<1>12. QED
  BY <1>7, <1>8, <1>9, <1>10, <1>11 DEF TakesCommand

\* Operations that tell the hubs nothing go before everything.
LEMMA QuietBefore ==
  ASSUME NEW v, \A i \in DOMAIN v : Level(v[i]) = 0, NEW w \in Seq(Ops)
  PROVE  AllBefore(v, w)
<1>1. ASSUME NEW j \in DOMAIN w PROVE Level(w[j]) \in 0 .. 6
  <2>1. w[j] \in Ops
    OBVIOUS
  <2>2. QED
    BY <2>1, Levels
<1>2. QED
  BY <1>1 DEF AllBefore, Before

\* Every stage has a height.
LEMMA StageHeight == TypeOK /\ Hierarchy => Height(Stage) \in 1 .. 7
<1> SUFFICES ASSUME TypeOK, Hierarchy PROVE Height(Stage) \in 1 .. 7
  OBVIOUS
<1>1. fsm \in FsmValues
  BY DEF TypeOK, FsmValues
<1>2. Stage \in {"start", "init", "in", "alert", "data", "monitor", "out", "normal", "safe"}
  BY <1>1, StageIs DEF StageFacts, FsmValues, Hierarchy, StateGlobal,
     SubStateBalanceMode, SubStateQuorum, SubStatePhase, None
<1>3. QED
  BY <1>2, Heights

\* Bounds stay where neither the machine nor the hubs learn anything.
LEMMA BoundsStay ==
  ASSUME fsm' = fsm, announced' = announced
  PROVE  /\ Stage' = Stage
         /\ Height(Stage') = Height(Stage) /\ Height(announced') = Height(announced)
         /\ \A v : Between(v)' <=> Between(v)
BY DEF Stage, In, Leaf, Between

\* The coordinator works on what it has to do.
LEMMA TodoTells ==
  ASSUME TypeOK, Hierarchy, TellInv, NEW sends \in Seq(Ops),
         todo # <<>>, todo' = sends \o Tail(todo),
         \A i \in DOMAIN sends : Level(sends[i]) \in {0, Level(Head(todo))},
         fsm' = fsm, fsmOut' = fsmOut, actions' = actions, announced' = announced
  PROVE  TellInv'
<1>1. todo \in Seq(Ops) /\ Height(Stage) \in Nat
  BY StageHeight DEF TypeOK
<1>2. /\ Ordered(todo) => Ordered(todo')
      /\ Between(todo) => Between(todo')
      /\ \A w \in Seq(Ops) : AllBefore(todo, w) => AllBefore(todo', w)
  BY <1>1, TellsMove
<1>3. /\ \A i \in DOMAIN actions : actions[i] \in Seq(Ops)
      /\ \A i \in DOMAIN fsmOut : fsmOut[i] \in Seq(Ops)
  BY DEF TypeOK
<1>4. /\ Height(Stage') = Height(Stage) /\ Height(announced') = Height(announced)
      /\ \A v : Between(v)' <=> Between(v)
  BY BoundsStay
<1>5. /\ Height(announced') <= Height(Stage')
      /\ Between(todo)' /\ Ordered(todo')
  BY <1>2, <1>4 DEF TellInv, Between
<1>6. ASSUME NEW i \in DOMAIN actions
      PROVE  /\ Between(actions[i])' /\ Ordered(actions[i])
             /\ AllBefore(todo', actions[i])
             /\ \A j \in DOMAIN actions : j > i => AllBefore(actions[i], actions[j])
  BY <1>2, <1>3, <1>4 DEF TellInv, Between
<1>7. ASSUME NEW i \in DOMAIN fsmOut
      PROVE  /\ Between(fsmOut[i])' /\ Ordered(fsmOut[i])
             /\ AllBefore(todo', fsmOut[i])
             /\ \A j \in DOMAIN actions : AllBefore(actions[j], fsmOut[i])
  BY <1>2, <1>3, <1>4 DEF TellInv, Between
<1>8. /\ \A i \in DOMAIN actions' :
           /\ Between(actions[i])' /\ Ordered(actions[i])' /\ AllBefore(todo, actions[i])'
           /\ \A j \in DOMAIN actions' : j > i => AllBefore(actions[i], actions[j])'
      /\ Ordered(todo)'
  BY <1>5, <1>6 DEF Between, Ordered, AllBefore
<1>9. \A i \in DOMAIN fsmOut' :
        /\ Between(fsmOut[i])' /\ Ordered(fsmOut[i])' /\ AllBefore(todo, fsmOut[i])'
        /\ \A j \in DOMAIN actions' : AllBefore(actions[j], fsmOut[i])'
  BY <1>7 DEF Between, Ordered, AllBefore
<1>10. QED
  BY <1>5, <1>8, <1>9 DEF TellInv

\* An announcement goes out: what is left to tell is not below it.
LEMMA AnnouncementTells ==
  ASSUME TypeOK, Hierarchy, TypeOK', TellInv, SendsToCore
  PROVE  TellInv' /\ (Protocol!Tell \/ announced' = announced) /\ Stage' = Stage
<1>1. /\ todo # <<>> /\ todo' = <<>> \o Tail(todo) /\ Head(todo) \in Ops
      /\ Head(todo).do = "core" /\ todo \in Seq(Ops) /\ todo' = Tail(todo)
      /\ fsm' = fsm /\ fsmOut' = fsmOut /\ actions' = actions
  BY ConcatEmptySeq DEF SendsToCore, Does, TypeOK, fsmVars
<1>2. Stage' = Stage /\ Height(Stage) \in 1 .. 7
  BY <1>1, StageHeight DEF Stage, In, Leaf
<1>3. CASE Head(todo).arg \notin Labels
  <2>1. announced' = announced
    BY <1>3 DEF SendsToCore, Arg
  <2>2. <<>> \in Seq(Ops) /\ DOMAIN <<>> = {}
    OBVIOUS
  <2>3. TellInv'
    BY <1>1, <2>1, <2>2, TodoTells
  <2>4. QED
    BY <1>2, <2>1, <2>3
<1>4. CASE Head(todo).arg \in Labels
  <2> DEFINE n == Level(Head(todo))
  <2>1. announced' = Head(todo).arg /\ Height(announced') = n /\ announced \in Labels
    BY <1>1, <1>4, Levels DEF SendsToCore, Arg, TypeOK
  <2>2. n \in 1 .. 6
    BY <1>4, <2>1, Heights, LabelsAre
  <2> HIDE DEF n
  <2>3. 1 \in DOMAIN todo /\ todo[1] = Head(todo)
    BY <1>1, TailElements
  <2>4. Height(announced) <= n /\ n <= Height(Stage)
    BY <2>2, <2>3 DEF TellInv, Between, n
  <2>5. /\ Ordered(todo) => Ordered(todo')
        /\ \A w \in Seq(Ops) : AllBefore(todo, w) => AllBefore(todo', w)
    <3>1. PICK sends \in Seq(Ops) : sends = <<>>
      <4>1. <<>> \in Seq(Ops)
        OBVIOUS
      <4>2. QED
        BY <4>1
    <3>2. \A i \in DOMAIN sends : Level(sends[i]) \in {0, Level(Head(todo))}
      BY <3>1
    <3>3. Height(Stage) \in Nat /\ todo' = sends \o Tail(todo)
      BY <1>1, <1>2, <3>1
    <3>4. QED
      BY <1>1, <3>2, <3>3, TellsMove
  <2>6. ASSUME NEW v, AllBefore(todo, v), Between(v)
        PROVE  Between(v)'
    <3>1. \A i \in DOMAIN v : Level(v[i]) # 0 => n <= Level(v[i])
      BY <2>3, <2>6 DEF AllBefore, Before, n
    <3>2. QED
      BY <1>2, <2>1, <2>6, <3>1 DEF Between
  <2>7. Between(todo)'
    <3>1. ASSUME NEW i \in DOMAIN todo'
          PROVE  /\ Level(todo'[i]) # 0 => n <= Level(todo'[i])
                 /\ Level(todo'[i]) <= Height(Stage)
      <4>1. i + 1 \in DOMAIN todo /\ todo'[i] = todo[i + 1] /\ i + 1 > 1
        <5>1. /\ i + 1 \in DOMAIN todo /\ todo'[i] = todo[i + 1]
              /\ DOMAIN todo' = 1 .. (Len(todo) - 1) /\ Len(todo) \in Nat
          BY <1>1, TailElements
        <5>2. QED
          BY <5>1
      <4>2. Before(todo[1], todo[i + 1])
        BY <2>3, <4>1 DEF TellInv, Ordered
      <4>3. QED
        BY <2>3, <4>1, <4>2 DEF Before, TellInv, Between, n
    <3>2. QED
      BY <1>2, <2>1, <3>1 DEF Between
  <2>8. /\ \A i \in DOMAIN actions : actions[i] \in Seq(Ops)
        /\ \A i \in DOMAIN fsmOut : fsmOut[i] \in Seq(Ops)
    BY DEF TypeOK
  <2>9. TellInv'
    <3>1. Height(announced') <= Height(Stage')
      BY <1>2, <2>1, <2>4
    <3>2. Ordered(todo')
      BY <2>5 DEF TellInv
    <3>3. ASSUME NEW i \in DOMAIN actions
          PROVE  /\ Between(actions[i])' /\ Ordered(actions[i])
                 /\ AllBefore(todo', actions[i])
                 /\ \A j \in DOMAIN actions : j > i => AllBefore(actions[i], actions[j])
      BY <1>1, <2>5, <2>6, <2>8 DEF TellInv, Between
    <3>4. ASSUME NEW i \in DOMAIN fsmOut
          PROVE  /\ Between(fsmOut[i])' /\ Ordered(fsmOut[i])
                 /\ AllBefore(todo', fsmOut[i])
                 /\ \A j \in DOMAIN actions : AllBefore(actions[j], fsmOut[i])
      BY <1>1, <2>5, <2>6, <2>8 DEF TellInv, Between
    <3>5. QED
      BY <1>1, <2>7, <3>1, <3>2, <3>3, <3>4 DEF TellInv, Ordered, AllBefore, Between
  <2>10. Protocol!Tell \/ announced' = announced
    <3>1. CASE Height(announced) < n
      <4>1. Protocol!Path[n] = announced'
        <5>1. /\ Protocol!Path[1] = "nothing" /\ Protocol!Path[2] = "in"
              /\ Protocol!Path[3] = "alert" /\ Protocol!Path[4] = "data"
              /\ Protocol!Path[5] = "monitor" /\ Protocol!Path[6] = "out"
          BY DEF Protocol!Path
        <5>2. QED
          BY <1>4, <2>1, <5>1, Heights, LabelsAre
      <4>2. QED
        BY <1>2, <2>2, <2>4, <3>1, <4>1 DEF Protocol!Tell, Height
    <3>2. CASE Height(announced) = n
      BY <1>4, <2>1, <3>2, Heights, LabelsAre
    <3>3. QED
      BY <2>1, <2>2, <2>4, <3>1, <3>2, Heights, LabelsAre
  <2>11. QED
    BY <1>2, <2>9, <2>10
<1>5. QED
  BY <1>3, <1>4

\* The action that tells of a state tells the hubs of its stage, or nothing.
EntriesTellStage ==
    \A op \in Ops : Tells(op, fsm) => Level(op) \in {0, Height(Stage)}

\* Every entry of a state tells the hubs of its stage.
LEMMA TellsOfStage == TypeOK /\ Hierarchy => EntriesTellStage
<1> SUFFICES ASSUME TypeOK, Hierarchy, NEW op \in Ops, Tells(op, fsm)
             PROVE  Level(op) \in {0, Height(Stage)}
  BY DEF EntriesTellStage
<1>1. StageFacts
  BY StageIs
<1>2. CASE op.do \in {"OnEntryNormal", "OnEntrySafeMode"}
  BY <1>2, Levels
<1>3. CASE fsm.global = "BalanceMode" /\ fsm.balance = "Quorum"
           /\ op = Op("OnEntryQuorum", fsm.quorum)
  <2>1. /\ fsm.quorum = "RepeatHandshakeIn" => HubsHear(op) = "in" /\ Stage = "in"
        /\ fsm.quorum = "RepeatHandshakeOut" => HubsHear(op) = "out" /\ Stage = "out"
        /\ fsm.quorum \notin {"RepeatHandshakeIn", "RepeatHandshakeOut"}
             => HubsHear(op) = None
    BY <1>1, <1>3 DEF HubsHear, Op, StageFacts
  <2>2. QED
    BY <2>1 DEF Level
<1>4. CASE fsm.global = "BalanceMode" /\ fsm.balance = "Phase"
           /\ op = Op("OnEntryPhase", fsm.phase)
  <2>1. fsm.phase \in SubStatePhase
    BY <1>4 DEF TypeOK, Hierarchy, None
  <2>2. HubsHear(op) = Stage
    BY <1>1, <1>4, <2>1 DEF HubsHear, Op, StageFacts, SubStatePhase, PhaseLabel
  <2>3. QED
    BY <2>2 DEF Level
<1>5. CASE fsm.global = "BalanceMode" /\ fsm.balance \notin {"Quorum", "Phase"}
           /\ op = Op("OnEntryBalance", fsm.balance)
  <2>1. /\ fsm.balance = "InHandshake" => HubsHear(op) = "in" /\ Stage = "in"
        /\ fsm.balance = "OutHandshake" => HubsHear(op) = "out" /\ Stage = "out"
        /\ fsm.balance \notin {"InHandshake", "OutHandshake"} => HubsHear(op) = None
    BY <1>1, <1>5 DEF HubsHear, Op, StageFacts
  <2>2. QED
    BY <2>1 DEF Level
<1>6. QED
  BY <1>2, <1>3, <1>4, <1>5 DEF Tells, Op

\* Neutral actions tell the hubs nothing.
LEMMA NeutralIsQuiet ==
  ASSUME NEW op \in Ops, Neutral(op)
  PROVE  Level(op) = 0
<1>1. CASE op.do = "heartbeat" \/ op = StopTimer
  BY <1>1, Levels DEF StopTimer, Op
<1>2. CASE op.do = "OnEntryBalance" /\ op.arg \in {"Quorum", "Phase"}
  BY <1>2 DEF Level, HubsHear, Op
<1>3. QED
  BY <1>1, <1>2 DEF Neutral

\* A vector of the machine tells the hubs of the new stage, or nothing.
LEMMA VectorTells ==
  ASSUME TypeOK, Hierarchy, TypeOK', Hierarchy', step_inner
  PROVE  /\ UNCHANGED <<todo, actions, announced>>
         /\ \A i \in DOMAIN fsmOut' :
              \A k \in DOMAIN fsmOut'[i] : Level(fsmOut'[i][k]) \in {0, Height(Stage')}
<1>1. StepKinds
  BY StepVectors
<1>2. UNCHANGED <<todo, actions, announced>>
  BY <1>1 DEF StepKinds, told
<1>3. ASSUME NEW vec, fsmOut' = <<vec>>,
             \A k \in DOMAIN vec : Level(vec[k]) \in {0, Height(Stage')}
      PROVE  \A i \in DOMAIN fsmOut' :
               \A k \in DOMAIN fsmOut'[i] : Level(fsmOut'[i][k]) \in {0, Height(Stage')}
  BY <1>3
<1>4. CASE fsmOut' = <<>>
  BY <1>2, <1>4
<1>5. CASE fsmOut' = << <<>> >>
  BY <1>2, <1>3, <1>5
<1>6. ASSUME NEW op, Level(op) = 0, fsmOut' = << <<op>> >>
      PROVE  \A i \in DOMAIN fsmOut' :
               \A k \in DOMAIN fsmOut'[i] : Level(fsmOut'[i][k]) \in {0, Height(Stage')}
  <2>1. \A k \in DOMAIN <<op>> : Level(<<op>>[k]) \in {0, Height(Stage')}
    BY <1>6
  <2>2. QED
    BY <1>3, <1>6, <2>1
<1>7. Level(CalculateQuorum) = 0 /\ Level(Op("OnEntryBalance", "InitBalanceMode")) = 0
  BY DEF Level, HubsHear, CalculateQuorum, Op
<1>8. ASSUME NEW vec, fsmOut' = <<vec>>, EntryOf(vec, fsm')
      PROVE  \A k \in DOMAIN vec : Level(vec[k]) \in {0, Height(Stage')}
  <2>0. (TypeOK /\ Hierarchy => EntriesTellStage)'
    BY TellsOfStage, PTL
  <2>1. PICK front, op : /\ AllNeutral(front) /\ op \in Ops /\ Tells(op, fsm')
                         /\ vec = Append(front, op)
    BY <1>8 DEF EntryOf
  <2>3. Level(op) \in {0, Height(Stage')}
    BY <2>0, <2>1 DEF EntriesTellStage, Tells, Level, Height, HubsHear
  <2>4. \A k \in DOMAIN front : Level(front[k]) = 0
    BY <2>1, NeutralIsQuiet DEF AllNeutral
  <2>5. /\ \A k \in DOMAIN front : Append(front, op)[k] = front[k]
        /\ Append(front, op)[Len(front) + 1] = op
        /\ DOMAIN front = 1 .. Len(front) /\ Len(front) \in Nat
        /\ DOMAIN Append(front, op) = 1 .. (Len(front) + 1)
    BY <2>1, AppendElements DEF AllNeutral
  <2>6. \A k \in DOMAIN vec : k \in DOMAIN front \/ k = Len(front) + 1
    BY <2>1, <2>5
  <2>7. QED
    BY <2>1, <2>3, <2>4, <2>5, <2>6
<1>9. QED
  BY <1>1, <1>2, <1>3, <1>4, <1>5, <1>6, <1>7, <1>8 DEF StepKinds, TakesAnEvent

\* The machine goes on: what it tells the hubs is not below what it told them.
LEMMA MachineTells ==
  ASSUME TypeOK, Hierarchy, TypeOK', Hierarchy', TellInv, step_inner
  PROVE  TellInv'
<1>1. /\ todo' = todo /\ actions' = actions /\ announced' = announced
      /\ \A i \in DOMAIN fsmOut' :
           \A k \in DOMAIN fsmOut'[i] : Level(fsmOut'[i][k]) \in {0, Height(Stage')}
      /\ Height(Stage) <= Height(Stage')
  BY VectorTells, StageMoves
<1>2. (TypeOK /\ Hierarchy => Height(Stage) \in 1 .. 7)' /\ Height(Stage) \in 1 .. 7
  BY StageHeight, PTL
<1>3. Height(Stage') \in 1 .. 7
  BY <1>2 DEF Height
<1>4. \A l \in Labels : Height(l) \in 1 .. 6
  BY Heights, LabelsAre
<1>5. Height(announced) \in 1 .. 6 /\ Height(announced') = Height(announced)
  BY <1>1, <1>4 DEF TypeOK
<1>6. Height(announced') <= Height(Stage')
  BY <1>1, <1>2, <1>3, <1>5 DEF TellInv
<1>7. \A op \in Ops : Level(op) \in 0 .. 6
  BY Levels
<1>8. ASSUME NEW v \in Seq(Ops), Between(v)
      PROVE  Between(v)' /\ \A k \in DOMAIN v : Level(v[k]) <= Height(Stage')
  <2>1. \A k \in DOMAIN v : v[k] \in Ops
    OBVIOUS
  <2>2. \A k \in DOMAIN v : Level(v[k]) \in 0 .. 6
    BY <1>7, <2>1
  <2>3. \A k \in DOMAIN v : Level(v[k]) <= Height(Stage')
    BY <1>1, <1>2, <1>3, <1>8, <2>2 DEF Between
  <2>4. QED
    BY <1>5, <1>8, <2>3 DEF Between
<1>9. todo \in Seq(Ops) /\ \A i \in DOMAIN actions : actions[i] \in Seq(Ops)
  BY DEF TypeOK
<1>10. Between(todo)' /\ Ordered(todo)'
  BY <1>1, <1>8, <1>9 DEF TellInv, Between, Ordered
<1>11. \A i \in DOMAIN actions' :
         /\ Between(actions[i])' /\ Ordered(actions[i])' /\ AllBefore(todo, actions[i])'
         /\ \A j \in DOMAIN actions' : j > i => AllBefore(actions[i], actions[j])'
  BY <1>1, <1>8, <1>9 DEF TellInv, Between, Ordered, AllBefore
<1>12. ASSUME NEW i \in DOMAIN fsmOut'
       PROVE  /\ Between(fsmOut[i])' /\ Ordered(fsmOut[i])' /\ AllBefore(todo, fsmOut[i])'
              /\ \A j \in DOMAIN actions' : AllBefore(actions[j], fsmOut[i])'
  <2> DEFINE w == fsmOut'[i]
  <2>1. \A k \in DOMAIN w : Level(w[k]) \in {0, Height(Stage')}
    BY <1>1, <1>12
  <2> HIDE DEF w
  <2>2. \A k \in DOMAIN w : /\ Level(w[k]) # 0 => Height(announced') <= Level(w[k])
                            /\ Level(w[k]) <= Height(Stage')
    BY <1>3, <1>6, <2>1
  <2>3. ASSUME NEW v \in Seq(Ops), Between(v)
        PROVE  AllBefore(v, w)
    <3>1. \A k \in DOMAIN v : Level(v[k]) <= Height(Stage')
      BY <1>8, <2>3
    <3>2. QED
      BY <2>1, <3>1 DEF AllBefore, Before
  <2>4. Ordered(w)
    BY <2>1, <2>2 DEF Ordered, Before
  <2>5. AllBefore(todo, w) /\ \A j \in DOMAIN actions : AllBefore(actions[j], w)
    BY <1>9, <2>3 DEF TellInv
  <2>6. QED
    BY <1>1, <2>2, <2>4, <2>5 DEF w, Between, Ordered, AllBefore
<1>13. QED
  BY <1>6, <1>10, <1>11, <1>12 DEF TellInv

\* Every step keeps the order of what the hubs are told and is a step of the
\* protocol or none.
LEMMA TellStep ==
  ASSUME TypeOK, Hierarchy, TypeOK', Hierarchy', TellInv, [Next]_vars
  PROVE  TellInv' /\ [Protocol!Next]_<<Stage, announced>>
<1>1. ASSUME UNCHANGED <<todo, fsmVars, announced>>
      PROVE  TellInv' /\ [Protocol!Next]_<<Stage, announced>>
  <2>1. /\ fsm' = fsm /\ fsmOut' = fsmOut /\ actions' = actions
        /\ todo' = todo /\ announced' = announced
    BY <1>1 DEF fsmVars
  <2>2. /\ Stage' = Stage /\ Height(Stage') = Height(Stage)
        /\ Height(announced') = Height(announced)
    BY <2>1, BoundsStay
  <2>3. TellInv'
    BY <2>1, <2>2 DEF TellInv, Between, Ordered, AllBefore
  <2>4. QED
    BY <2>1, <2>2, <2>3
<1>2. ASSUME fsm' = fsm, announced' = announced
      PROVE  [Protocol!Next]_<<Stage, announced>>
  BY <1>2, BoundsStay
<1>3. CASE DataAnswers \/ HubSends \/ fsm_watchdog_timer
  BY <1>1, <1>3 DEF DataAnswers, HubSends, Command, fsm_watchdog_timer, told
<1>4. CASE TakesCommand
  <2>1. /\ todo = <<>> /\ fsm' = fsm /\ fsmOut' = fsmOut /\ actions' = actions
        /\ announced' = announced
        /\ \A i \in DOMAIN todo' : Level(todo'[i]) = 0
    BY <1>4, CommandsAreQuiet DEF fsmVars
  <2>2. /\ Height(Stage') = Height(Stage) /\ Height(announced') = Height(announced)
        /\ Height(Stage) \in 1 .. 7 /\ \A v : Between(v)' <=> Between(v)
    BY <2>1, BoundsStay, StageHeight
  <2>3. /\ \A i \in DOMAIN actions : AllBefore(todo', actions[i])
        /\ \A i \in DOMAIN fsmOut : AllBefore(todo', fsmOut[i])
    <3>1. /\ \A i \in DOMAIN actions : actions[i] \in Seq(Ops)
          /\ \A i \in DOMAIN fsmOut : fsmOut[i] \in Seq(Ops)
      BY DEF TypeOK
    <3>2. QED
      BY <2>1, <3>1, QuietBefore
  <2>4. Between(todo)' /\ Ordered(todo)' /\ Height(announced') <= Height(Stage')
    BY <2>1, <2>2 DEF Between, Ordered, Before, TellInv
  <2>5. \A i \in DOMAIN actions' :
          /\ Between(actions[i])' /\ Ordered(actions[i])' /\ AllBefore(todo, actions[i])'
          /\ \A j \in DOMAIN actions' : j > i => AllBefore(actions[i], actions[j])'
    BY <2>1, <2>2, <2>3 DEF TellInv, Between, Ordered, AllBefore
  <2>6. \A i \in DOMAIN fsmOut' :
          /\ Between(fsmOut[i])' /\ Ordered(fsmOut[i])' /\ AllBefore(todo, fsmOut[i])'
          /\ \A j \in DOMAIN actions' : AllBefore(actions[j], fsmOut[i])'
    BY <2>1, <2>2, <2>3 DEF TellInv, Between, Ordered, AllBefore
  <2>7. QED
    BY <1>2, <2>1, <2>4, <2>5, <2>6 DEF TellInv
<1>5. CASE TakesActions
  <2>1. /\ actions # <<>> /\ todo' = Head(actions) /\ actions' = Tail(actions)
        /\ fsm' = fsm /\ fsmOut' = fsmOut /\ announced' = announced
        /\ actions \in Seq(Seq(Ops))
    BY <1>5 DEF TakesActions, TypeOK, told
  <2>2. /\ Height(Stage') = Height(Stage) /\ Height(announced') = Height(announced)
        /\ \A v : Between(v)' <=> Between(v)
    BY <2>1, BoundsStay
  <2>3. /\ 1 \in DOMAIN actions /\ Head(actions) = actions[1]
        /\ \A i \in DOMAIN actions' : i + 1 \in DOMAIN actions /\ actions'[i] = actions[i + 1]
        /\ DOMAIN actions' = 1 .. (Len(actions) - 1) /\ Len(actions) \in Nat
    BY <2>1, TailElements
  <2>4. \A i, j \in DOMAIN actions' : i + 1 > 1 /\ (j > i => j + 1 > i + 1)
    BY <2>3
  <2>5. Between(todo)' /\ Ordered(todo)' /\ Height(announced') <= Height(Stage')
    BY <2>1, <2>2, <2>3 DEF TellInv, Between, Ordered
  <2>6. ASSUME NEW i \in DOMAIN actions'
        PROVE  /\ Between(actions[i])' /\ Ordered(actions[i])' /\ AllBefore(todo, actions[i])'
               /\ \A j \in DOMAIN actions' : j > i => AllBefore(actions[i], actions[j])'
    <3>1. /\ Between(actions[i + 1]) /\ Ordered(actions[i + 1])
          /\ AllBefore(actions[1], actions[i + 1])
      BY <2>3, <2>4 DEF TellInv
    <3>2. ASSUME NEW j \in DOMAIN actions', j > i
          PROVE  AllBefore(actions[i + 1], actions[j + 1])
      BY <2>3, <2>4, <3>2 DEF TellInv
    <3>3. QED
      BY <2>1, <2>2, <2>3, <3>1, <3>2 DEF Between, Ordered, AllBefore
  <2>7. \A i \in DOMAIN fsmOut' :
          /\ Between(fsmOut[i])' /\ Ordered(fsmOut[i])' /\ AllBefore(todo, fsmOut[i])'
          /\ \A j \in DOMAIN actions' : AllBefore(actions[j], fsmOut[i])'
    BY <2>1, <2>2, <2>3 DEF TellInv, Between, Ordered, AllBefore
  <2>8. QED
    BY <1>2, <2>1, <2>5, <2>6, <2>7 DEF TellInv
<1>6. CASE RunFsmSendsActions
  <2>1. /\ fsmOut # <<>> /\ actions' = Append(actions, Head(fsmOut)) /\ fsmOut' = <<>>
        /\ todo' = todo /\ fsm' = fsm /\ announced' = announced
        /\ actions \in Seq(Seq(Ops)) /\ fsmOut \in Seq(Seq(Ops)) /\ Len(fsmOut) <= 1
    BY <1>6 DEF RunFsmSendsActions, TypeOK, told
  <2>2. /\ Height(Stage') = Height(Stage) /\ Height(announced') = Height(announced)
        /\ \A v : Between(v)' <=> Between(v)
    BY <2>1, BoundsStay
  <2>3. 1 \in DOMAIN fsmOut /\ Head(fsmOut) = fsmOut[1] /\ fsmOut[1] \in Seq(Ops)
    BY <2>1, SoleElement
  <2>4. /\ \A i \in DOMAIN actions : actions'[i] = actions[i]
        /\ actions'[Len(actions) + 1] = fsmOut[1]
        /\ DOMAIN actions = 1 .. Len(actions) /\ Len(actions) \in Nat
        /\ DOMAIN actions' = 1 .. (Len(actions) + 1)
    BY <2>1, <2>3, AppendElements
  <2>5. \A i \in DOMAIN actions' :
          /\ i \in DOMAIN actions \/ i = Len(actions) + 1
          /\ i = Len(actions) + 1 => \A j \in DOMAIN actions' : ~(j > i)
    BY <2>4
  <2>6. Between(todo)' /\ Ordered(todo)' /\ Height(announced') <= Height(Stage')
    BY <2>1, <2>2 DEF TellInv, Between, Ordered
  <2>7. ASSUME NEW i \in DOMAIN actions'
        PROVE  /\ Between(actions[i])' /\ Ordered(actions[i])' /\ AllBefore(todo, actions[i])'
               /\ \A j \in DOMAIN actions' : j > i => AllBefore(actions[i], actions[j])'
    <3>1. /\ Between(fsmOut[1]) /\ Ordered(fsmOut[1]) /\ AllBefore(todo, fsmOut[1])
          /\ \A j \in DOMAIN actions : AllBefore(actions[j], fsmOut[1])
      BY <2>3 DEF TellInv
    <3>2. CASE i \in DOMAIN actions
      <4>1. /\ Between(actions[i]) /\ Ordered(actions[i]) /\ AllBefore(todo, actions[i])
            /\ \A j \in DOMAIN actions : j > i => AllBefore(actions[i], actions[j])
        BY <3>2 DEF TellInv
      <4>2. QED
        BY <2>1, <2>2, <2>4, <2>5, <3>1, <3>2, <4>1 DEF Between, Ordered, AllBefore
    <3>3. CASE i = Len(actions) + 1
      BY <2>1, <2>2, <2>4, <2>5, <3>1, <3>3 DEF Between, Ordered, AllBefore
    <3>4. QED
      BY <2>5, <3>2, <3>3
  <2>8. QED
    BY <1>2, <2>1, <2>6, <2>7 DEF TellInv
<1>7. CASE handle_action
  <2>1. PICK sends \in Seq(Ops) :
           /\ todo # <<>> /\ Executes(sends)
           /\ \A i \in DOMAIN sends : Level(sends[i]) \in {0, Level(Head(todo))}
    BY <1>7, HandleTells
  <2>2. /\ todo' = sends \o Tail(todo) /\ fsm' = fsm /\ fsmOut' = fsmOut
        /\ actions' = actions /\ announced' = announced
    BY <2>1 DEF Executes, fsmVars, told
  <2>3. QED
    BY <1>2, <2>1, <2>2, TodoTells
<1>8. CASE SendsToCore
  BY <1>8, AnnouncementTells DEF Protocol!Next
<1>9. CASE Sends /\ ~SendsToCore
  <2>1. /\ todo # <<>> /\ todo' = Tail(todo) /\ fsm' = fsm /\ fsmOut' = fsmOut
        /\ actions' = actions /\ announced' = announced /\ todo \in Seq(Ops)
    BY <1>9 DEF Sends, SendsEvent, SendsTimerCommand, SendsHeartbeatMode, SendsEdgeState,
                Does, fsmVars, told, TypeOK
  <2>2. PICK sends \in Seq(Ops) : sends = <<>>
    <3>1. <<>> \in Seq(Ops)
      OBVIOUS
    <3>2. QED
      BY <3>1
  <2>3. /\ todo' = sends \o Tail(todo)
        /\ \A i \in DOMAIN sends : Level(sends[i]) \in {0, Level(Head(todo))}
    BY <2>1, <2>2, ConcatEmptySeq
  <2>4. QED
    BY <1>2, <2>1, <2>3, TodoTells
<1>10. CASE step_inner
  <2>1. TellInv'
    BY <1>10, MachineTells
  <2>2. announced' = announced /\ (Stage' = Stage \/ Protocol!Move)
    BY <1>10, StageMoves
  <2>3. QED
    BY <2>1, <2>2 DEF Protocol!Next
<1>11. CASE UNCHANGED vars
  BY <1>1, <1>11 DEF vars, told
<1>12. QED
  BY <1>3, <1>4, <1>5, <1>6, <1>7, <1>8, <1>9, <1>10, <1>11
     DEF Next, TakesCommand, Sends

\* The machine, the coordinator and their channels implement the balancing
\* protocol: stages in order, and the hubs told of them in the same order and
\* never ahead (fsm/domain.rs 354-998, fsm/logic.rs 266-426).
THEOREM ProtocolRefinement == Spec => Protocol!Spec
<1>1. Init => TellInv /\ Protocol!Init
  <2> SUFFICES ASSUME Init PROVE TellInv /\ Protocol!Init
    OBVIOUS
  <2>1. Stage = "start" /\ announced = "nothing"
    BY DEF Init, Stage
  <2>2. todo = <<>> /\ actions = <<>> /\ fsmOut = <<>>
    BY DEF Init
  <2>3. QED
    BY <2>1, <2>2, Heights DEF TellInv, Between, Ordered, AllBefore, Protocol!Init
<1>2. TypeOK /\ Hierarchy /\ TypeOK' /\ Hierarchy' /\ TellInv /\ [Next]_vars
        => TellInv' /\ [Protocol!Next]_<<Stage, announced>>
  BY TellStep
<1>3. QED
  BY <1>1, <1>2, TypeCorrect, HierarchyHolds, PTL DEF Spec, Protocol!Spec
-----------------------------------------------------------------------------
(* The load, and the wait it excludes.                                     *)

\* Actions and sends that become an event or a sleep, and those that ask for
\* the epoch.
Bears(op) ==
    \/ op.do \in {"fsm", "OnEntryQuorum", "OnEntryPhase", "OnEntrySafeMode"}
    \/ op \in {InitTimer, CalculateQuorum}
    \/ op.do = "OnEntryBalance" /\ op.arg \in {"InHandshake", "OutHandshake"}
AskEpoch == Op("OnEntryBalance", "InitBalanceMode")
GetEpoch == Op("core", "GetEpoch")

\* At most one operation of a vector bears anything, and none asks again.
Sparse(vec) ==
    /\ \A i, j \in DOMAIN vec : Bears(vec[i]) /\ Bears(vec[j]) => i = j
    /\ \A i \in DOMAIN vec : vec[i] \notin {AskEpoch, GetEpoch}
Bearing(vec) == Count(\E i \in DOMAIN vec : Bears(vec[i]))

\* The load without the operations that bear nothing any more.
Received == Len(commands)
Queued   == Len(events)
Vector   == Len(fsmOut)
Vectors  == Len(actions)
InTodo   == Bearing(todo)
Inits(q) == Cardinality({i \in DOMAIN q : q[i] = "InitTimer"})
Sleeping == Count(timer # "idle")
Weight   == Received + Queued + Vector + Vectors + InTodo + Inits(cmds) + Sleeping
Limit    == IF Burst = 0 THEN 1 ELSE Burst

\* Before the epoch is answered nothing is under way but the question.
Asking ==
    /\ commands = <<>> /\ events = <<>> /\ cmds = <<>> /\ timer = "idle"
    /\ announced = "nothing" /\ session.state = None
    /\ \/ /\ epoch = "unasked" /\ fsm.global = "Start"
          /\ fsmOut = <<>> /\ actions = <<>> /\ todo = <<>>
       \/ /\ epoch = "unasked" /\ In({"InitBalanceMode"})
          /\ <<fsmOut, actions, todo>> \in
               {<< << <<AskEpoch>> >>, <<>>, <<>> >>, << <<>>, << <<AskEpoch>> >>, <<>> >>,
                << <<>>, <<>>, <<AskEpoch>> >>, << <<>>, <<>>, <<GetEpoch>> >>}
       \/ /\ epoch = "asked" /\ In({"InitBalanceMode"})
          /\ fsmOut = <<>> /\ actions = <<>> /\ todo = <<>>
Answered ==
    /\ epoch = "answered" /\ fsm.global # "Start"
    /\ Sparse(todo)
    /\ \A i \in DOMAIN actions : Sparse(actions[i])
    /\ \A i \in DOMAIN fsmOut : Sparse(fsmOut[i])
    /\ Weight <= Limit

LoadInv == Asking \/ Answered

\* How many starts are in the watchdog's channel.
LEMMA InitsIs ==
  ASSUME NEW q \in Seq(W!Commands)
  PROVE  /\ Inits(q) \in Nat
         /\ \A c \in W!Commands :
              Inits(Append(q, c)) = Inits(q) + Count(c = "InitTimer")
         /\ q # <<>> => Inits(q) = Inits(Tail(q)) + Count(Head(q) = "InitTimer")
<1> DEFINE Starts(r) == {i \in DOMAIN r : r[i] = "InitTimer"}
<1>1. ASSUME NEW r \in Seq(W!Commands)
      PROVE  IsFiniteSet(Starts(r)) /\ Cardinality(Starts(r)) \in Nat
  <2>1. Starts(r) \in SUBSET (1 .. Len(r)) /\ Len(r) \in Nat
    OBVIOUS
  <2>2. IsFiniteSet(1 .. Len(r))
    BY <2>1, FS_Interval
  <2> HIDE DEF Starts
  <2>3. QED
    BY <2>1, <2>2, FS_Subset, FS_CardinalityType
<1>2. ASSUME NEW c \in W!Commands
      PROVE  Inits(Append(q, c)) = Inits(q) + Count(c = "InitTimer")
  <2> DEFINE k == Len(q) + 1
  <2>1. /\ \A i \in DOMAIN q : Append(q, c)[i] = q[i]
        /\ Append(q, c)[k] = c /\ k \notin DOMAIN q
        /\ DOMAIN Append(q, c) = DOMAIN q \cup {k}
    <3>1. /\ \A i \in DOMAIN q : Append(q, c)[i] = q[i]
          /\ Append(q, c)[k] = c
          /\ DOMAIN q = 1 .. Len(q) /\ Len(q) \in Nat
          /\ DOMAIN Append(q, c) = 1 .. (Len(q) + 1)
      BY AppendElements
    <3>2. QED
      BY <3>1
  <2> HIDE DEF k
  <2>2. CASE c = "InitTimer"
    <3>1. Starts(Append(q, c)) = Starts(q) \cup {k} /\ k \notin Starts(q)
      BY <2>1, <2>2
    <3>2. Cardinality(Starts(Append(q, c))) = Cardinality(Starts(q)) + 1
      BY <1>1, <3>1, FS_AddElement
    <3>3. QED
      BY <2>2, <3>2 DEF Inits, Count
  <2>3. CASE c # "InitTimer"
    <3>1. Starts(Append(q, c)) = Starts(q)
      BY <2>1, <2>3
    <3>2. Inits(Append(q, c)) = Inits(q) /\ Inits(q) \in Nat
      BY <1>1, <3>1 DEF Inits
    <3>3. QED
      BY <2>3, <3>2 DEF Count
  <2>4. QED
    BY <2>2, <2>3
<1>3. ASSUME q # <<>>
      PROVE  Inits(q) = Inits(Tail(q)) + Count(Head(q) = "InitTimer")
  <2> DEFINE A == Starts(q)
             B == Starts(Tail(q))
             f == [i \in B |-> i + 1]
  <2>1. /\ Tail(q) \in Seq(W!Commands) /\ Head(q) = q[1] /\ 1 \in DOMAIN q
        /\ \A i \in DOMAIN Tail(q) : i + 1 \in DOMAIN q /\ Tail(q)[i] = q[i + 1]
        /\ \A i \in DOMAIN q : i # 1 => i - 1 \in DOMAIN Tail(q) /\ i > 1
        /\ DOMAIN q = 1 .. Len(q) /\ DOMAIN Tail(q) = 1 .. (Len(q) - 1) /\ Len(q) \in Nat
    BY <1>3, TailElements
  <2>2. /\ \A i \in DOMAIN Tail(q) : i \in Nat /\ i + 1 # 1 /\ (i + 1) - 1 = i
        /\ \A i \in DOMAIN q : i \in Nat /\ (i - 1) + 1 = i
    BY <2>1
  <2>3. f \in Bijection(B, A \ {1})
    <3>1. \A i \in B : i + 1 \in A \ {1}
      BY <2>1, <2>2
    <3>2. f \in [B -> A \ {1}]
      BY <3>1
    <3>3. \A i, j \in B : f[i] = f[j] => i = j
      BY <2>2
    <3>4. \A i \in A \ {1} : i - 1 \in B /\ (i - 1) + 1 = i
      BY <2>1, <2>2
    <3>5. \A i \in A \ {1} : \E j \in B : f[j] = i
      BY <3>4
    <3>6. QED
      BY <3>2, <3>3, <3>5 DEF Bijection, Injection, Surjection, IsInjective
  <2>4. Cardinality(A \ {1}) = Cardinality(B)
    <3>1. IsFiniteSet(B)
      BY <1>1, <2>1
    <3>2. ExistsBijection(B, A \ {1})
      BY <2>3 DEF ExistsBijection
    <3> HIDE DEF A, B, f
    <3>3. QED
      BY <3>1, <3>2, FS_Bijection
  <2>5. Cardinality(A \ {1}) = IF 1 \in A THEN Cardinality(A) - 1 ELSE Cardinality(A)
    BY <1>1, FS_RemoveElement
  <2>6. Cardinality(A) \in Nat /\ (1 \in A <=> Head(q) = "InitTimer")
    BY <1>1, <2>1
  <2>7. Inits(q) = Cardinality(A) /\ Inits(Tail(q)) = Cardinality(B)
    BY DEF Inits
  <2> HIDE DEF A, B
  <2>8. QED
    BY <2>4, <2>5, <2>6, <2>7 DEF Count
<1>4. QED
  BY <1>1, <1>2, <1>3 DEF Inits

\* What takes the place of a bearing operation bears no more than it did.
LEMMA BearingMoves ==
  ASSUME NEW vec \in Seq(Ops), vec # <<>>, NEW sends \in Seq(Ops),
         Sparse(vec), Sparse(sends),
         \A i \in DOMAIN sends : Bears(sends[i]) => Bears(Head(vec)),
         NEW rest, rest = sends \o Tail(vec)
  PROVE  /\ Sparse(rest)
         /\ Bearing(rest) <= Bearing(vec)
         /\ sends = <<>> /\ Bears(Head(vec)) => Bearing(rest) = 0 /\ Bearing(vec) = 1
<1>1. Replaces(vec, sends, rest)
  BY Replaced
<1>2. ASSUME NEW k \in DOMAIN rest
      PROVE  \/ k \in DOMAIN sends /\ rest[k] = sends[k]
             \/ \E i \in DOMAIN vec : i # 1 /\ k = Place(sends, i) /\ rest[k] = vec[i]
  BY <1>1 DEF Replaces
<1>3. ASSUME NEW i \in DOMAIN vec, i # 1, Bears(vec[i])
      PROVE  ~Bears(Head(vec))
  BY <1>1, <1>3 DEF Replaces, Sparse
<1>4. ASSUME NEW k \in DOMAIN rest, NEW l \in DOMAIN rest, Bears(rest[k]), Bears(rest[l])
      PROVE  k = l
  <2>1. CASE k \in DOMAIN sends /\ rest[k] = sends[k]
    <3>1. Bears(Head(vec))
      BY <1>4, <2>1
    <3>2. l \in DOMAIN sends /\ rest[l] = sends[l]
      BY <1>2, <1>3, <1>4, <3>1
    <3>3. QED
      BY <1>4, <2>1, <3>2 DEF Sparse
  <2>2. CASE \E i \in DOMAIN vec : i # 1 /\ k = Place(sends, i) /\ rest[k] = vec[i]
    <3>1. PICK i \in DOMAIN vec : i # 1 /\ k = Place(sends, i) /\ rest[k] = vec[i]
      BY <2>2
    <3>2. ~Bears(Head(vec))
      BY <1>3, <1>4, <3>1
    <3>3. PICK j \in DOMAIN vec : j # 1 /\ l = Place(sends, j) /\ rest[l] = vec[j]
      BY <1>2, <1>4, <3>2
    <3>4. QED
      BY <1>4, <3>1, <3>3 DEF Sparse
  <2>3. QED
    BY <1>2, <2>1, <2>2
<1>5. \A k \in DOMAIN rest : rest[k] \notin {AskEpoch, GetEpoch}
  BY <1>2 DEF Sparse
<1>6. (\E k \in DOMAIN rest : Bears(rest[k])) => \E i \in DOMAIN vec : Bears(vec[i])
  BY <1>1, <1>2 DEF Replaces
<1>7. sends = <<>> /\ Bears(Head(vec)) =>
        /\ ~\E k \in DOMAIN rest : Bears(rest[k])
        /\ \E i \in DOMAIN vec : Bears(vec[i])
  BY <1>1, <1>2, <1>3 DEF Replaces
<1>8. Sparse(rest)
  BY <1>4, <1>5 DEF Sparse
<1>9. Bearing(rest) <= Bearing(vec)
  BY ONLY <1>6 DEF Bearing, Count
<1>10. sends = <<>> /\ Bears(Head(vec)) => Bearing(rest) = 0 /\ Bearing(vec) = 1
  BY ONLY <1>7 DEF Bearing, Count
<1>11. QED
  BY <1>8, <1>9, <1>10

\* Vectors of few operations.
LEMMA SmallVectors ==
  ASSUME NEW a, NEW b, NEW c, a \notin {AskEpoch, GetEpoch}, b \notin {AskEpoch, GetEpoch},
         c \notin {AskEpoch, GetEpoch}
  PROVE  /\ Sparse(<<>>) /\ Sparse(<<a>>)
         /\ ~Bears(b) => Sparse(<<a, b>>)
         /\ ~Bears(a) => Sparse(<<a, b>>)
         /\ ~Bears(b) /\ ~Bears(c) => Sparse(<<a, b, c>>)
BY DEF Sparse

\* An entry action that bears an event or a sleep is replaced by one.
LEMMA HandleBears ==
  ASSUME TypeOK, handle_action, Head(todo) # AskEpoch
  PROVE  /\ todo # <<>> /\ Head(todo).do \notin {"fsm", "timer"}
         /\ \E sends \in Seq(Ops) :
              /\ Executes(sends) /\ Consumes(sends) /\ Sparse(sends)
              /\ \A i \in DOMAIN sends : Bears(sends[i]) => Bears(Head(todo))
<1>1. PICK sends \in Seq(Ops) : Replies(Head(todo), sends) /\ Executes(sends)
  BY HandleReplies
<1>2. todo # <<>> /\ Head(todo) \in Ops
  BY HandleReplies
<1>3. \A a \in Others : ~Bears(a) /\ a \notin {AskEpoch, GetEpoch}
  BY DEF Others, Bears, InitTimer, CalculateQuorum, AskEpoch, GetEpoch, Op
<1>4. InitTimer \notin {AskEpoch, GetEpoch}
      /\ \A v : Op("fsm", v) \notin {AskEpoch, GetEpoch}
  BY DEF InitTimer, AskEpoch, GetEpoch, Op
<1>5. Sparse(sends) /\ \A i \in DOMAIN sends : Bears(sends[i]) => Bears(Head(todo))
  <2>1. CASE Head(todo).do = "OnEntryBalance" /\ Head(todo) \notin Starters
    <3>1. Head(todo).arg # "InitBalanceMode"
      BY <1>2, <2>1 DEF AskEpoch, Op, Ops, StopTimer, InitTimer, CalculateQuorum
    <3>2. sends = <<>>
      BY <1>1, <2>1, <3>1 DEF Replies, CalculateQuorum, Op
    <3>3. QED
      BY <3>2 DEF Sparse
  <2>2. ASSUME Head(todo) \in Starters, Head(todo) # InitTimer, NEW a \in Others,
               NEW b \in Others,
               sends \in {<<a, InitTimer>>, <<InitTimer, a>>, <<InitTimer, a, b>>}
        PROVE  Sparse(sends) /\ \A i \in DOMAIN sends : Bears(sends[i]) => Bears(Head(todo))
    <3>1. Bears(Head(todo))
      BY <2>2 DEF Bears, Starters
    <3>2. Sparse(sends)
      BY <1>3, <1>4, <2>2, SmallVectors
    <3>3. QED
      BY <3>1, <3>2
  <2>3. ASSUME \/ Head(todo) = CalculateQuorum
               \/ Head(todo).do = "OnEntryQuorum" /\ Head(todo).arg \in Checks,
               NEW v, sends = <<Op("fsm", v)>>
        PROVE  Sparse(sends) /\ \A i \in DOMAIN sends : Bears(sends[i]) => Bears(Head(todo))
    <3>1. Bears(Head(todo))
      BY <2>3 DEF Bears
    <3>2. Sparse(sends)
      BY <1>4, <2>3, SmallVectors
    <3>3. QED
      BY <3>1, <3>2
  <2>4. ASSUME NEW a \in Others, NEW b \in Others, sends = <<a, b>>
        PROVE  Sparse(sends) /\ \A i \in DOMAIN sends : Bears(sends[i]) => Bears(Head(todo))
    <3>1. \A i \in DOMAIN sends : sends[i] \in {a, b}
      BY <2>4
    <3>2. QED
      BY <1>3, <2>4, <3>1, SmallVectors
  <2>5. QED
    BY <1>1, <2>1, <2>2, <2>3, <2>4 DEF Replies
<1>6. Consumes(sends) /\ Head(todo).do \notin {"fsm", "timer"}
  BY <1>1, <1>2, RepliesConsume
<1>7. QED
  BY <1>1, <1>2, <1>5, <1>6

\* The parts of the weight are counts.
Measured ==
    /\ Received \in Nat /\ Queued \in Nat /\ Vector \in Nat /\ Vectors \in Nat
    /\ InTodo \in {0, 1} /\ Inits(cmds) \in Nat /\ Sleeping \in {0, 1}
    /\ Weight <= Load /\ Load \in Nat

\* They are, in every state the types allow; and the load is no less.
LEMMA WeightIs == TypeOK => Measured
<1> SUFFICES ASSUME TypeOK PROVE Measured
  OBVIOUS
<1>1. Inits(cmds) \in Nat
  BY InitsIs DEF TypeOK
<1>2. Received \in Nat /\ Queued \in Nat /\ Vector \in Nat /\ Vectors \in Nat
  BY DEF TypeOK, Received, Queued, Vector, Vectors
<1>3. InTodo \in {0, 1} /\ Sleeping \in {0, 1}
  BY DEF InTodo, Bearing, Count, Sleeping
<1>4. Count(todo # <<>>) \in {0, 1} /\ InTodo <= Count(todo # <<>>)
  <2>1. todo = <<>> => InTodo = 0
    BY DEF InTodo, Bearing, Count
  <2>2. QED
    BY <1>3, <2>1 DEF Count
<1>5. Load = Received + Count(todo # <<>>) + Queued + Vector + Vectors + Sleeping
               + Inits(cmds)
  BY DEF Load, Received, Queued, Vector, Vectors, Sleeping, Inits
<1>6. Load \in Nat
  BY ONLY <1>1, <1>2, <1>3, <1>4, <1>5
<1>7. Weight <= Load
  BY <1>1, <1>2, <1>3, <1>4, <1>5 DEF Weight
<1>8. QED
  BY <1>1, <1>2, <1>3, <1>6, <1>7 DEF Measured

\* A step that does not add to the weight keeps the bound.
LEMMA LighterOrEqual ==
  ASSUME TypeOK, TypeOK', Answered, epoch' = "answered", fsm'.global # "Start",
         Sparse(todo'), \A i \in DOMAIN actions' : Sparse(actions'[i]),
         \A i \in DOMAIN fsmOut' : Sparse(fsmOut'[i]), Weight' <= Weight
  PROVE  Answered'
<1>1. Measured
  BY WeightIs
<1>2. Measured'
  BY WeightIs, PTL
<1>3. Weight \in Nat /\ Weight' \in Nat /\ Limit \in Nat /\ Limit' = Limit
  BY <1>1, <1>2, BurstAssumption DEF Measured, Weight, Limit
<1>4. Weight' <= Limit
  BY <1>3 DEF Answered
<1>5. QED
  BY <1>3, <1>4 DEF Answered

\* A send and an entry action: what bears an event or a sleep becomes one, or
\* is replaced by one that does.
LEMMA AnsweredConsumes ==
  ASSUME TypeOK, TypeOK', Answered, NEW sends \in Seq(Ops), Consumes(sends),
         Sparse(sends), \A i \in DOMAIN sends : Bears(sends[i]) => Bears(Head(todo)),
         Head(todo).do \in {"fsm", "timer"} => sends = <<>>,
         UNCHANGED coreVars
  PROVE  Answered'
<1>1. Measured
  BY WeightIs
<1>2. Measured'
  BY WeightIs, PTL
<1>3. /\ todo \in Seq(Ops) /\ todo # <<>> /\ todo' = sends \o Tail(todo)
      /\ Sparse(todo)
  BY DEF TypeOK, Consumes, Answered
<1>4. /\ Sparse(todo')
      /\ InTodo' <= InTodo
      /\ sends = <<>> /\ Bears(Head(todo)) => InTodo' = 0 /\ InTodo = 1
  <2>1. /\ Sparse(todo')
        /\ Bearing(todo') <= Bearing(todo)
        /\ sends = <<>> /\ Bears(Head(todo)) => Bearing(todo') = 0 /\ Bearing(todo) = 1
    BY <1>3, BearingMoves
  <2>2. QED
    BY <2>1 DEF InTodo
<1>5. /\ UNCHANGED <<fsm, fsmOut, actions, epoch>>
      /\ UNCHANGED <<Received, Vector, Vectors, Sleeping>>
  BY DEF Consumes, fsmVars, coreVars, Received, Vector, Vectors, Sleeping
<1>6. Weight' <= Weight
  <2>1. CASE Head(todo).do = "fsm" /\ events' = Append(events, Head(todo).arg)
                /\ cmds' = cmds
    <3>1. Bears(Head(todo)) /\ sends = <<>>
      BY <2>1 DEF Bears
    <3>2. Queued' = Queued + 1 /\ Inits(cmds') = Inits(cmds)
      BY <2>1 DEF Queued, TypeOK
    <3>3. QED
      BY ONLY <1>1, <1>2, <1>4, <1>5, <3>1, <3>2 DEF Measured, Weight
  <2>2. CASE Head(todo) = InitTimer /\ cmds' = Append(cmds, Head(todo).arg)
                /\ events' = events
    <3>1. Bears(Head(todo)) /\ sends = <<>>
      BY <2>2 DEF Bears, InitTimer, Op
    <3>2. Inits(cmds') = Inits(cmds) + 1 /\ Queued' = Queued
      BY <2>2, InitsIs DEF TypeOK, W!Commands, Count, InitTimer, Op, Queued
    <3>3. QED
      BY ONLY <1>1, <1>2, <1>4, <1>5, <3>1, <3>2 DEF Measured, Weight
  <2>3. CASE Head(todo) = StopTimer /\ cmds' = Append(cmds, Head(todo).arg)
                /\ events' = events
    <3>1. Inits(cmds') = Inits(cmds) + 0 /\ Queued' = Queued
      BY <2>3, InitsIs DEF TypeOK, W!Commands, Count, StopTimer, Op, Queued
    <3>2. QED
      BY ONLY <1>1, <1>2, <1>4, <1>5, <3>1 DEF Measured, Weight
  <2>4. CASE events' = events /\ cmds' = cmds
    <3>1. Inits(cmds') = Inits(cmds) /\ Queued' = Queued
      BY <2>4 DEF Queued
    <3>2. QED
      BY ONLY <1>1, <1>2, <1>4, <1>5, <3>1 DEF Measured, Weight
  <2>5. QED
    BY <2>1, <2>2, <2>3, <2>4 DEF Consumes
<1>7. QED
  BY <1>4, <1>5, <1>6, LighterOrEqual DEF Answered

\* What the handler of a message sends bears one event.
LEMMA CommandBears ==
  ASSUME TypeOK, TakesCommand
  PROVE  todo = <<>> /\ Sparse(todo')
<1>1. /\ \A e : Op("fsm", e) \notin {AskEpoch, GetEpoch}
      /\ StopTimer \notin {AskEpoch, GetEpoch} /\ ~Bears(StopTimer)
      /\ Op("core", "NewEpoch") \notin {AskEpoch, GetEpoch}
      /\ ~Bears(Op("core", "NewEpoch"))
      /\ Op("edge", "BalanceMode") \notin {AskEpoch, GetEpoch}
      /\ ~Bears(Op("edge", "BalanceMode"))
  BY DEF AskEpoch, GetEpoch, StopTimer, Bears, InitTimer, CalculateQuorum, Op
<1>2. todo = <<>>
  BY CommandKeeps
<1>3. \/ todo' = <<>> \/ \E e : todo' \in {<<Op("fsm", e)>>, <<Op("fsm", e), StopTimer>>}
      \/ todo' = <<Op("fsm", "BalanceEpochOk"), Op("core", "NewEpoch"),
                   Op("edge", "BalanceMode")>>
  BY <1>2 DEF TakesCommand, TakesHandshake, quorum_phase, quorum_safe_mode, Reports,
              TakesErrorEpoch, TakesEpoch
<1>4. QED
  BY <1>1, <1>2, <1>3, SmallVectors

\* Vectors of the machine bear one event or sleep.
LEMMA MachineBears ==
  ASSUME NEW vec, NEW f \in FsmValues, f.balance # "InitBalanceMode", EntryOf(vec, f)
  PROVE  Sparse(vec)
<1>1. PICK front, op :
        AllNeutral(front) /\ op \in Ops /\ Tells(op, f) /\ vec = Append(front, op)
  BY DEF EntryOf
<1>2. \A a : Neutral(a) => ~Bears(a) /\ a \notin {AskEpoch, GetEpoch}
  BY DEF Neutral, Bears, StopTimer, InitTimer, CalculateQuorum, AskEpoch, GetEpoch, Op
<1>3. op \notin {AskEpoch, GetEpoch}
  BY <1>1 DEF Tells, AskEpoch, GetEpoch, Op
<1>4. /\ \A i \in DOMAIN front : vec[i] = front[i]
      /\ vec[Len(front) + 1] = op
      /\ \A i \in DOMAIN vec : i \in DOMAIN front \/ i = Len(front) + 1
  <2>1. front \in Seq(Ops)
    BY <1>1 DEF AllNeutral
  <2>2. /\ \A i \in DOMAIN front : vec[i] = front[i]
        /\ vec[Len(front) + 1] = op
        /\ DOMAIN front = 1 .. Len(front) /\ Len(front) \in Nat
        /\ DOMAIN vec = 1 .. (Len(front) + 1)
    BY <1>1, <2>1, AppendElements
  <2>3. QED
    BY <2>2
<1>5. QED
  BY <1>1, <1>2, <1>3, <1>4 DEF AllNeutral, Sparse

\* The machine makes one vector out of an event.
LEMMA AnsweredMachine ==
  ASSUME TypeOK, TypeOK', Hierarchy, Answered, step_inner
  PROVE  Answered'
<1>1. Measured
  BY WeightIs
<1>2. Measured'
  BY WeightIs, PTL
<1>3. StepKinds
  BY StepVectors
<1>4. /\ UNCHANGED <<epoch, todo, actions>>
      /\ UNCHANGED <<Received, Vectors, InTodo, Inits(cmds), Sleeping>>
  BY <1>3 DEF StepKinds, coreVars, timerVars, Received, Vectors, InTodo, Inits, Sleeping
<1>5. fsm.global # "Start"
  BY DEF Answered
<1>6. TakesAnEvent
  BY <1>3, <1>5 DEF StepKinds
<1>7. Queued' = Queued - 1 /\ Vector = 0
  BY <1>6 DEF TakesAnEvent, TypeOK, Queued, Vector
<1>8. fsm'.global # "Start" /\ Vector' <= 1 /\ \A i \in DOMAIN fsmOut' : Sparse(fsmOut'[i])
  <2>1. Vector' <= 1
    BY DEF TypeOK, Vector
  <2>2. CASE UNCHANGED <<fsm, fsmOut>>
    BY <1>5, <2>1, <2>2 DEF Answered
  <2>3. CASE fsm' = fsm /\ fsmOut' \in {<< <<>> >>, << <<CalculateQuorum>> >>}
    <3>1. CalculateQuorum \notin {AskEpoch, GetEpoch}
      BY DEF CalculateQuorum, AskEpoch, GetEpoch, Op
    <3>2. Sparse(<<>>) /\ Sparse(<<CalculateQuorum>>)
      BY <3>1, SmallVectors
    <3>3. QED
      BY <1>5, <2>1, <2>3, <3>2
  <2>4. CASE /\ fsm'.global # "Start" /\ fsm'.balance # "InitBalanceMode"
             /\ \E vec : fsmOut' = <<vec>> /\ EntryOf(vec, fsm')
    <3>1. PICK vec : fsmOut' = <<vec>> /\ EntryOf(vec, fsm')
      BY <2>4
    <3>2. fsm' \in FsmValues
      BY DEF TypeOK, FsmValues
    <3>3. Sparse(vec)
      BY <2>4, <3>1, <3>2, MachineBears
    <3>4. QED
      BY <2>1, <2>4, <3>1, <3>3
  <2>5. QED
    BY <1>3, <1>5, <2>2, <2>3, <2>4 DEF StepKinds
<1>9. Weight' <= Weight
  BY <1>1, <1>2, <1>4, <1>7, <1>8 DEF Measured, Weight
<1>10. QED
  BY <1>4, <1>8, <1>9, LighterOrEqual DEF Answered

\* A start of the watchdog becomes a sleep, and a sleep an event.
LEMMA AnsweredTimer ==
  ASSUME TypeOK, TypeOK', Answered, fsm_watchdog_timer
  PROVE  Answered'
<1>1. Measured
  BY WeightIs
<1>2. Measured'
  BY WeightIs, PTL
<1>3. /\ UNCHANGED <<epoch, fsm, todo, actions, fsmOut>>
      /\ UNCHANGED <<Received, Vector, Vectors, InTodo>>
  BY DEF fsm_watchdog_timer, coreVars, fsmVars, Received, Vector, Vectors, InTodo
<1>4. Weight' <= Weight
  <2>1. CASE W!TimerTakesCommand \/ W!TimerTakesCommandAsleep
    <3>1. cmds # <<>> /\ cmds' = Tail(cmds) /\ events' = events
      BY <2>1 DEF W!TimerTakesCommand, W!TimerTakesCommandAsleep
    <3>2. Inits(cmds) = Inits(cmds') + Count(Head(cmds) = "InitTimer")
      BY <3>1, InitsIs DEF TypeOK
    <3>3. Sleeping' <= Sleeping + Count(Head(cmds) = "InitTimer")
      BY <2>1 DEF W!TimerTakesCommand, W!TimerTakesCommandAsleep, Sleeping, Count
    <3>4. Queued' = Queued /\ Count(Head(cmds) = "InitTimer") \in {0, 1}
      BY <3>1 DEF Queued, Count
    <3>5. QED
      BY <1>1, <1>2, <1>3, <3>2, <3>3, <3>4 DEF Measured, Weight
  <2>2. CASE W!TimerExpires
    <3>1. Sleeping' = Sleeping /\ UNCHANGED <<Queued, Inits(cmds)>>
      BY <2>2 DEF W!TimerExpires, W!Asleep, Sleeping, Count, Queued, Inits
    <3>2. QED
      BY <1>1, <1>2, <1>3, <3>1 DEF Measured, Weight
  <2>3. CASE W!TimerSendsTimeout
    <3>1. /\ Sleeping = 1 /\ Sleeping' = 0 /\ Queued' = Queued + 1
          /\ UNCHANGED Inits(cmds)
      BY <2>3 DEF Queued, W!TimerSendsTimeout, Sleeping, Count, TypeOK, Inits
    <3>2. QED
      BY <1>1, <1>2, <1>3, <3>1 DEF Measured, Weight
  <2>4. QED
    BY <2>1, <2>2, <2>3 DEF fsm_watchdog_timer, W!TimerStep
<1>5. QED
  BY <1>3, <1>4, LighterOrEqual DEF Answered

\* Once the epoch is answered only a message of a hub adds to the weight, and
\* it arrives below the bound.
LEMMA AnsweredStep ==
  ASSUME TypeOK, TypeOK', Hierarchy, Answered, [Next]_vars
  PROVE  Answered'
<1>1. Measured
  BY WeightIs
<1>2. Measured'
  BY WeightIs, PTL
<1>3. CASE DataAnswers
  BY <1>3 DEF DataAnswers, Answered
<1>4. CASE HubSends
  <2>1. /\ UNCHANGED <<epoch, fsm, fsmOut, actions, todo>>
        /\ UNCHANGED <<Queued, Vector, Vectors, InTodo, Inits(cmds), Sleeping>>
    BY <1>4 DEF HubSends, Command, fsmVars, timerVars, Queued, Vector, Vectors, InTodo,
                Inits, Sleeping
  <2>2. Received' = Received + 1
    <3>1. PICK c : Command(c)
      BY <1>4 DEF HubSends
    <3>2. QED
      BY <3>1 DEF Command, TypeOK, Received
  <2>3. Load < Burst
    BY <1>4 DEF HubSends
  <2>4. Load \in Nat => Weight' <= Burst /\ Burst # 0
    BY <1>1, <1>2, <2>1, <2>2, <2>3, BurstAssumption DEF Measured, Weight
  <2>5. Load \in Nat
    BY <1>1 DEF Measured
  <2>6. Weight' <= Limit'
    BY <2>4, <2>5 DEF Limit
  <2>7. QED
    BY <2>1, <2>6 DEF Answered
<1>5. CASE TakesCommand
  <2>1. todo = <<>> /\ Sparse(todo') /\ InTodo = 0
    BY <1>5, CommandBears DEF InTodo, Bearing, Count
  <2>2. /\ UNCHANGED <<epoch, events, fsmVars, timerVars>>
        /\ commands # <<>> /\ commands' = Tail(commands)
    BY <1>5 DEF TakesCommand, TakesHandshake, quorum_phase, quorum_safe_mode,
                TakesErrorEpoch, TakesEpoch, Receives
  <2>3. /\ UNCHANGED <<Queued, Vector, Vectors, Inits(cmds), Sleeping>>
        /\ Received' = Received - 1
    BY <2>2 DEF fsmVars, timerVars, Queued, Vector, Vectors, Inits, Sleeping, Received,
                TypeOK
  <2>4. Weight' <= Weight
    BY <1>1, <1>2, <2>1, <2>3 DEF Measured, Weight
  <2>5. QED
    BY <2>1, <2>2, <2>4, LighterOrEqual DEF Answered, fsmVars
<1>6. CASE TakesActions
  <2>1. /\ todo = <<>> /\ actions # <<>> /\ todo' = Head(actions)
        /\ actions' = Tail(actions) /\ UNCHANGED <<epoch, fsm, fsmOut>>
        /\ UNCHANGED <<Received, Queued, Vector, Inits(cmds), Sleeping>>
    BY <1>6 DEF TakesActions, coreVars, timerVars, Received, Queued, Vector, Inits,
                Sleeping
  <2>2. /\ 1 \in DOMAIN actions /\ todo' = actions[1] /\ Vectors' = Vectors - 1
        /\ \A i \in DOMAIN actions' : i + 1 \in DOMAIN actions
                                      /\ actions'[i] = actions[i + 1]
    BY <2>1, TailElements DEF TypeOK, Vectors
  <2>3. InTodo = 0
    BY <2>1 DEF InTodo, Bearing, Count
  <2>4. Weight' <= Weight
    BY <1>1, <1>2, <2>1, <2>2, <2>3 DEF Measured, Weight
  <2>5. Sparse(todo') /\ \A i \in DOMAIN actions' : Sparse(actions'[i])
    BY <2>2 DEF Answered
  <2>6. QED
    BY <2>1, <2>4, <2>5, LighterOrEqual DEF Answered
<1>7. CASE Sends
  <2>1. Consumes(<<>>)
    BY <1>7, SendsConsume
  <2>2. UNCHANGED coreVars
    <3>1. todo # <<>> /\ Head(todo) = todo[1] /\ 1 \in DOMAIN todo /\ Head(todo) \in Ops
      BY <2>1, TailElements DEF Consumes, TypeOK
    <3>2. Head(todo) # GetEpoch
      BY <3>1 DEF Answered, Sparse
    <3>3. Does("core") => Arg # "GetEpoch"
      BY <3>1, <3>2 DEF Does, Arg, GetEpoch, Ops, StopTimer, InitTimer, CalculateQuorum, Op
    <3>4. QED
      BY <1>7, <3>3 DEF Sends, SendsEvent, SendsTimerCommand, SendsToCore,
                        SendsHeartbeatMode, SendsEdgeState, coreVars
  <2>3. <<>> \in Seq(Ops) /\ Sparse(<<>>)
    BY DEF Sparse
  <2>4. PICK sends \in Seq(Ops) : sends = <<>>
    BY <2>3
  <2>5. \A i \in DOMAIN sends : Bears(sends[i]) => Bears(Head(todo))
    BY <2>4
  <2>6. QED
    BY <2>1, <2>2, <2>3, <2>4, <2>5, AnsweredConsumes
<1>8. CASE handle_action
  <2>1. todo # <<>> /\ Head(todo) = todo[1] /\ 1 \in DOMAIN todo
    BY <1>8, HandleReplies, TailElements DEF TypeOK
  <2>2. Head(todo) # AskEpoch
    BY <2>1 DEF Answered, Sparse
  <2>3. PICK sends \in Seq(Ops) :
           /\ Executes(sends) /\ Consumes(sends) /\ Sparse(sends)
           /\ \A i \in DOMAIN sends : Bears(sends[i]) => Bears(Head(todo))
    BY <1>8, <2>2, HandleBears
  <2>4. Head(todo).do \notin {"fsm", "timer"}
    BY <1>8, <2>2, HandleBears
  <2>5. UNCHANGED coreVars
    BY <2>3 DEF Executes
  <2>6. QED
    BY <2>3, <2>4, <2>5, AnsweredConsumes
<1>9. CASE step_inner
  BY <1>9, AnsweredMachine
<1>10. CASE RunFsmSendsActions
  <2>1. /\ fsmOut # <<>> /\ actions' = Append(actions, Head(fsmOut)) /\ fsmOut' = <<>>
        /\ UNCHANGED <<epoch, fsm, todo>>
        /\ UNCHANGED <<Received, Queued, InTodo, Inits(cmds), Sleeping>>
    BY <1>10 DEF RunFsmSendsActions, coreVars, timerVars, Received, Queued, InTodo, Inits,
                 Sleeping
  <2>2. DOMAIN fsmOut = {1} /\ fsmOut[1] \in Seq(Ops) /\ Head(fsmOut) = fsmOut[1]
    BY <2>1, SoleElement DEF TypeOK
  <2>3. /\ Vector = 1 /\ Vector' = 0 /\ Vectors' = Vectors + 1
    BY <2>1, <2>2 DEF Vector, Vectors, TypeOK
  <2>4. \A i \in DOMAIN actions' : Sparse(actions'[i])
    <3>1. actions \in Seq(Seq(Ops)) /\ actions' = Append(actions, fsmOut[1])
      BY <2>1, <2>2 DEF TypeOK
    <3>2. /\ \A i \in DOMAIN actions : actions'[i] = actions[i]
          /\ actions'[Len(actions) + 1] = fsmOut[1]
          /\ DOMAIN actions = 1 .. Len(actions) /\ Len(actions) \in Nat
          /\ DOMAIN actions' = 1 .. (Len(actions) + 1)
      BY ONLY <2>2, <3>1, AppendElements
    <3>3. \A i \in DOMAIN actions' : i \in DOMAIN actions \/ i = Len(actions) + 1
      BY <3>2
    <3>4. QED
      BY <2>2, <3>2, <3>3 DEF Answered
  <2>5. Weight' <= Weight
    BY <1>1, <1>2, <2>1, <2>3 DEF Measured, Weight
  <2>6. \A i \in DOMAIN fsmOut' : Sparse(fsmOut'[i])
    BY <2>1
  <2>7. QED
    BY <2>1, <2>4, <2>5, <2>6, LighterOrEqual DEF Answered
<1>11. CASE fsm_watchdog_timer
  BY <1>11, AnsweredTimer
<1>12. CASE UNCHANGED vars
  <2>1. /\ UNCHANGED <<epoch, fsm, todo, actions, fsmOut>>
        /\ UNCHANGED <<Received, Queued, Vector, Vectors, InTodo, Inits(cmds), Sleeping>>
    BY <1>12 DEF vars, coreVars, fsmVars, timerVars, Received, Queued, Vector, Vectors,
                 InTodo, Inits, Sleeping
  <2>2. Weight' <= Weight
    BY <1>1, <1>2, <2>1 DEF Measured, Weight
  <2>3. QED
    BY <2>1, <2>2, LighterOrEqual DEF Answered
<1>13. QED
  BY <1>3, <1>4, <1>5, <1>6, <1>7, <1>8, <1>9, <1>10, <1>11, <1>12
     DEF Next, TakesCommand, Sends

\* The places of the announcements on the path.
LEMMA AnnouncementRanks ==
  /\ Rank("nothing") = 1
  /\ \A label \in {"in", "out", "alert", "data", "monitor"} : Rank(label) \in 2 .. 6
<1>1. /\ DOMAIN Announcements = 1 .. 6
      /\ Announcements[1] = "nothing" /\ Announcements[2] = "in"
      /\ Announcements[3] = "alert" /\ Announcements[4] = "data"
      /\ Announcements[5] = "monitor" /\ Announcements[6] = "out"
  BY DEF Announcements
<1>2. \A i \in 1 .. 6 : i \in {1, 2, 3, 4, 5, 6}
  OBVIOUS
<1>3. ASSUME NEW a, NEW i \in 1 .. 6, Announcements[i] = a,
             \A j \in 1 .. 6 : Announcements[j] = a => j = i
      PROVE  Rank(a) = i
  BY <1>1, <1>3 DEF Rank
<1>4. Rank("nothing") = 1 /\ Rank("in") = 2 /\ Rank("alert") = 3
  BY <1>1, <1>2, <1>3
<1>5. Rank("data") = 4 /\ Rank("monitor") = 5 /\ Rank("out") = 6
  BY <1>1, <1>2, <1>3
<1>6. QED
  BY <1>4, <1>5

\* Until the Data service has answered only the question is under way, so that
\* its answer is the first load.
LEMMA AskingStep ==
  ASSUME TypeOK, TypeOK', Hierarchy, Asking, [Next]_vars
  PROVE  LoadInv'
<1>1. /\ commands = <<>> /\ events = <<>> /\ cmds = <<>> /\ timer = "idle"
      /\ announced = "nothing" /\ session.state = None
  BY DEF Asking
<1>2. /\ AskEpoch.do = "OnEntryBalance" /\ AskEpoch.arg = "InitBalanceMode"
      /\ GetEpoch.do = "core" /\ GetEpoch.arg = "GetEpoch"
  BY DEF AskEpoch, GetEpoch, Op
<1>3. todo # <<>> =>
        /\ epoch = "unasked" /\ In({"InitBalanceMode"}) /\ fsmOut = <<>> /\ actions = <<>>
        /\ todo \in {<<AskEpoch>>, <<GetEpoch>>}
  BY DEF Asking
<1> DEFINE One(op) == <<op>>
<1>0. \A op : /\ Head(One(op)) = op /\ Tail(One(op)) = <<>>
              /\ One(op) \o <<>> = One(op)
  OBVIOUS
<1>4. CASE DataAnswers
  <2>1. /\ epoch = "asked" /\ In({"InitBalanceMode"})
        /\ fsmOut = <<>> /\ actions = <<>> /\ todo = <<>>
    BY <1>4 DEF DataAnswers, Asking
  <2>2. /\ epoch' = "answered"
        /\ UNCHANGED <<fsm, fsmOut, actions, todo, events, cmds, timer>>
    BY <1>4 DEF DataAnswers, Command, fsmVars, timerVars
  <2>3. PICK answer : Command(answer)
    BY <1>4 DEF DataAnswers
  <2>4. Received' = 1
    BY <1>1, <2>3 DEF Command, Received, TypeOK
  <2>5. Inits(cmds)' = 0
    <3>1. {i \in DOMAIN cmds' : cmds'[i] = "InitTimer"} = {}
      BY <1>1, <2>2
    <3>2. QED
      BY <3>1, FS_EmptySet DEF Inits
  <2>6. Queued' = 0 /\ Vector' = 0 /\ Vectors' = 0 /\ InTodo' = 0 /\ Sleeping' = 0
    BY <1>1, <2>1, <2>2 DEF Queued, Vector, Vectors, InTodo, Bearing, Count, Sleeping
  <2>7. Weight' = 1
    BY <2>4, <2>5, <2>6 DEF Weight
  <2>8. Weight' <= Limit'
    BY <2>7, BurstAssumption DEF Limit
  <2>9. fsm.global # "Start"
    BY <2>1 DEF In
  <2>10. /\ Sparse(todo') /\ \A i \in DOMAIN actions' : Sparse(actions'[i])
         /\ \A i \in DOMAIN fsmOut' : Sparse(fsmOut'[i])
    BY <2>1, <2>2 DEF Sparse
  <2>11. QED
    BY <2>2, <2>8, <2>9, <2>10 DEF Answered, LoadInv
<1>5. CASE HubSends
  <2>1. \A label \in {"in", "out", "alert", "data", "monitor"} : ~Heard(label)
    BY <1>1, AnnouncementRanks DEF Heard
  <2>2. QED
    BY <1>1, <1>5, <2>1 DEF HubSends, None
<1>6. CASE TakesCommand
  BY <1>1, <1>6 DEF TakesCommand, TakesHandshake, quorum_phase, quorum_safe_mode,
                    TakesErrorEpoch, TakesEpoch, Receives
<1>7. CASE TakesActions
  <2>1. /\ actions # <<>> /\ todo' = Head(actions) /\ actions' = Tail(actions)
        /\ UNCHANGED <<coreVars, session, told, events, fsm, fsmOut, timerVars>>
    BY <1>7 DEF TakesActions
  <2>2. /\ epoch = "unasked" /\ In({"InitBalanceMode"})
        /\ fsmOut = <<>> /\ actions = << <<AskEpoch>> >>
    BY <2>1 DEF Asking
  <2>3. todo' = <<AskEpoch>> /\ actions' = <<>>
    BY <2>1, <2>2
  <2>4. QED
    BY <1>1, <2>1, <2>2, <2>3
       DEF Asking, LoadInv, coreVars, told, timerVars, In, Leaf
<1>8. CASE Sends
  <2>1. todo # <<>> /\ (Does("fsm") \/ Does("timer") \/ Does("core") \/ Does("heartbeat")
                          \/ Does("edge"))
    BY <1>8 DEF Sends, SendsEvent, SendsTimerCommand, SendsToCore, SendsHeartbeatMode,
                SendsEdgeState, Does
  <2>2. Head(todo) = GetEpoch /\ Tail(todo) = <<>>
    <3>1. todo \in {One(AskEpoch), One(GetEpoch)}
      BY <1>3, <2>1
    <3>2. Head(todo) # AskEpoch
      BY <1>2, <2>1 DEF Does
    <3> HIDE DEF One
    <3>3. QED
      BY <1>0, <3>1, <3>2
  <2>3. SendsToCore
    BY <1>2, <1>8, <2>2 DEF Sends, SendsEvent, SendsTimerCommand, SendsHeartbeatMode,
                            SendsEdgeState, Does
  <2>4. epoch' = "asked" /\ announced' = announced /\ todo' = <<>>
    BY <1>2, <2>2, <2>3, LabelsAre DEF SendsToCore, Arg
  <2>5. QED
    BY <1>1, <1>3, <2>1, <2>3, <2>4
       DEF SendsToCore, Asking, LoadInv, fsmVars, timerVars, In, Leaf
<1>9. CASE handle_action
  <2>1. todo # <<>> /\ Head(todo) \in Ops
    BY <1>9, HandleReplies
  <2>2. /\ \/ OnEntryInitBalanceMode
           \/ Does("OnEntryBalance") /\ Arg # "InitBalanceMode"
           \/ Does("OnEntryQuorum") \/ Does("CalculateQuorum")
           \/ Does("OnEntryPhase") \/ Does("OnEntryNormal") \/ Does("OnEntrySafeMode")
    BY <1>9 DEF handle_action, on_entry_in_handshake,
         on_entry_out_handshake, OnEntryOtherBalance, OnEntryCheckQuorum,
         on_entry_repeat_handshake, DoCalculateQuorum, OnEntryPhase,
         on_entry_normal, on_entry_safe_mode
  <2>3. Head(todo) \in {AskEpoch, GetEpoch} /\ Tail(todo) = <<>>
    <3>1. todo \in {One(AskEpoch), One(GetEpoch)}
      BY <1>3, <2>1
    <3> HIDE DEF One
    <3>2. QED
      BY <1>0, <3>1
  <2>4. OnEntryInitBalanceMode
    BY <1>2, <2>2, <2>3 DEF Does, Arg
  <2>5. todo' = One(GetEpoch) \o <<>>
    BY <2>3, <2>4 DEF OnEntryInitBalanceMode, Executes, GetEpoch
  <2>6. todo' = <<GetEpoch>>
    BY <1>0, <2>5
  <2>7. QED
    BY <1>1, <1>3, <2>1, <2>4, <2>6
       DEF OnEntryInitBalanceMode, Executes, Asking, LoadInv, coreVars, told, fsmVars,
           timerVars, In, Leaf
<1>10. CASE step_inner
  <2>1. /\ UNCHANGED <<coreVars, session, todo, told, actions, timerVars>>
        /\ events' = events /\ fsm.global = "Start"
        /\ fsm'.global = "BalanceMode" /\ fsm'.balance = "InitBalanceMode"
        /\ fsmOut' = << <<AskEpoch>> >>
    BY <1>1, <1>10, StepVectors DEF StepKinds, TakesAnEvent, AskEpoch
  <2>2. epoch = "unasked" /\ actions = <<>> /\ todo = <<>>
    BY <2>1 DEF Asking, In
  <2>3. In({"InitBalanceMode"})'
    BY <2>1 DEF In, Leaf
  <2>4. QED
    BY <1>1, <2>1, <2>2, <2>3 DEF Asking, LoadInv, coreVars, told, timerVars
<1>11. CASE RunFsmSendsActions
  <2>1. /\ fsmOut # <<>> /\ actions' = Append(actions, Head(fsmOut)) /\ fsmOut' = <<>>
        /\ UNCHANGED <<coreVars, session, todo, told, events, fsm, timerVars>>
    BY <1>11 DEF RunFsmSendsActions
  <2>2. /\ epoch = "unasked" /\ In({"InitBalanceMode"})
        /\ fsmOut = << <<AskEpoch>> >> /\ actions = <<>> /\ todo = <<>>
    BY <2>1 DEF Asking
  <2>3. actions' = << <<AskEpoch>> >>
    BY <2>1, <2>2
  <2>4. QED
    BY <1>1, <2>1, <2>2, <2>3
       DEF Asking, LoadInv, coreVars, told, timerVars, In, Leaf
<1>12. CASE fsm_watchdog_timer
  BY <1>1, <1>12 DEF fsm_watchdog_timer, W!TimerStep, W!TimerTakesCommand,
                     W!TimerTakesCommandAsleep, W!TimerExpires, W!TimerSendsTimeout, W!Asleep
<1>13. CASE UNCHANGED vars
  BY <1>13 DEF vars, coreVars, told, fsmVars, timerVars, Asking, LoadInv, In, Leaf
<1>14. QED
  BY <1>4, <1>5, <1>6, <1>7, <1>8, <1>9, <1>10, <1>11, <1>12, <1>13
     DEF Next, TakesCommand, Sends

\* The coordinator and the state machine never wait for each other (fsm/logic.rs
\* 92-509 against 1010-1024) while the load is at most one more than both
\* channels hold: each of them full, one message to send on either side, and the
\* load that would have made it so is one more.
THEOREM NoCircularWaitHolds ==
  ASSUME Burst <= 2 * Cap + 1
  PROVE  Spec => []NoCircularWait
<1>1. Init => LoadInv
  BY DEF Init, LoadInv, Asking
<1>2. TypeOK /\ TypeOK' /\ Hierarchy /\ LoadInv /\ [Next]_vars => LoadInv'
  BY AskingStep, AnsweredStep DEF LoadInv
<1>3. TypeOK /\ LoadInv => NoCircularWait
  <2>1. SUFFICES ASSUME TypeOK, LoadInv, Does("fsm"), Len(events) = Cap,
                        fsmOut # <<>>, Len(actions) = Cap
                 PROVE  FALSE
    BY DEF NoCircularWait
  <2>2. Measured
    BY <2>1, WeightIs
  <2>3. CASE Asking
    <3>1. Len(events) = 0
      BY <2>3 DEF Asking
    <3>2. QED
      BY <2>1, <3>1, CapAssumption
  <2>4. CASE Answered
    <3>1. InTodo = 1
      <4>1. 1 \in DOMAIN todo /\ Head(todo) = todo[1]
        BY <2>1, TailElements DEF Does, TypeOK
      <4>2. Bears(todo[1])
        BY <2>1, <4>1 DEF Does, Bears
      <4>3. QED
        BY <4>1, <4>2 DEF InTodo, Bearing, Count
    <3>2. Vector = 1 /\ Queued = Cap /\ Vectors = Cap
      <4>1. Len(fsmOut) = 1
        <5>1. fsmOut \in Seq(Seq(Ops)) /\ Len(fsmOut) <= 1 /\ fsmOut # <<>>
          BY <2>1 DEF TypeOK
        <5>2. 1 \in DOMAIN fsmOut /\ DOMAIN fsmOut = 1 .. Len(fsmOut)
              /\ Len(fsmOut) \in Nat
          BY ONLY <5>1, TailElements
        <5>3. QED
          BY <5>1, <5>2
      <4>2. QED
        BY <2>1, <4>1 DEF Vector, Queued, Vectors
    <3>3. Weight <= Limit
      BY <2>4 DEF Answered
    <3>4. Weight >= 2 * Cap + 2 /\ Limit <= 2 * Cap + 1
      BY <2>2, <3>1, <3>2, CapAssumption, BurstAssumption DEF Measured, Weight, Limit
    <3>5. QED
      BY <2>2, <3>3, <3>4, CapAssumption, BurstAssumption DEF Measured, Weight, Limit
  <2>5. QED
    BY <2>1, <2>3, <2>4 DEF LoadInv
<1>4. QED
  BY <1>1, <1>2, <1>3, TypeCorrect, HierarchyHolds, PTL DEF Spec
=============================================================================
