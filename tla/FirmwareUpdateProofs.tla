------------------------- MODULE FirmwareUpdateProofs ------------------------
(***************************************************************************)
(* Proofs about the firmware updater, for every set of hubs, every channel *)
(* capacity and every number of Updates.                                   *)
(***************************************************************************)
EXTENDS FirmwareUpdate, FiniteSetTheorems, SequenceTheorems, TLAPS

Messages == {Update} \cup [kind : {"HubResponse"}, hub : Hubs, ok : {"yes", "no"}]
Ops      == {StopTimer, InitTimer, Report} \cup [do : {"HubCommand"}, arg : Hubs]
HubStatus == [id : Hubs, ok : {"yes", "no"}]

TypeOK ==
    /\ runtime \in {"some", "none"}
    /\ updates \in 0..MaxUpdates
    /\ msgs \in Seq(Messages) /\ Len(msgs) <= Cap
    /\ task \in {"select", "fetching", "crashed"}
    /\ todo \in Seq(Ops)
    /\ state \in {"Sleeping", "Working"}
    /\ process \in Seq(HubStatus)
    /\ index \in 0..Len(process) /\ (task = "fetching" => process = <<>>)
    /\ asked \in SUBSET Hubs
    /\ timer \in W!TimerStates
    /\ cmds \in Seq(W!Commands) /\ Len(cmds) <= Cap
    /\ timeouts \in Seq({"Timeout"}) /\ Len(timeouts) <= Cap

LEMMA SendIsTyped ==
  ASSUME NEW S, NEW q \in Seq(S), NEW x \in S, Len(q) < Cap
  PROVE  Append(q, x) \in Seq(S) /\ Len(Append(q, x)) <= Cap
BY CapAssumption

LEMMA ReceiveIsTyped ==
  ASSUME NEW S, NEW q \in Seq(S), q # <<>>
  PROVE  /\ Head(q) \in S /\ Tail(q) \in Seq(S)
         /\ \A n \in Nat : Len(q) <= n => Len(Tail(q)) <= n
OBVIOUS

\* The order in which the hubs of a network are taken is a sequence of hubs,
\* and not the empty one.
LEMMA OrdersAreSequences ==
  ASSUME NEW S \in (SUBSET Hubs) \ {{}}, NEW ids \in Orders(S)
  PROVE  /\ ids \in Seq(Hubs) /\ Len(ids) > 0
         /\ \E h \in S : ids[1] = h
<1>1. IsFiniteSet(S)
  BY HubsAssumption, FS_Subset
<1>2. Cardinality(S) \in Nat /\ Cardinality(S) # 0
  BY <1>1, FS_CardinalityType, FS_EmptySet
<1>3. ids \in [1..Cardinality(S) -> S]
  BY DEF Orders
<1>4. ids \in Seq(S) /\ Len(ids) = Cardinality(S)
  BY <1>2, <1>3
<1>5. ids \in Seq(Hubs)
  BY <1>4
<1>6. ids[1] \in S
  BY <1>2, <1>4
<1>7. QED
  BY <1>2, <1>4, <1>5, <1>6

LEMMA ThreeSends ==
  ASSUME NEW a \in Ops, NEW b \in Ops, NEW c \in Ops
  PROVE  <<a, b, c>> \in Seq(Ops)
OBVIOUS

\* Settling a hub keeps every type: what it plans are well-formed sends.
LEMMA SettlesTyped ==
  ASSUME TypeOK, NEW ok \in {"yes", "no"}, index < Len(process), Settles(ok)
  PROVE  /\ todo' \in Seq(Ops) /\ state' \in {"Sleeping", "Working"}
         /\ process' \in Seq(HubStatus) /\ Len(process') = Len(process)
         /\ index' = index + 1 /\ index' \in 0..Len(process')
<1>1. /\ process \in Seq(HubStatus) /\ index \in Nat /\ Len(process) \in Nat
      /\ index + 1 \in DOMAIN process
  BY DEF TypeOK
<1>2. /\ process' \in Seq(HubStatus) /\ Len(process') = Len(process)
      /\ index' = index + 1
      /\ index' \in 0..Len(process')
  <2>1. process[index + 1] \in HubStatus
    BY <1>1
  <2>2. [process[index + 1] EXCEPT !.ok = ok] \in HubStatus
    BY <2>1 DEF HubStatus
  <2>3. process' = [process EXCEPT ![index + 1] =
                       [process[index + 1] EXCEPT !.ok = ok]]
    BY DEF Settles
  <2>4. process' \in Seq(HubStatus) /\ Len(process') = Len(process)
    BY <1>1, <2>2, <2>3, ExceptSeq
  <2>5. QED
    BY <1>1, <2>4 DEF Settles
<1>3. CASE index' < Len(process)
  <2>1. process'[index' + 1].id \in Hubs
    <3>1. index' + 1 \in 1..Len(process')
      BY <1>1, <1>2, <1>3
    <3>2. process'[index' + 1] \in HubStatus
      BY <1>2, <3>1, ElementOfSeq
    <3>3. QED
      BY <3>2 DEF HubStatus
  <2>2. /\ todo' = <<StopTimer, Request(process'[index' + 1].id), InitTimer>>
        /\ state' = state
    BY <1>2, <1>3 DEF Settles
  <2>3. PICK r \in Ops : todo' = <<StopTimer, r, InitTimer>>
    BY <2>1, <2>2 DEF Ops, Request, Op
  <2>4. StopTimer \in Ops /\ InitTimer \in Ops
    BY DEF Ops
  <2>5. todo' \in Seq(Ops)
    BY <2>3, <2>4, ThreeSends
  <2>6. QED
    BY <1>2, <2>2, <2>5 DEF TypeOK
<1>4. CASE ~ (index' < Len(process))
  <2>1. todo' = <<StopTimer, Report>> /\ state' = "Sleeping"
    BY <1>2, <1>4 DEF Settles
  <2>2. StopTimer \in Ops /\ Report \in Ops
    BY DEF Ops
  <2>3. todo' \in Seq(Ops)
    BY <2>1, <2>2
  <2>4. QED
    BY <1>2, <2>1, <2>3
<1>5. QED
  BY <1>2, <1>3, <1>4

\* Every variable keeps its type, no channel exceeds its capacity, and index
\* never passes the end of the vector.
THEOREM TypeCorrect == Spec => []TypeOK
<1> USE CapAssumption, UpdatesAssumption DEF sessionVars, timerVars
<1>1. Init => TypeOK
  BY DEF Init, Fresh, TypeOK, Ops, W!TimerStates
<1>2. TypeOK /\ [Next]_vars => TypeOK'
  <2> SUFFICES ASSUME TypeOK, [Next]_vars PROVE TypeOK'
    OBVIOUS
  <2>0. /\ StopTimer \in Ops /\ Report \in Ops /\ InitTimer \in Ops
        /\ Update \in Messages
        /\ \A h \in Hubs : Request(h) \in Ops
        /\ \A h \in Hubs, ok \in {"yes", "no"} : HubResponse(h, ok) \in Messages
    BY DEF Ops, Messages, Request, Op, HubResponse
  <2>1. ASSUME NEW m \in Messages, Forward(m)
        PROVE  /\ msgs' \in Seq(Messages) /\ Len(msgs') <= Cap
               /\ UNCHANGED <<runtime, task, todo, sessionVars, asked, timerVars>>
    <3>1. UNCHANGED <<runtime, task, todo, sessionVars, asked, timerVars>>
      BY <2>1 DEF Forward
    <3>2. CASE Len(msgs) < Cap /\ msgs' = Append(msgs, m)
      <4>1. msgs \in Seq(Messages)
        BY DEF TypeOK
      <4>2. QED
        BY <3>1, <3>2, <4>1, SendIsTyped
    <3>3. CASE msgs' = msgs
      BY <3>1, <3>3 DEF TypeOK
    <3>4. QED
      BY <2>1, <3>2, <3>3 DEF Forward
  <2>2. CASE ServerUpdates
    BY <2>0, <2>1, <2>2 DEF ServerUpdates, TypeOK
  <2>3. CASE HubAnswers
    <3>1. PICK h \in asked, ok \in {"yes", "no"} : Forward(HubResponse(h, ok))
      BY <2>3 DEF HubAnswers
    <3>2. HubResponse(h, ok) \in Messages
      BY <2>0 DEF TypeOK
    <3>3. updates' = updates
      BY <2>3 DEF HubAnswers
    <3>4. QED
      BY <2>1, <3>1, <3>2, <3>3 DEF TypeOK
  <2>4. CASE DeleteRuntime
    BY <2>4 DEF DeleteRuntime, TypeOK, W!TimerStates
  <2>5. CASE CreateRuntime
    BY <2>0, <2>5 DEF CreateRuntime, TypeOK
  <2>6. CASE TakesUpdate
    BY <2>6, ReceiveIsTyped DEF TakesUpdate, TypeOK
  <2>7. CASE get_firmware_version_Ok
    <3>1. PICK S \in (SUBSET Hubs) \ {{}} : \E ids \in Orders(S) :
                 /\ process' = [i \in DOMAIN ids |-> Status(ids[i], "no")]
                 /\ todo' = <<Request(ids[1]), InitTimer>>
      BY <2>7 DEF get_firmware_version_Ok
    <3>2. PICK ids \in Orders(S) :
                 /\ process' = [i \in DOMAIN ids |-> Status(ids[i], "no")]
                 /\ todo' = <<Request(ids[1]), InitTimer>>
      BY <3>1
    <3>3. ids \in Seq(Hubs) /\ Len(ids) > 0 /\ ids[1] \in Hubs
      BY OrdersAreSequences
    <3>4. process' \in Seq(HubStatus) /\ Len(process') = Len(ids)
      <4>1. \A i \in DOMAIN ids : Status(ids[i], "no") \in HubStatus
        BY <3>3 DEF Status, HubStatus
      <4>2. DOMAIN ids = 1..Len(ids) /\ Len(ids) \in Nat
        BY <3>3
      <4>3. QED
        BY <3>2, <4>1, <4>2
    <3>5. todo' \in Seq(Ops)
      BY <2>0, <3>2, <3>3
    <3>6. index' = 0 /\ index' \in 0..Len(process')
      <4>1. index \in 0..Len(process) /\ process = <<>> /\ index' = index
        BY <2>7 DEF get_firmware_version_Ok, TypeOK
      <4>2. QED
        BY <3>3, <3>4, <4>1
    <3>7. QED
      BY <2>7, <3>4, <3>5, <3>6 DEF get_firmware_version_Ok, TypeOK
  <2>8. CASE get_firmware_version_Fails
    BY <2>0, <2>8 DEF get_firmware_version_Fails, TypeOK
  <2>9. CASE TakesHubResponse
    <3>1. /\ Head(msgs) \in Messages /\ Head(msgs).kind = "HubResponse"
          /\ msgs' \in Seq(Messages) /\ Len(msgs') <= Cap
          /\ UNCHANGED <<runtime, updates, task, asked, timerVars>>
          /\ task = "select"
      BY <2>9, ReceiveIsTyped DEF TakesHubResponse, AtSelect, TypeOK
    <3>2. CASE HubsTurn(Head(msgs).hub)
      <4>1. Head(msgs).ok \in {"yes", "no"}
        BY <3>1 DEF Messages, Update
      <4>2. Settles(Head(msgs).ok) /\ index < Len(process)
        BY <2>9, <3>2 DEF TakesHubResponse, HubsTurn
      <4>3. QED
        BY <3>1, <4>1, <4>2, SettlesTyped DEF TypeOK
    <3>3. CASE ~ HubsTurn(Head(msgs).hub)
      BY <2>9, <3>1, <3>3 DEF TakesHubResponse, TypeOK
    <3>4. QED
      BY <3>2, <3>3
  <2>10. CASE TakesTimeout
    <3>1. /\ timeouts' \in Seq({"Timeout"}) /\ Len(timeouts') <= Cap
          /\ UNCHANGED <<runtime, updates, msgs, asked, timer, cmds>>
          /\ task = "select"
      BY <2>10, ReceiveIsTyped DEF TakesTimeout, AtSelect, TypeOK
    <3>2. CASE index < Len(process)
      <4>1. Settles("no") /\ task' = task
        BY <2>10, <3>2 DEF TakesTimeout
      <4>2. QED
        BY <3>1, <3>2, <4>1, SettlesTyped DEF TypeOK
    <3>3. CASE ~ (index < Len(process))
      BY <2>10, <3>1, <3>3 DEF TakesTimeout, TypeOK
    <3>4. QED
      BY <3>2, <3>3
  <2>11. ASSUME NEW do, Running(do)
         PROVE  Head(todo) \in Ops /\ Tail(todo) \in Seq(Ops) /\ Head(todo).do = do
    BY <2>11, ReceiveIsTyped DEF Running, TypeOK
  <2>12. CASE SendsHubCommand
    <3>1. Head(todo).arg \in Hubs
      BY <2>11, <2>12 DEF SendsHubCommand, Ops, StopTimer, InitTimer, Report, Op
    <3>2. QED
      BY <2>11, <2>12, <3>1 DEF SendsHubCommand, TypeOK
  <2>13. CASE SendsServerAck
    BY <2>11, <2>13 DEF SendsServerAck, TypeOK
  <2>14. CASE SendsTimerCommand
    <3>1. Head(todo).arg \in W!Commands
      BY <2>11, <2>14 DEF SendsTimerCommand, Ops, StopTimer, InitTimer, Report, Op,
                          W!Commands
    <3>2. cmds' \in Seq(W!Commands) /\ Len(cmds') <= Cap
      BY <2>14, <3>1, SendIsTyped DEF SendsTimerCommand, TypeOK
    <3>3. QED
      BY <2>11, <2>14, <3>2 DEF SendsTimerCommand, TypeOK
  <2>15. CASE firmware_watchdog_timer
    <3>1. UNCHANGED <<runtime, updates, msgs, task, todo, sessionVars, asked>>
      BY <2>15 DEF firmware_watchdog_timer
    <3>2. CASE W!TimerTakesCommand \/ W!TimerTakesCommandAsleep
      <4>1. /\ cmds # <<>> /\ cmds' = Tail(cmds) /\ timeouts' = timeouts
            /\ timer' \in W!TimerStates
        BY <3>2 DEF W!TimerTakesCommand, W!TimerTakesCommandAsleep, W!TimerStates
      <4>2. QED
        BY <3>1, <4>1, ReceiveIsTyped DEF TypeOK
    <3>3. CASE W!TimerExpires
      BY <3>1, <3>3 DEF W!TimerExpires, W!TimerStates, TypeOK
    <3>4. CASE W!TimerSendsTimeout
      <4>1. timeouts' \in Seq({"Timeout"}) /\ Len(timeouts') <= Cap
        BY <3>4, SendIsTyped DEF W!TimerSendsTimeout, TypeOK
      <4>2. QED
        BY <3>1, <3>4, <4>1 DEF W!TimerSendsTimeout, W!TimerStates, TypeOK
    <3>5. QED
      BY <2>15, <3>2, <3>3, <3>4 DEF firmware_watchdog_timer, W!TimerStep
  <2>16. CASE UNCHANGED vars
    BY <2>16 DEF vars, TypeOK
  <2>17. QED
    BY <2>2, <2>3, <2>4, <2>5, <2>6, <2>7, <2>8, <2>9, <2>10, <2>12, <2>13,
       <2>14, <2>15, <2>16 DEF Next
<1>3. QED
  BY <1>1, <1>2, PTL DEF Spec
-----------------------------------------------------------------------------
(* The watchdog of a hub that has its turn.                                *)

HasInit(q) == \E j \in DOMAIN q : q[j] = InitTimer

\* While a hub has its turn, what stops its watchdog starts it again: behind
\* every StopTimer, planned or sent, there is an InitTimer.
PlannedStopsAreFollowed ==
    \A i \in DOMAIN todo : todo[i] = StopTimer =>
        \E j \in DOMAIN todo : j > i /\ todo[j] = InitTimer

StopsAreFollowed ==
    /\ PlannedStopsAreFollowed
    /\ \A i \in DOMAIN cmds : cmds[i] = "StopTimer" =>
           HasInit(todo) \/ \E j \in DOMAIN cmds : j > i /\ cmds[j] = "InitTimer"

TimedInv ==
    /\ runtime = "none" => state = "Sleeping"
    /\ state = "Working" /\ task = "select" => Armed /\ StopsAreFollowed

LEMMA SendKeepsElements ==
  ASSUME NEW S, NEW q \in Seq(S), NEW x \in S
  PROVE  /\ \A i \in DOMAIN q : i \in DOMAIN Append(q, x) /\ Append(q, x)[i] = q[i]
         /\ Len(q) + 1 \in DOMAIN Append(q, x) /\ Append(q, x)[Len(q) + 1] = x
         /\ DOMAIN Append(q, x) = DOMAIN q \cup {Len(q) + 1}
         /\ \A i \in DOMAIN q : i < Len(q) + 1
OBVIOUS

LEMMA ReceiveShiftsElements ==
  ASSUME NEW S, NEW q \in Seq(S), q # <<>>
  PROVE  /\ 1 \in DOMAIN q /\ Head(q) = q[1] /\ DOMAIN q \subseteq Nat
         /\ \A i \in DOMAIN q :
              i = 1 \/ (i - 1 \in DOMAIN Tail(q) /\ Tail(q)[i - 1] = q[i])
         /\ \A i \in DOMAIN Tail(q) :
              i + 1 > 1 /\ i + 1 \in DOMAIN q /\ Tail(q)[i] = q[i + 1]
OBVIOUS

\* A planned send that is done leaves what was behind it.
LEMMA PlanAdvances ==
  ASSUME todo \in Seq(Ops), todo # <<>>, todo' = Tail(todo)
  PROVE  /\ PlannedStopsAreFollowed =>
              PlannedStopsAreFollowed' /\ (Head(todo) = StopTimer => HasInit(todo'))
         /\ Head(todo) # InitTimer /\ HasInit(todo) => HasInit(todo')
<1>1. /\ 1 \in DOMAIN todo /\ Head(todo) = todo[1] /\ DOMAIN todo \subseteq Nat
      /\ \A i \in DOMAIN todo :
           i = 1 \/ (i - 1 \in DOMAIN todo' /\ todo'[i - 1] = todo[i])
      /\ \A i \in DOMAIN todo' :
           i + 1 > 1 /\ i + 1 \in DOMAIN todo /\ todo'[i] = todo[i + 1]
  BY ReceiveShiftsElements
<1>2. DOMAIN todo' \subseteq Nat
  BY ReceiveIsTyped, LenProperties
<1>3. ASSUME PlannedStopsAreFollowed, NEW i \in DOMAIN todo', todo'[i] = StopTimer
      PROVE  \E j \in DOMAIN todo' : j > i /\ todo'[j] = InitTimer
  <2>1. PICK j \in DOMAIN todo : j > i + 1 /\ todo[j] = InitTimer
    BY <1>1, <1>3 DEF PlannedStopsAreFollowed
  <2>2. j # 1 /\ j - 1 > i
    BY <1>1, <1>2, <2>1
  <2>3. QED
    BY <1>1, <2>1, <2>2
<1>4. ASSUME PlannedStopsAreFollowed, Head(todo) = StopTimer PROVE HasInit(todo')
  <2>1. PICK j \in DOMAIN todo : j > 1 /\ todo[j] = InitTimer
    BY <1>1, <1>4 DEF PlannedStopsAreFollowed
  <2>2. j # 1
    BY <1>1, <2>1
  <2>3. j - 1 \in DOMAIN todo' /\ todo'[j - 1] = InitTimer
    BY <1>1, <2>1, <2>2
  <2>4. QED
    BY <2>3 DEF HasInit
<1>5. ASSUME Head(todo) # InitTimer, HasInit(todo) PROVE HasInit(todo')
  <2>1. PICK j \in DOMAIN todo : todo[j] = InitTimer
    BY <1>5 DEF HasInit
  <2>2. j - 1 \in DOMAIN todo' /\ todo'[j - 1] = InitTimer
    BY <1>1, <1>5, <2>1
  <2>3. QED
    BY <2>2 DEF HasInit
<1>6. PlannedStopsAreFollowed => PlannedStopsAreFollowed'
  BY <1>3 DEF PlannedStopsAreFollowed, StopTimer, InitTimer
<1>7. QED
  BY <1>4, <1>5, <1>6

\* A hub is settled: the next one's InitTimer is planned, behind the StopTimer,
\* or the session is over.
LEMMA SettlesTimed ==
  ASSUME TypeOK, NEW ok \in {"yes", "no"}, index < Len(process), Settles(ok)
  PROVE  state' = "Working" => HasInit(todo') /\ PlannedStopsAreFollowed'
<1>1. CASE index' < Len(process)
  <2>1. PICK r : r # StopTimer /\ todo' = <<StopTimer, r, InitTimer>>
    <3>1. index' = index + 1 /\ index' < Len(process')
      BY <1>1, SettlesTyped
    <3>2. todo' = <<StopTimer, Request(process'[index' + 1].id), InitTimer>>
      BY <1>1, <3>1 DEF Settles
    <3>3. Request(process'[index' + 1].id) # StopTimer
      BY DEF Request, StopTimer, Op
    <3>4. QED
      BY <3>2, <3>3
  <2>2. DOMAIN todo' = 1..3 /\ todo'[2] = r /\ todo'[3] = InitTimer
    BY <2>1
  <2>3. InitTimer # StopTimer
    BY DEF StopTimer, InitTimer, Op
  <2>4. QED
    BY <2>1, <2>2, <2>3 DEF HasInit, PlannedStopsAreFollowed
<1>2. CASE ~ (index' < Len(process))
  BY <1>2 DEF Settles
<1>3. QED
  BY <1>1, <1>2

\* Commands the watchdog takes, and a timeout that is sent.
LEMMA WatchdogKeepsTimed ==
  ASSUME TypeOK, TimedInv, firmware_watchdog_timer
  PROVE  TimedInv'
<1>0. UNCHANGED <<runtime, state, task, todo>> /\ W!TimerStep
  BY DEF firmware_watchdog_timer, sessionVars
<1> SUFFICES ASSUME state = "Working", task = "select"
             PROVE  Armed' /\ StopsAreFollowed'
  BY <1>0 DEF TimedInv
<1>1. /\ Armed /\ StopsAreFollowed
      /\ cmds \in Seq(W!Commands) /\ timeouts \in Seq({"Timeout"})
  BY DEF TimedInv, TypeOK
<1>2. /\ InitTimer \in ElementsOf(todo) <=> HasInit(todo)
      /\ "InitTimer" \in ElementsOf(cmds) <=>
           \E j \in DOMAIN cmds : cmds[j] = "InitTimer"
  BY DEF ElementsOf, HasInit
<1>3. CASE W!TimerTakesCommand \/ W!TimerTakesCommandAsleep
  <2>1. /\ cmds # <<>> /\ cmds' = Tail(cmds) /\ timeouts' = timeouts
        /\ Head(cmds) = "InitTimer" => timer' # "idle"
        /\ timer # "idle" => timer' # "idle" \/ Head(cmds) = "StopTimer"
    BY <1>3 DEF W!TimerTakesCommand, W!TimerTakesCommandAsleep
  <2>2. /\ 1 \in DOMAIN cmds /\ Head(cmds) = cmds[1] /\ DOMAIN cmds \subseteq Nat
        /\ \A i \in DOMAIN cmds :
             i = 1 \/ (i - 1 \in DOMAIN cmds' /\ cmds'[i - 1] = cmds[i])
        /\ \A i \in DOMAIN cmds' :
             i + 1 > 1 /\ i + 1 \in DOMAIN cmds /\ cmds'[i] = cmds[i + 1]
    BY <1>1, <2>1, ReceiveShiftsElements
  <2>3. DOMAIN cmds' \subseteq Nat
    BY <1>1, <2>1, ReceiveIsTyped, LenProperties
  <2>4. StopsAreFollowed'
    <3>1. ASSUME NEW i \in DOMAIN cmds', cmds'[i] = "StopTimer", ~ HasInit(todo)
          PROVE  \E j \in DOMAIN cmds' : j > i /\ cmds'[j] = "InitTimer"
      <4>1. PICK j \in DOMAIN cmds : j > i + 1 /\ cmds[j] = "InitTimer"
        BY <1>1, <2>2, <3>1 DEF StopsAreFollowed
      <4>2. j # 1 /\ j - 1 > i
        BY <2>2, <2>3, <4>1
      <4>3. QED
        BY <2>2, <4>1, <4>2
    <3>2. QED
      BY <1>0, <1>1, <3>1 DEF StopsAreFollowed, PlannedStopsAreFollowed, HasInit
  <2>5. CASE HasInit(todo)
    BY <1>0, <1>2, <2>4, <2>5 DEF Armed, ElementsOf, HasInit
  <2>6. CASE Head(cmds) = "StopTimer" /\ ~ HasInit(todo)
    <3>1. PICK j \in DOMAIN cmds : j > 1 /\ cmds[j] = "InitTimer"
      BY <1>1, <2>2, <2>6 DEF StopsAreFollowed
    <3>2. QED
      BY <2>2, <2>4, <3>1 DEF Armed, ElementsOf
  <2>7. CASE Head(cmds) # "StopTimer" /\ ~ HasInit(todo)
    <3>1. CASE timer' # "idle" \/ timeouts # <<>>
      BY <2>1, <2>4, <3>1 DEF Armed
    <3>2. CASE timer' = "idle" /\ timeouts = <<>>
      <4>1. PICK j \in DOMAIN cmds : cmds[j] = "InitTimer"
        BY <1>1, <1>2, <2>1, <2>7, <3>2 DEF Armed
      <4>2. j # 1
        BY <2>1, <2>2, <3>2, <4>1
      <4>3. QED
        BY <2>2, <2>4, <4>1, <4>2 DEF Armed, ElementsOf
    <3>3. QED
      BY <3>1, <3>2
  <2>8. QED
    BY <2>5, <2>6, <2>7
<1>4. CASE W!TimerExpires
  BY <1>0, <1>1, <1>4 DEF W!TimerExpires, Armed, StopsAreFollowed,
      PlannedStopsAreFollowed, HasInit
<1>5. CASE W!TimerSendsTimeout
  <2>1. cmds' = cmds /\ timeouts' = Append(timeouts, "Timeout")
    BY <1>5 DEF W!TimerSendsTimeout
  <2>2. timeouts' # <<>>
    BY <1>1, <2>1
  <2>3. QED
    BY <1>0, <1>1, <2>1, <2>2 DEF Armed, StopsAreFollowed,
      PlannedStopsAreFollowed, HasInit
<1>6. QED
  BY <1>0, <1>3, <1>4, <1>5 DEF W!TimerStep

\* While a hub has its turn, the watchdog is running, has fired, or is about to
\* be started: for every interleaving of Updates, answers, timeouts and sends.
THEOREM SilentHubIsTimedHolds == Spec => []SilentHubIsTimed
<1>1. Init => TimedInv
  BY DEF Init, Fresh, TimedInv
<1>2. TypeOK /\ TimedInv /\ [Next]_vars => TimedInv'
  <2> SUFFICES ASSUME TypeOK, TimedInv, [Next]_vars PROVE TimedInv'
    OBVIOUS
  <2>0. /\ todo \in Seq(Ops) /\ cmds \in Seq(W!Commands)
        /\ runtime \in {"some", "none"}
        /\ InitTimer # StopTimer
    BY DEF TypeOK, InitTimer, StopTimer, Op
  <2>1. ASSUME UNCHANGED <<runtime, state, task, todo, timerVars>> PROVE TimedInv'
    BY <2>1 DEF TimedInv, Armed, StopsAreFollowed, PlannedStopsAreFollowed,
                HasInit, timerVars
  <2>2. ASSUME runtime' = runtime, runtime = "some",
               state' = "Working" /\ task' = "select" =>
                 HasInit(todo') /\ PlannedStopsAreFollowed'
        PROVE  TimedInv'
    <3>1. HasInit(todo') => Armed'
      BY DEF Armed, HasInit, ElementsOf
    <3>2. HasInit(todo') /\ PlannedStopsAreFollowed' => StopsAreFollowed'
      BY DEF StopsAreFollowed, HasInit
    <3>3. QED
      BY <2>2, <3>1, <3>2 DEF TimedInv
  <2>3. CASE ServerUpdates \/ HubAnswers
    BY <2>1, <2>3 DEF ServerUpdates, HubAnswers, Forward, sessionVars
  <2>4. CASE DeleteRuntime \/ CreateRuntime
    BY <2>4 DEF DeleteRuntime, CreateRuntime, TimedInv, sessionVars
  <2>5. CASE TakesUpdate
    BY <2>2, <2>5 DEF TakesUpdate, AtSelect
  <2>6. CASE get_firmware_version_Ok
    <3>1. PICK h : todo' = <<Request(h), InitTimer>>
      BY <2>6 DEF get_firmware_version_Ok
    <3>2. Request(h) # StopTimer
      BY DEF Request, StopTimer, Op
    <3>3. HasInit(todo') /\ PlannedStopsAreFollowed'
      BY <2>0, <3>1, <3>2 DEF HasInit, PlannedStopsAreFollowed
    <3>4. runtime' = runtime
      BY <2>6 DEF get_firmware_version_Ok
    <3>5. CASE runtime = "some"
      BY <2>2, <3>3, <3>4, <3>5
    <3>6. CASE runtime = "none"
      BY <2>6, <3>4, <3>6 DEF get_firmware_version_Ok, TimedInv
    <3>7. QED
      BY <2>0, <3>5, <3>6
  <2>7. CASE get_firmware_version_Fails
    BY <2>7 DEF get_firmware_version_Fails, TimedInv
  <2>8. CASE TakesHubResponse
    <3>1. runtime = "some" /\ UNCHANGED <<runtime, task, timerVars>>
      BY <2>8 DEF TakesHubResponse, AtSelect
    <3>2. CASE HubsTurn(Head(msgs).hub)
      <4>1. Head(msgs).ok \in {"yes", "no"}
        BY <2>8, ReceiveIsTyped DEF TakesHubResponse, TypeOK, Messages, Update
      <4>2. Settles(Head(msgs).ok) /\ index < Len(process)
        BY <2>8, <3>2 DEF TakesHubResponse, HubsTurn
      <4>3. QED
        BY <2>2, <3>1, <4>1, <4>2, SettlesTimed
    <3>3. CASE ~ HubsTurn(Head(msgs).hub)
      BY <2>1, <2>8, <3>1, <3>3 DEF TakesHubResponse, sessionVars
    <3>4. QED
      BY <3>2, <3>3
  <2>9. CASE TakesTimeout
    <3>1. runtime = "some" /\ runtime' = runtime
      BY <2>9 DEF TakesTimeout, AtSelect
    <3>2. CASE index < Len(process)
      BY <2>2, <2>9, <3>1, <3>2, SettlesTimed DEF TakesTimeout
    <3>3. CASE ~ (index < Len(process))
      BY <2>2, <2>9, <3>1, <3>3 DEF TakesTimeout
    <3>4. QED
      BY <3>2, <3>3
  <2>10. CASE SendsHubCommand \/ SendsServerAck
    <3>1. /\ runtime = "some" /\ todo # <<>> /\ todo' = Tail(todo)
          /\ Head(todo).do # "timer"
          /\ UNCHANGED <<runtime, task, state, timerVars>>
      BY <2>10 DEF SendsHubCommand, SendsServerAck, Running, sessionVars
    <3>2. Head(todo) # InitTimer
      BY <3>1 DEF InitTimer, Op
    <3>3. /\ PlannedStopsAreFollowed => PlannedStopsAreFollowed'
          /\ HasInit(todo) => HasInit(todo')
      BY <2>0, <3>1, <3>2, PlanAdvances
    <3>4. StopsAreFollowed => StopsAreFollowed'
      BY <3>1, <3>3 DEF StopsAreFollowed, timerVars
    <3>5. Armed => Armed'
      BY <3>1, <3>3 DEF Armed, ElementsOf, HasInit, timerVars
    <3>6. QED
      BY <3>1, <3>4, <3>5 DEF TimedInv
  <2>11. CASE SendsTimerCommand
    <3>1. /\ runtime = "some" /\ todo # <<>> /\ todo' = Tail(todo)
          /\ Head(todo).do = "timer" /\ cmds' = Append(cmds, Head(todo).arg)
          /\ UNCHANGED <<runtime, task, state, timer, timeouts>>
      BY <2>11 DEF SendsTimerCommand, Running, sessionVars
    <3>2. Head(todo) = StopTimer \/ Head(todo) = InitTimer
      <4>1. Head(todo) \in Ops
        BY <2>0, <3>1, ReceiveIsTyped
      <4>2. QED
        BY <3>1, <4>1 DEF Ops, Report, Op
    <3>3. /\ PlannedStopsAreFollowed => PlannedStopsAreFollowed'
          /\ PlannedStopsAreFollowed /\ Head(todo) = StopTimer => HasInit(todo')
      BY <2>0, <3>1, PlanAdvances
    <3> SUFFICES ASSUME state = "Working", task = "select"
                 PROVE  Armed' /\ StopsAreFollowed'
      BY <3>1 DEF TimedInv
    <3>4. PlannedStopsAreFollowed /\ PlannedStopsAreFollowed'
      BY <3>3 DEF TimedInv, StopsAreFollowed
    <3>5. CASE Head(todo) = StopTimer
      BY <2>2, <3>1, <3>3, <3>4, <3>5 DEF TimedInv
    <3>6. CASE Head(todo) = InitTimer
      <4>1. cmds' = Append(cmds, "InitTimer") /\ "InitTimer" \in W!Commands
        BY <3>1, <3>6 DEF InitTimer, Op, W!Commands
      <4>2. /\ Len(cmds) + 1 \in DOMAIN cmds' /\ cmds'[Len(cmds) + 1] = "InitTimer"
            /\ DOMAIN cmds' = DOMAIN cmds \cup {Len(cmds) + 1}
            /\ \A i \in DOMAIN cmds : i < Len(cmds) + 1
        BY <2>0, <4>1, SendKeepsElements
      <4>3. Armed'
        BY <4>2 DEF Armed, ElementsOf
      <4>4. StopsAreFollowed'
        BY <3>4, <4>2 DEF StopsAreFollowed
      <4>5. QED
        BY <4>3, <4>4
    <3>7. QED
      BY <3>2, <3>5, <3>6
  <2>12. CASE firmware_watchdog_timer
    BY <2>12, WatchdogKeepsTimed
  <2>13. CASE UNCHANGED vars
    BY <2>1, <2>13 DEF vars, sessionVars
  <2>14. QED
    BY <2>3, <2>4, <2>5, <2>6, <2>7, <2>8, <2>9, <2>10, <2>11, <2>12, <2>13
       DEF Next
<1>3. TimedInv => SilentHubIsTimed
  BY DEF TimedInv, SilentHubIsTimed
<1>4. QED
  BY <1>1, <1>2, <1>3, TypeCorrect, PTL DEF Spec
-----------------------------------------------------------------------------
(* The hubs that were asked.                                               *)

Asked == \A i \in 1..index : process[i].id \in asked

\* Every hub before the one whose turn it is was sent the request, and that one
\* was or is about to be; a session without a turn is complete, and only then
\* is it reported.
TurnInv ==
    /\ Asked
    /\ state = "Working" /\ task = "select" =>
         /\ index < Len(process)
         /\ \/ process[index + 1].id \in asked
            \/ \E j \in DOMAIN todo : todo[j] = Request(process[index + 1].id)
    /\ state = "Sleeping" => index = Len(process)
    /\ Report \in ElementsOf(todo) => state = "Sleeping"
    /\ runtime = "none" => state = "Sleeping"
    /\ task = "fetching" => state = "Working"

\* Settling the hub whose turn it is moves on from a hub that was asked.
LEMMA SettlesTurn ==
  ASSUME TypeOK, TurnInv, NEW ok \in {"yes", "no"}, AtSelect,
         index < Len(process), Settles(ok),
         UNCHANGED <<runtime, task, asked>>
  PROVE  TurnInv'
<1>1. /\ process \in Seq(HubStatus) /\ index \in Nat /\ Len(process) \in Nat
      /\ index + 1 \in 1..Len(process)
  BY DEF TypeOK
<1>2. /\ Len(process') = Len(process) /\ index' = index + 1
      /\ index' \in 0..Len(process') /\ state' \in {"Sleeping", "Working"}
  BY SettlesTyped
<1>3. \A i \in 1..Len(process) : process'[i].id = process[i].id
  <2>1. process' = [process EXCEPT ![index + 1] =
                       [process[index + 1] EXCEPT !.ok = ok]]
    BY DEF Settles
  <2>2. DOMAIN process = 1..Len(process)
    BY <1>1
  <2>3. \A i \in 1..Len(process) : process[i] \in HubStatus
    BY <1>1
  <2>4. QED
    BY <1>1, <2>1, <2>2, <2>3 DEF HubStatus
<1>4. state = "Working" /\ runtime = "some" /\ task = "select" /\ todo = <<>>
  <2>1. state = "Sleeping" => index = Len(process)
    BY DEF TurnInv
  <2>2. QED
    BY <1>1, <2>1 DEF AtSelect, TypeOK
<1>5. process[index + 1].id \in asked
  <2>1. ~ \E j \in DOMAIN todo : todo[j] = Request(process[index + 1].id)
    BY <1>4
  <2>2. QED
    BY <1>4, <2>1 DEF TurnInv
<1>6. Asked'
  <2> SUFFICES ASSUME NEW i \in 1..index' PROVE process'[i].id \in asked
    BY DEF Asked
  <2>1. i \in 1..Len(process) /\ (i \in 1..index \/ i = index + 1)
    BY <1>1, <1>2
  <2>2. QED
    BY <1>3, <1>5, <2>1 DEF TurnInv, Asked
<1>7. CASE index' < Len(process)
  <2>1. /\ todo' = <<StopTimer, Request(process'[index' + 1].id), InitTimer>>
        /\ state' = state
    BY <1>2, <1>7 DEF Settles
  <2>2. /\ DOMAIN todo' = 1..3 /\ todo'[1] = StopTimer /\ todo'[3] = InitTimer
        /\ todo'[2] = Request(process'[index' + 1].id)
    BY <2>1
  <2>3. Report # StopTimer /\ Report # InitTimer /\ \A h : Report # Request(h)
    BY DEF Report, StopTimer, InitTimer, Request, Op
  <2>4. Report \notin ElementsOf(todo')
    BY <2>2, <2>3 DEF ElementsOf
  <2>5. 2 \in DOMAIN todo'
    BY <2>2
  <2>6. QED
    BY <1>2, <1>4, <1>6, <1>7, <2>1, <2>2, <2>4, <2>5 DEF TurnInv
<1>8. CASE ~ (index' < Len(process))
  <2>1. state' = "Sleeping"
    BY <1>2, <1>8 DEF Settles
  <2>2. index' = Len(process')
    BY <1>1, <1>2, <1>8
  <2>3. QED
    BY <1>4, <1>6, <2>1, <2>2 DEF TurnInv
<1>9. QED
  BY <1>7, <1>8

LEMMA TurnStep ==
  ASSUME TypeOK, TurnInv, [Next]_vars
  PROVE  TurnInv'
<1> USE DEF sessionVars, timerVars
<1>0. ASSUME UNCHANGED <<runtime, state, process, index, todo, asked, task>>
      PROVE  TurnInv'
  BY <1>0 DEF TurnInv, Asked, ElementsOf
<1>1. CASE ServerUpdates \/ HubAnswers
  BY <1>0, <1>1 DEF ServerUpdates, HubAnswers, Forward
<1>2. CASE DeleteRuntime
  BY <1>2 DEF DeleteRuntime, TurnInv, Asked, ElementsOf
<1>3. CASE CreateRuntime
  BY <1>3 DEF CreateRuntime, TurnInv, Asked
<1>4. CASE TakesUpdate
  <2>1. /\ runtime' = "some" /\ task' = "fetching" /\ index' = 0
        /\ state' = "Working" /\ todo' = <<>>
    BY <1>4 DEF TakesUpdate, AtSelect
  <2>2. Report \notin ElementsOf(todo')
    BY <2>1 DEF ElementsOf
  <2>3. QED
    BY <2>1, <2>2 DEF TurnInv, Asked
<1>5. CASE get_firmware_version_Ok
  <2>1. PICK S \in (SUBSET Hubs) \ {{}} : \E ids \in Orders(S) :
               /\ process' = [i \in DOMAIN ids |-> Status(ids[i], "no")]
               /\ todo' = <<Request(ids[1]), InitTimer>>
    BY <1>5 DEF get_firmware_version_Ok
  <2>2. PICK ids \in Orders(S) :
               /\ process' = [i \in DOMAIN ids |-> Status(ids[i], "no")]
               /\ todo' = <<Request(ids[1]), InitTimer>>
    BY <2>1
  <2>3. ids \in Seq(Hubs) /\ Len(ids) > 0
    BY OrdersAreSequences
  <2>4. DOMAIN ids = 1..Len(ids) /\ Len(ids) \in Nat /\ 1 \in DOMAIN ids
    BY <2>3
  <2>5. Len(process') = Len(ids) /\ process'[1].id = ids[1]
    BY <2>2, <2>4 DEF Status
  <2>6. index = 0 /\ index' = 0 /\ task = "fetching"
    BY <1>5 DEF get_firmware_version_Ok, TypeOK
  <2>7. /\ DOMAIN todo' = 1..2 /\ todo'[1] = Request(process'[1].id)
        /\ todo'[2] = InitTimer
    BY <2>2, <2>5
  <2>8. Report # InitTimer /\ \A h : Report # Request(h)
    BY DEF Report, InitTimer, Request, Op
  <2>9. Report \notin ElementsOf(todo') /\ 1 \in DOMAIN todo'
    BY <2>7, <2>8 DEF ElementsOf
  <2>10. state = "Working" /\ state' = "Working" /\ runtime' = runtime
    BY <1>5, <2>6 DEF get_firmware_version_Ok, TurnInv
  <2>11. index' < Len(process') /\ process'[index' + 1] = process'[1]
    BY <2>3, <2>4, <2>5, <2>6
  <2>12. task' = "select"
    BY <1>5 DEF get_firmware_version_Ok
  <2>13. QED
    BY <2>6, <2>7, <2>9, <2>10, <2>11, <2>12 DEF TurnInv, Asked
<1>6. CASE get_firmware_version_Fails
  <2>1. process = <<>> /\ index = 0
    BY <1>6 DEF get_firmware_version_Fails, TypeOK
  <2>2. QED
    BY <1>6, <2>1 DEF get_firmware_version_Fails, TurnInv, Asked
<1>7. CASE TakesHubResponse
  <2>1. CASE HubsTurn(Head(msgs).hub)
    <3>1. Head(msgs).ok \in {"yes", "no"}
      BY <1>7, ReceiveIsTyped DEF TakesHubResponse, TypeOK, Messages, Update
    <3>2. QED
      BY <1>7, <2>1, <3>1, SettlesTurn DEF TakesHubResponse, HubsTurn
  <2>2. CASE ~ HubsTurn(Head(msgs).hub)
    BY <1>0, <1>7, <2>2 DEF TakesHubResponse
  <2>3. QED
    BY <2>1, <2>2
<1>8. CASE TakesTimeout
  <2>1. CASE index < Len(process)
    BY <1>8, <2>1, SettlesTurn DEF TakesTimeout
  <2>2. CASE ~ (index < Len(process))
    BY <1>8, <2>2 DEF TakesTimeout, TurnInv, Asked, ElementsOf
  <2>3. QED
    BY <2>1, <2>2
<1>9. ASSUME todo # <<>>, todo' = Tail(todo), asked \subseteq asked',
             UNCHANGED <<runtime, state, process, index, task>>,
             \A h : Head(todo) = Request(h) => h \in asked'
      PROVE  TurnInv'
  <2>1. /\ 1 \in DOMAIN todo /\ Head(todo) = todo[1]
        /\ \A i \in DOMAIN todo :
             i = 1 \/ (i - 1 \in DOMAIN todo' /\ todo'[i - 1] = todo[i])
        /\ \A i \in DOMAIN todo' : i + 1 \in DOMAIN todo /\ todo'[i] = todo[i + 1]
    BY <1>9, ReceiveShiftsElements DEF TypeOK
  <2>2. Report \in ElementsOf(todo') => Report \in ElementsOf(todo)
    BY <2>1 DEF ElementsOf
  <2>3. ASSUME NEW h, \E j \in DOMAIN todo : todo[j] = Request(h)
        PROVE  h \in asked' \/ \E j \in DOMAIN todo' : todo'[j] = Request(h)
    BY <1>9, <2>1, <2>3
  <2>4. QED
    BY <1>9, <2>2, <2>3 DEF TurnInv, Asked
<1>10. CASE SendsHubCommand
  <2>1. \A h : Head(todo) = Request(h) => h = Head(todo).arg
    BY DEF Request, Op
  <2>2. QED
    BY <1>9, <1>10, <2>1 DEF SendsHubCommand, Running
<1>11. CASE SendsServerAck \/ SendsTimerCommand
  <2>1. \A h : Head(todo) # Request(h)
    BY <1>11 DEF SendsServerAck, SendsTimerCommand, Running, Request, Op
  <2>2. QED
    BY <1>9, <1>11, <2>1 DEF SendsServerAck, SendsTimerCommand, Running
<1>12. CASE firmware_watchdog_timer
  BY <1>0, <1>12 DEF firmware_watchdog_timer
<1>13. CASE UNCHANGED vars
  BY <1>0, <1>13 DEF vars
<1>14. QED
  BY <1>1, <1>2, <1>3, <1>4, <1>5, <1>6, <1>7, <1>8, <1>10, <1>11, <1>12, <1>13
     DEF Next

LEMMA TurnsAreKept == Spec => []TurnInv
<1>1. Init => TurnInv
  BY DEF Init, Fresh, TurnInv, Asked, ElementsOf, StopTimer, Report, Op
<1>2. TypeOK /\ TurnInv /\ [Next]_vars => TurnInv'
  BY TurnStep
<1>3. QED
  BY <1>1, <1>2, TypeCorrect, PTL DEF Spec

\* No outcome is sent to the server of a session in which some hub was never
\* asked: for every number of hubs, in every order, and whatever timeouts and
\* late answers move the turn on.
THEOREM OutcomeCoversEveryHubHolds == Spec => OutcomeCoversEveryHub
<1>1. TypeOK /\ TurnInv /\ Running("ServerAck") =>
        \A i \in DOMAIN process : process[i].id \in asked
  <2> SUFFICES ASSUME TypeOK, TurnInv, Running("ServerAck")
               PROVE  \A i \in DOMAIN process : process[i].id \in asked
    OBVIOUS
  <2>1. Head(todo) \in Ops /\ Head(todo).do = "ServerAck" /\ Head(todo) = todo[1]
        /\ 1 \in DOMAIN todo
    BY ReceiveIsTyped, ReceiveShiftsElements DEF TypeOK, Running
  <2>2. Report \in ElementsOf(todo)
    BY <2>1 DEF Ops, StopTimer, InitTimer, Op, ElementsOf
  <2>3. index = Len(process)
    BY <2>2 DEF TurnInv
  <2>4. DOMAIN process = 1..Len(process)
    BY DEF TypeOK
  <2>5. QED
    BY <2>3, <2>4 DEF TurnInv, Asked
<1>2. TypeOK /\ TurnInv =>
        [ /\ Running("ServerAck") /\ todo' = Tail(todo) /\ runtime' = "some"
          => \A i \in DOMAIN process : process[i].id \in asked ]_vars
  BY <1>1
<1>3. QED
  BY <1>2, TypeCorrect, TurnsAreKept, PTL DEF Spec, OutcomeCoversEveryHub

\* The index that nobody checks in the Timeout handler is in bounds while a
\* session is on: only a timeout taken after the end of its session can end the
\* process (firmware/logic.rs 183-225).
THEOREM CrashIsAfterTheSession ==
  Spec => [](AtSelect /\ state = "Working" => index < Len(process))
<1>1. TurnInv => (AtSelect /\ state = "Working" => index < Len(process))
  BY DEF TurnInv, AtSelect
<1>2. QED
  BY <1>1, TurnsAreKept, PTL
=============================================================================
