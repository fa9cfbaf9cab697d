---------------------------- MODULE EdgeRuntime ----------------------------
(***************************************************************************)
(* The life of the balancing runtime and the number of the balance, the    *)
(* epoch, which has to outlive it.                                         *)
(*                                                                         *)
(*   dba_insert_task  stores hubs, networks and epochs                     *)
(*   dba_remove_task  deletes networks, and says when none is left         *)
(*   dba_get_task     reads the epoch, and at the start the networks       *)
(*   Core             turns what they say into commands of FsmService      *)
(*   FsmService       creates and deletes the runtime                      *)
(*   fsm, run_fsm     the tasks of the runtime that ask for the epoch, use *)
(*                    it and have it stored                                *)
(*   edge_state       tells hubs and server the mode, every ten seconds    *)
(*                                                                         *)
(* The balance itself, between its first handshake and its end, is module  *)
(* EdgeFsm; here it lasts as long as it likes.  The hops that keep the     *)
(* order (Core, DataService::run) are collapsed, and no channel is full.   *)
(***************************************************************************)
EXTENDS Naturals, Sequences, SequencesExt

CONSTANTS
    Networks,
    OldEpoch,     \* the last epoch of a gateway that was in use before
    MaxChanges,   \* bound: changes of networks and hubs
    MaxMishaps    \* bound: statements that fail and restarts of the gateway

ASSUME OldEpochAssumption == OldEpoch \in Nat \ {0}
ASSUME BoundsAssumption   == {MaxChanges, MaxMishaps} \subseteq Nat

VARIABLES
    table,     \* the networks in the database
    hubTable,  \* the networks a stored hub belongs to
    row,       \* the last row of balance_epoch, 0 if there is none
    queue,     \* the channels of the database tasks
    agenda,    \* what a database task still does for its command
    notices,   \* from the database tasks, through Core, to FsmService
    runtime,   \* the runtime, with its channels, or NoRuntime
    served,    \* history: the last hub came after the last network had gone
    crossed,   \* history: why served and the runtime may differ
    used,      \* history: the epochs a balance was given
    unsaved,   \* history: why an epoch may be given again
    reused,    \* history: an epoch was given again for no such reason
    count      \* counters of the bounds

dbVars      == <<table, hubTable, row>>
historyVars == <<served, crossed, used, unsaved, reused>>
vars == <<dbVars, queue, agenda, notices, runtime, historyVars, count>>

Tasks == {"insert", "remove", "get"}

Do(what)       == [do |-> what]
For(what, n)   == [do |-> what, net |-> n]
With(what, e)  == [do |-> what, epoch |-> e]
Say(notice)    == [do |-> "say", what |-> notice]
Counts(what)   == count' = [count EXCEPT ![what] = @ + 1]

NoRuntime == [machine |-> "none"]
Exists    == runtime # NoRuntime

\* spawn_runtime: run_fsm begins with the event Start, which leads to init.
Spawned ==
    [machine |-> "init",     \* FsmState: init, balance, safe or normal
     events  |-> <<>>,       \* to run_fsm
     actions |-> <<"init">>, \* from run_fsm to fsm: the state that is entered
     command |-> <<>>,       \* from FsmService to fsm
     up      |-> <<>>,       \* rx_response: to FsmService
     state   |-> "start",    \* edge_state: the mode it tells at each tick
     again   |-> FALSE]      \* history: a second epoch answer was taken

\* Core asks for the networks when it starts.
EmptyQueues == [t \in Tasks |-> IF t = "get" THEN <<Do("GetTotalOfNetworks")>>
                                             ELSE <<>>]

\* A new gateway, or one that was in use before.
Init ==
    /\ \/ table = {} /\ hubTable = {} /\ row = 0
       \/ /\ table \in SUBSET Networks /\ hubTable \in SUBSET table
          /\ row = OldEpoch
    /\ queue = EmptyQueues /\ agenda = [t \in Tasks |-> <<>>]
    /\ notices = <<>> /\ runtime = NoRuntime
    /\ served = FALSE /\ crossed = FALSE
    /\ used = {} /\ unsaved = {} /\ reused = FALSE
    /\ count = [changes |-> 0, mishaps |-> 0]

\* The epochs on their way to the table.
Pending(ms) == {ms[i].epoch : i \in {j \in DOMAIN ms : ms[j].do = "NewEpoch"}}
PendingRuntime == IF Exists THEN Pending(runtime.up) ELSE {}
PendingStore   == Pending(queue["insert"])
AnswerUnderWay ==
    \/ \E i \in DOMAIN notices : notices[i].do = "Epoch"
    \/ Exists /\ \E i \in DOMAIN runtime.command : runtime.command[i].do = "Epoch"
-----------------------------------------------------------------------------
(* Changes of the topology, as network_dba passes them on.                 *)

TopologyChanges ==
    /\ count.changes < MaxChanges /\ Counts("changes")
    /\ \E n \in Networks :
          \/ \E what \in {"InsertNetwork", "InsertHub"} :
                queue' = [queue EXCEPT !["insert"] = Append(@, For(what, n))]
          \/ queue' = [queue EXCEPT !["remove"] =
                @ \o <<For("DeleteNetwork", n), For("DeleteAllHubByNetwork", n)>>]
    /\ UNCHANGED <<dbVars, agenda, notices, runtime, historyVars>>
-----------------------------------------------------------------------------
(* The database tasks: one command at a time, statement by statement.      *)

\* What task t does next: what is left of its command, or else the next one.
Now(t)          == IF agenda[t] # <<>> THEN agenda[t] ELSE queue[t]
NextIs(t, name) == Now(t) # <<>> /\ Head(Now(t)).do = name
Then(t, steps)  ==
    IF agenda[t] # <<>>
    THEN agenda' = [agenda EXCEPT ![t] = steps] /\ UNCHANGED queue
    ELSE /\ agenda' = [agenda EXCEPT ![t] = steps]
         /\ queue' = [queue EXCEPT ![t] = Tail(@)]

\* A network was deleted and what follows from it is not told yet; a hub is
\* stored, or was found at the start, and that is not told yet.
Deleting == agenda["remove"] # <<>>
Storing  == \/ agenda["insert"] # <<>>
            \/ NextIs("get", "count_hubs")
            \/ agenda["get"] = <<Say(Do("CreateRuntime"))>>

Says(t) ==
    /\ NextIs(t, "say") /\ Then(t, <<>>)
    /\ notices' = Append(notices, Head(agenda[t]).what)
    /\ UNCHANGED <<dbVars, runtime, historyVars, count>>

InsertsNetwork ==
    /\ NextIs("insert", "InsertNetwork") /\ Then("insert", <<>>)
    /\ table' = table \cup {Head(Now("insert")).net}
    /\ crossed' = (crossed \/ Deleting)
    /\ UNCHANGED <<hubTable, row, served, used, unsaved, reused>>

CountsNetworksForHub ==
    /\ NextIs("insert", "InsertHub")
    /\ Then("insert", IF table = {} THEN <<>>
                      ELSE <<For("insert_hub", Head(Now("insert")).net)>>)
    /\ UNCHANGED <<dbVars, historyVars>>

\* HubInserted and, after it, ThereAreNetworks.
InsertsHub ==
    /\ NextIs("insert", "insert_hub")
    /\ Then("insert", <<Say(Do("CreateRuntime"))>>)
    /\ hubTable' = hubTable \cup {Head(Now("insert")).net}
    /\ served' = TRUE
    /\ crossed' = (crossed \/ Deleting)
    /\ UNCHANGED <<table, row, used, unsaved, reused>>

\* Variant: an UPDATE, which changes nothing while there is no row.
StoresEpoch_NoRow ==
    /\ NextIs("insert", "NewEpoch") /\ Then("insert", <<>>)
    /\ row' = IF row = 0 THEN 0 ELSE Head(Now("insert")).epoch
    /\ UNCHANGED <<table, hubTable, historyVars>>

\* Every epoch gets a row of its own, and the last one is read.
StoresEpoch ==
    /\ NextIs("insert", "NewEpoch") /\ Then("insert", <<>>)
    /\ row' = Head(Now("insert")).epoch
    /\ UNCHANGED <<table, hubTable, historyVars>>

\* NetworksUpdated and, after it, the count.
DeletesNetwork ==
    /\ NextIs("remove", "DeleteNetwork")
    /\ Then("remove", <<Do("count")>>)
    /\ table' = table \ {Head(Now("remove")).net}
    /\ served' = (served /\ table' # {})
    /\ crossed' = (crossed \/ Storing)
    /\ UNCHANGED <<hubTable, row, used, unsaved, reused>>

\* Variant: the last network counts as one that is still there.
CountsNetworksLeft_One ==
    /\ NextIs("remove", "count")
    /\ Then("remove", IF Len(SetToSeq(table)) <= 1
                      THEN <<Say(Do("DeleteRuntime"))>> ELSE <<>>)
    /\ UNCHANGED <<dbVars, historyVars>>

CountsNetworksLeft ==
    /\ NextIs("remove", "count")
    /\ Then("remove", IF table = {} THEN <<Say(Do("DeleteRuntime"))>> ELSE <<>>)
    /\ UNCHANGED <<dbVars, historyVars>>

DeletesHubsOfNetwork ==
    /\ NextIs("remove", "DeleteAllHubByNetwork") /\ Then("remove", <<>>)
    /\ hubTable' = hubTable \ {Head(Now("remove")).net}
    /\ UNCHANGED <<table, row, historyVars>>

ReadsEpoch ==
    /\ NextIs("get", "GetEpoch")
    /\ Then("get", <<Say(With("Epoch", row))>>)
    /\ unsaved' = IF AnswerUnderWay \/ PendingRuntime \cup PendingStore # {}
                  THEN unsaved \cup {row + 1} ELSE unsaved
    /\ UNCHANGED <<dbVars, served, crossed, used, reused>>

CountsNetworks ==
    /\ NextIs("get", "GetTotalOfNetworks")
    /\ Then("get", IF table = {} THEN <<>> ELSE <<Do("count_hubs")>>)
    /\ UNCHANGED <<dbVars, historyVars>>

\* BatchHub and, after it, ThereAreNetworks.
CountsHubs ==
    /\ NextIs("get", "count_hubs")
    /\ Then("get", IF hubTable = {} THEN <<>> ELSE <<Say(Do("CreateRuntime"))>>)
    /\ served' = (served \/ hubTable # {})
    /\ crossed' = (crossed \/ Deleting)
    /\ UNCHANGED <<dbVars, used, unsaved, reused>>

RunsStatement(t) ==
    /\ \/ t = "insert" /\ (InsertsNetwork \/ CountsNetworksForHub \/ InsertsHub
                             \/ StoresEpoch)
       \/ t = "remove" /\ (DeletesNetwork \/ CountsNetworksLeft
                             \/ DeletesHubsOfNetwork)
       \/ t = "get" /\ (ReadsEpoch \/ CountsNetworks \/ CountsHubs)
    /\ UNCHANGED <<notices, runtime, count>>

\* Variant: no answer about the epoch after an error.
AfterError_Silent(what) ==
    IF what = "DeleteNetwork" THEN <<Do("count")>> ELSE <<>>

\* Variant: an error is taken for an empty table.
AfterError_Zero(what) ==
    CASE what = "GetEpoch"      -> <<Say(With("Epoch", 0))>>
      [] what = "DeleteNetwork" -> <<Do("count")>>
      [] OTHER                  -> <<>>

\* What a database task does after a statement that failed.
AfterError(what) ==
    CASE what = "GetEpoch"      -> <<Say(Do("ErrorEpoch"))>>
      [] what = "DeleteNetwork" -> <<Do("count")>>
      [] OTHER                  -> <<>>

StatementFails(t) ==
    /\ Now(t) # <<>> /\ ~NextIs(t, "say")
    /\ count.mishaps < MaxMishaps /\ Counts("mishaps")
    /\ Then(t, AfterError(Head(Now(t)).do))
    /\ unsaved' = unsaved \cup Pending(<<Head(Now(t))>>)
    /\ crossed' = (crossed \/ NextIs(t, "count"))
    /\ UNCHANGED <<dbVars, notices, runtime, served, used, reused>>
-----------------------------------------------------------------------------
(* FsmService.                                                             *)

\* Without a runtime everything but CreateRuntime is thrown away, with one
\* only CreateRuntime is.
ServiceTakesNotice ==
    /\ notices # <<>>
    /\ notices' = Tail(notices)
    /\ LET m == Head(notices) IN
       /\ runtime' =
             CASE ~Exists /\ m.do = "CreateRuntime" -> Spawned
               [] Exists /\ m.do = "DeleteRuntime"  -> NoRuntime
               [] Exists /\ m.do \in {"Epoch", "ErrorEpoch"} ->
                     [runtime EXCEPT !.command = Append(@, m)]
               [] OTHER -> runtime
       /\ unsaved' = IF m.do = "DeleteRuntime" THEN unsaved \cup PendingRuntime
                     ELSE unsaved
    /\ UNCHANGED <<dbVars, queue, agenda, served, crossed, used, reused,
                   count>>

\* Core and DataService pass it on to the task it is for.
ServiceForwards ==
    /\ Exists /\ runtime.up # <<>>
    /\ runtime' = [runtime EXCEPT !.up = Tail(@)]
    /\ LET m == Head(runtime.up)
           t == IF m.do = "GetEpoch" THEN "get" ELSE "insert" IN
       queue' = [queue EXCEPT ![t] = Append(@, m)]
    /\ UNCHANGED <<dbVars, agenda, notices, historyVars, count>>
-----------------------------------------------------------------------------
(* The runtime.                                                            *)

InRuntime == UNCHANGED <<dbVars, queue, agenda, notices, served, crossed, count>>

\* The epoch is answered once the machine waits for it; in any other state
\* the event is invalid.
MachineTakesEvent ==
    /\ Exists /\ runtime.events # <<>>
    /\ LET ok == Head(runtime.events) = "BalanceEpochOk" IN
       runtime' = IF runtime.machine # "init"
                  THEN [runtime EXCEPT !.events = Tail(@)]
                  ELSE [runtime EXCEPT !.events = Tail(@),
                            !.machine = IF ok THEN "balance" ELSE "safe",
                            !.actions = Append(@, IF ok THEN "balance" ELSE "safe")]
    /\ InRuntime /\ UNCHANGED <<used, unsaved, reused>>

\* The rest of the balance, of which only the end is seen here.
BalanceEnds ==
    /\ \E next \in {"normal", "safe"} :
          /\ \/ runtime.machine = "balance"
             \/ runtime.machine = "safe" /\ next = "normal"
          /\ runtime' = [runtime EXCEPT !.machine = next,
                                        !.actions = Append(@, next)]
    /\ InRuntime /\ UNCHANGED <<used, unsaved, reused>>

\* Variant: only the safe mode is told.
TellsEdgeState_Safe(m) == IF m = "safe" THEN m ELSE runtime.state

\* The mode edge_state tells after the entry into m.  It takes what fsm, and
\* nobody else, sends it, in that order.
TellsEdgeState(m) == IF m \in {"normal", "safe"} THEN m ELSE runtime.state

\* handle_action: the entry of InitBalanceMode asks for the epoch.
FsmTakesActions ==
    /\ Exists /\ runtime.actions # <<>>
    /\ LET m == Head(runtime.actions) IN
       runtime' = [runtime EXCEPT
          !.actions = Tail(@),
          !.up      = IF m = "init" THEN Append(@, Do("GetEpoch")) ELSE @,
          !.state   = TellsEdgeState(m)]
    /\ InRuntime /\ UNCHANGED <<used, unsaved, reused>>

NewEpoch(epoch) == epoch + 1

\* The epoch is taken whatever the state of the machine.
FsmTakesEpoch ==
    /\ Exists /\ runtime.command # <<>> /\ Head(runtime.command).do = "Epoch"
    /\ LET e == NewEpoch(Head(runtime.command).epoch) IN
       /\ runtime' = [runtime EXCEPT
             !.command = Tail(@),
             !.events  = Append(@, "BalanceEpochOk"),
             !.up      = Append(@, With("NewEpoch", e)),
             !.state   = "balance",
             !.again   = runtime.machine # "init" \/ runtime.events # <<>>]
       /\ reused' = (reused \/ e \in used \ unsaved)
       /\ used' = used \cup {e}
    /\ InRuntime /\ UNCHANGED unsaved

FsmTakesErrorEpoch ==
    /\ Exists /\ runtime.command # <<>> /\ Head(runtime.command).do = "ErrorEpoch"
    /\ runtime' = [runtime EXCEPT !.command = Tail(@),
                                  !.events  = Append(@, "BalanceEpochNotOk")]
    /\ InRuntime /\ UNCHANGED <<used, unsaved, reused>>
-----------------------------------------------------------------------------
\* A crash, or a service that ends, and the start that follows: the database
\* is all that is left.
Restarts ==
    /\ count.mishaps < MaxMishaps /\ Counts("mishaps")
    /\ queue' = EmptyQueues /\ agenda' = [t \in Tasks |-> <<>>]
    /\ notices' = <<>> /\ runtime' = NoRuntime
    /\ served' = FALSE /\ crossed' = FALSE
    /\ unsaved' = unsaved \cup PendingRuntime \cup PendingStore
    /\ UNCHANGED <<dbVars, used, reused>>

Next ==
    \/ TopologyChanges
    \/ \E t \in Tasks : Says(t) \/ RunsStatement(t) \/ StatementFails(t)
    \/ ServiceTakesNotice \/ ServiceForwards
    \/ MachineTakesEvent \/ BalanceEnds
    \/ FsmTakesActions \/ FsmTakesEpoch \/ FsmTakesErrorEpoch
    \/ Restarts

\* Every task is scheduled.  Nothing is asked of topology, faults, restarts
\* and the end of a balance.
Fairness ==
    /\ \A t \in Tasks : /\ WF_vars(Says(t))
                        /\ WF_vars(RunsStatement(t) \/ StatementFails(t))
    /\ WF_vars(ServiceTakesNotice) /\ WF_vars(ServiceForwards)
    /\ WF_vars(MachineTakesEvent) /\ WF_vars(FsmTakesActions)
    /\ WF_vars(FsmTakesEpoch \/ FsmTakesErrorEpoch)

Spec     == Init /\ [][Next]_vars
FairSpec == Spec /\ Fairness
-----------------------------------------------------------------------------
\* The stored epoch never falls: neither across restarts, which the table is
\* there for (balance_epoch.rs:3-6), nor when a runtime is deleted with its
\* epoch under way and the next one asks, nor when statements fail.
EpochsNeverFall == [][row' >= row]_vars

\* Hubs tell the votes of one balance from those of another by its epoch
\* (fsm/logic.rs:80).  The number is given to two balances only for a cause:
\* the process or the runtime went, or the statement failed, while it was on
\* its way to the table, or it was read again before it got there.
ReuseHasCause == ~reused

Quiet ==
    /\ notices = <<>>
    /\ \A t \in Tasks : queue[t] = <<>> /\ agenda[t] = <<>>

\* Once things are quiet, there is a runtime exactly if a hub was stored, or
\* found at the start, since the last network went (CreateRuntime and
\* DeleteRuntime, core/domain.rs 255-270); unless a hub was being stored, or
\* looked for at the start, while a network was being deleted: three tasks
\* then tell of it in any order (database/logic.rs 149-160, 227-247).
RuntimeFollows == Quiet /\ ~crossed => (Exists <=> served)

\* A runtime that waits for its epoch gets an answer or is deleted: the
\* machine has no timer in this state (fsm/domain.rs 521-528).
EpochIsAnswered == runtime.machine = "init" ~> runtime.machine # "init"

\* Once the runtime has nothing to do, edge_state tells hubs and server the
\* mode the machine is in, balance included.  A second answer, asked for by a
\* runtime that is gone, can undo it: fsm takes it in any state
\* (fsm/logic.rs 122-133) and makes edge_state tell of a balance that is none.
ModeIsTold ==
    Exists /\ runtime.machine # "init" /\ runtime.events = <<>>
           /\ runtime.actions = <<>>
        => runtime.state = runtime.machine \/ runtime.again
=============================================================================
