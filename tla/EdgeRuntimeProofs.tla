-------------------------- MODULE EdgeRuntimeProofs --------------------------
(***************************************************************************)
(* Proofs about the life of the runtime and its epoch, for every set of    *)
(* networks, every epoch found at the start and all bounds.                *)
(***************************************************************************)
EXTENDS EdgeRuntime, SequenceTheorems, TLAPS

InsertCommands == [do : {"InsertNetwork", "InsertHub"}, net : Networks]
                    \cup [do : {"NewEpoch"}, epoch : Nat]
RemoveCommands == [do : {"DeleteNetwork", "DeleteAllHubByNetwork"}, net : Networks]
GetCommands    == [do : {"GetTotalOfNetworks", "GetEpoch"}]
Answers        == [do : {"ErrorEpoch"}] \cup [do : {"Epoch"}, epoch : Nat]
ServiceNotices == [do : {"CreateRuntime", "DeleteRuntime"}] \cup Answers
UpMessages     == [do : {"GetEpoch"}] \cup [do : {"NewEpoch"}, epoch : Nat]
Modes          == {"init", "balance", "safe", "normal"}

Runtimes ==
    [machine : Modes,
     events  : Seq({"BalanceEpochOk", "BalanceEpochNotOk"}),
     actions : Seq(Modes),
     command : Seq(Answers),
     up      : Seq(UpMessages),
     state   : {"start", "balance", "safe", "normal"},
     again   : BOOLEAN]

InsertAgendas == {<<>>, <<Say(Do("CreateRuntime"))>>}
                   \cup {<<For("insert_hub", n)>> : n \in Networks}
RemoveAgendas == {<<>>, <<Do("count")>>, <<Say(Do("DeleteRuntime"))>>}
GetAgendas    == {<<>>, <<Do("count_hubs")>>, <<Say(Do("CreateRuntime"))>>}
                   \cup {<<Say(a)>> : a \in Answers}

TypeOK ==
    /\ table \in SUBSET Networks /\ hubTable \in SUBSET Networks /\ row \in Nat
    /\ DOMAIN queue = Tasks /\ queue["insert"] \in Seq(InsertCommands)
    /\ queue["remove"] \in Seq(RemoveCommands) /\ queue["get"] \in Seq(GetCommands)
    /\ DOMAIN agenda = Tasks /\ agenda["insert"] \in InsertAgendas
    /\ agenda["remove"] \in RemoveAgendas /\ agenda["get"] \in GetAgendas
    /\ notices \in Seq(ServiceNotices)
    /\ runtime \in Runtimes \cup {NoRuntime}
    /\ served \in BOOLEAN /\ crossed \in BOOLEAN /\ reused \in BOOLEAN
    /\ used \in SUBSET Nat /\ unsaved \in SUBSET Nat
-----------------------------------------------------------------------------
(* What a database task does next, and what is left when it has done it.   *)

LEMMA ThenLeaves ==
  ASSUME TypeOK, NEW t \in Tasks, NEW steps, Then(t, steps)
  PROVE  /\ DOMAIN agenda' = Tasks /\ DOMAIN queue' = Tasks
         /\ agenda'[t] = steps
         /\ \A u \in Tasks \ {t} : agenda'[u] = agenda[u] /\ queue'[u] = queue[u]
         /\ agenda[t] # <<>> => queue' = queue
         /\ agenda[t] = <<>> => queue'[t] = Tail(queue[t])
<1>1. DOMAIN agenda = Tasks /\ DOMAIN queue = Tasks
  BY DEF TypeOK
<1>2. agenda' = [agenda EXCEPT ![t] = steps]
  BY DEF Then
<1>3. CASE agenda[t] # <<>>
  BY <1>1, <1>2, <1>3 DEF Then
<1>4. CASE agenda[t] = <<>>
  <2>1. queue' = [queue EXCEPT ![t] = Tail(queue[t])]
    BY <1>4 DEF Then
  <2>2. QED
    BY <1>1, <1>2, <1>4, <2>1
<1>5. QED
  BY <1>3, <1>4

LEMMA NextInsert ==
  ASSUME TypeOK
  PROVE  /\ \A c \in {"InsertNetwork", "InsertHub", "NewEpoch"} :
              NextIs("insert", c) =>
                /\ agenda["insert"] = <<>> /\ queue["insert"] # <<>>
                /\ Now("insert") = queue["insert"]
                /\ Head(queue["insert"]).do = c
                /\ Head(queue["insert"]) \in InsertCommands
         /\ NextIs("insert", "insert_hub") =>
              \E n \in Networks : agenda["insert"] = <<For("insert_hub", n)>>
                                  /\ Now("insert") = agenda["insert"]
         /\ NextIs("insert", "say") =>
              agenda["insert"] = <<Say(Do("CreateRuntime"))>>
         /\ Now("insert") # <<>> =>
              \E c \in {"InsertNetwork", "InsertHub", "NewEpoch", "insert_hub", "say"} :
                NextIs("insert", c)
<1>1. CASE agenda["insert"] = <<>>
  <2>1. Now("insert") = queue["insert"] /\ queue["insert"] \in Seq(InsertCommands)
    BY <1>1 DEF Now, TypeOK
  <2>2. queue["insert"] # <<>> => Head(queue["insert"]) \in InsertCommands
    BY <2>1
  <2>3. \A c \in InsertCommands : c.do \in {"InsertNetwork", "InsertHub", "NewEpoch"}
    BY DEF InsertCommands
  <2>4. QED
    BY <1>1, <2>1, <2>2, <2>3 DEF NextIs
<1>2. CASE agenda["insert"] = <<Say(Do("CreateRuntime"))>>
  <2>1. Now("insert") # <<>> /\ Head(Now("insert")).do = "say"
    BY <1>2 DEF Now, Say
  <2>2. QED
    BY <1>2, <2>1 DEF NextIs
<1>3. ASSUME NEW n \in Networks, agenda["insert"] = <<For("insert_hub", n)>>
      PROVE  Now("insert") = agenda["insert"] /\ Now("insert") # <<>>
             /\ Head(Now("insert")).do = "insert_hub"
  BY <1>3 DEF Now, For
<1>4. QED
  BY <1>1, <1>2, <1>3 DEF TypeOK, InsertAgendas, NextIs

LEMMA NextRemove ==
  ASSUME TypeOK
  PROVE  /\ \A c \in {"DeleteNetwork", "DeleteAllHubByNetwork"} :
              NextIs("remove", c) =>
                agenda["remove"] = <<>> /\ queue["remove"] # <<>>
         /\ NextIs("remove", "count") => agenda["remove"] = <<Do("count")>>
         /\ NextIs("remove", "say") =>
              agenda["remove"] = <<Say(Do("DeleteRuntime"))>>
         /\ Now("remove") # <<>> =>
              \E c \in {"DeleteNetwork", "DeleteAllHubByNetwork", "count", "say"} :
                NextIs("remove", c)
<1>1. CASE agenda["remove"] = <<>>
  <2>1. Now("remove") = queue["remove"] /\ queue["remove"] \in Seq(RemoveCommands)
    BY <1>1 DEF Now, TypeOK
  <2>2. queue["remove"] # <<>> => Head(queue["remove"]) \in RemoveCommands
    BY <2>1
  <2>3. \A c \in RemoveCommands : c.do \in {"DeleteNetwork", "DeleteAllHubByNetwork"}
    BY DEF RemoveCommands
  <2>4. QED
    BY <1>1, <2>1, <2>2, <2>3 DEF NextIs
<1>2. CASE agenda["remove"] = <<Do("count")>>
  <2>1. Now("remove") # <<>> /\ Head(Now("remove")).do = "count"
    BY <1>2 DEF Now, Do
  <2>2. QED
    BY <1>2, <2>1 DEF NextIs
<1>3. CASE agenda["remove"] = <<Say(Do("DeleteRuntime"))>>
  <2>1. Now("remove") # <<>> /\ Head(Now("remove")).do = "say"
    BY <1>3 DEF Now, Say
  <2>2. QED
    BY <1>3, <2>1 DEF NextIs
<1>4. QED
  BY <1>1, <1>2, <1>3 DEF TypeOK, RemoveAgendas

LEMMA NextGet ==
  ASSUME TypeOK
  PROVE  /\ \A c \in {"GetTotalOfNetworks", "GetEpoch"} :
              NextIs("get", c) => agenda["get"] = <<>> /\ queue["get"] # <<>>
         /\ NextIs("get", "count_hubs") => agenda["get"] = <<Do("count_hubs")>>
         /\ NextIs("get", "say") =>
              \E n \in ServiceNotices : agenda["get"] = <<Say(n)>>
                                        /\ n.do # "DeleteRuntime"
         /\ Now("get") # <<>> =>
              \E c \in {"GetTotalOfNetworks", "GetEpoch", "count_hubs", "say"} :
                NextIs("get", c)
<1>1. CASE agenda["get"] = <<>>
  <2>1. Now("get") = queue["get"] /\ queue["get"] \in Seq(GetCommands)
    BY <1>1 DEF Now, TypeOK
  <2>2. queue["get"] # <<>> => Head(queue["get"]) \in GetCommands
    BY <2>1
  <2>3. \A c \in GetCommands : c.do \in {"GetTotalOfNetworks", "GetEpoch"}
    BY DEF GetCommands
  <2>4. QED
    BY <1>1, <2>1, <2>2, <2>3 DEF NextIs
<1>2. CASE agenda["get"] = <<Do("count_hubs")>>
  <2>1. Now("get") # <<>> /\ Head(Now("get")).do = "count_hubs"
    BY <1>2 DEF Now, Do
  <2>2. QED
    BY <1>2, <2>1 DEF NextIs
<1>3. ASSUME NEW n \in ServiceNotices, n.do # "DeleteRuntime", agenda["get"] = <<Say(n)>>
      PROVE  /\ Now("get") # <<>> /\ Head(Now("get")).do = "say"
  BY <1>3 DEF Now, Say
<1>4. /\ Do("CreateRuntime") \in ServiceNotices /\ Do("CreateRuntime").do # "DeleteRuntime"
      /\ \A a \in Answers : a \in ServiceNotices /\ a.do # "DeleteRuntime"
  BY DEF ServiceNotices, Answers, Do
<1>5. QED
  BY <1>1, <1>2, <1>3, <1>4 DEF TypeOK, GetAgendas, NextIs
-----------------------------------------------------------------------------
(* Types.                                                                  *)

DbTyped ==
    /\ DOMAIN queue = Tasks /\ queue["insert"] \in Seq(InsertCommands)
    /\ queue["remove"] \in Seq(RemoveCommands) /\ queue["get"] \in Seq(GetCommands)
    /\ DOMAIN agenda = Tasks /\ agenda["insert"] \in InsertAgendas
    /\ agenda["remove"] \in RemoveAgendas /\ agenda["get"] \in GetAgendas

LEMMA TasksTyped ==
  ASSUME TypeOK, NEW t \in Tasks, Now(t) # <<>>, NEW steps, Then(t, steps),
         t = "insert" => steps \in InsertAgendas,
         t = "remove" => steps \in RemoveAgendas,
         t = "get" => steps \in GetAgendas
  PROVE  DbTyped'
<1>1. /\ DOMAIN agenda' = Tasks /\ DOMAIN queue' = Tasks
      /\ agenda'[t] = steps
      /\ \A u \in Tasks \ {t} : agenda'[u] = agenda[u] /\ queue'[u] = queue[u]
      /\ agenda[t] # <<>> => queue' = queue
      /\ agenda[t] = <<>> => queue'[t] = Tail(queue[t]) /\ queue[t] # <<>>
  BY ThenLeaves DEF Now
<1>2. Tasks = {"insert", "remove", "get"}
  BY DEF Tasks
<1>3. /\ queue["insert"] \in Seq(InsertCommands)
      /\ queue["remove"] \in Seq(RemoveCommands) /\ queue["get"] \in Seq(GetCommands)
      /\ agenda["insert"] \in InsertAgendas
      /\ agenda["remove"] \in RemoveAgendas /\ agenda["get"] \in GetAgendas
  BY DEF TypeOK
<1>0. ASSUME NEW S, queue[t] \in Seq(S) PROVE queue'[t] \in Seq(S)
  <2>1. CASE agenda[t] # <<>>
    BY <1>1, <1>0, <2>1
  <2>2. CASE agenda[t] = <<>>
    BY <1>1, <1>0, <2>2, HeadTailProperties
  <2>3. QED
    BY <2>1, <2>2
<1>4. CASE t = "insert"
  <2>1. queue'["insert"] \in Seq(InsertCommands)
    BY <1>0, <1>3, <1>4
  <2>2. QED
    BY <1>1, <1>2, <1>3, <1>4, <2>1 DEF DbTyped
<1>5. CASE t = "remove"
  <2>1. queue'["remove"] \in Seq(RemoveCommands)
    BY <1>0, <1>3, <1>5
  <2>2. QED
    BY <1>1, <1>2, <1>3, <1>5, <2>1 DEF DbTyped
<1>6. CASE t = "get"
  <2>1. queue'["get"] \in Seq(GetCommands)
    BY <1>0, <1>3, <1>6
  <2>2. QED
    BY <1>1, <1>2, <1>3, <1>6, <2>1 DEF DbTyped
<1>7. QED
  BY <1>2, <1>4, <1>5, <1>6

\* The statements of a task leave well-formed queues and agendas.
LEMMA StatementTyped ==
  ASSUME TypeOK, NEW t \in Tasks, RunsStatement(t)
  PROVE  /\ DbTyped' /\ UNCHANGED <<notices, runtime>>
         /\ table' \in SUBSET Networks /\ hubTable' \in SUBSET Networks /\ row' \in Nat
         /\ served' \in BOOLEAN /\ crossed' \in BOOLEAN
         /\ used' = used /\ reused' = reused /\ unsaved' \in SUBSET Nat
<1> USE DEF dbVars, historyVars
<1>0. /\ <<>> \in InsertAgendas \cap RemoveAgendas \cap GetAgendas
      /\ \A n \in Networks : <<For("insert_hub", n)>> \in InsertAgendas
      /\ <<Say(Do("CreateRuntime"))>> \in InsertAgendas \cap GetAgendas
      /\ <<Do("count")>> \in RemoveAgendas
      /\ <<Say(Do("DeleteRuntime"))>> \in RemoveAgendas
      /\ <<Do("count_hubs")>> \in GetAgendas
      /\ \A a \in Answers : <<Say(a)>> \in GetAgendas
  BY DEF InsertAgendas, RemoveAgendas, GetAgendas
<1>1. /\ table \in SUBSET Networks /\ hubTable \in SUBSET Networks /\ row \in Nat
      /\ served \in BOOLEAN /\ crossed \in BOOLEAN /\ unsaved \in SUBSET Nat
  BY DEF TypeOK
<1>2. ASSUME NEW c \in InsertCommands PROVE
        /\ c.do \in {"InsertNetwork", "InsertHub"} => c.net \in Networks
        /\ c.do = "NewEpoch" => c.epoch \in Nat
  BY DEF InsertCommands
<1>3. (served /\ table' # {}) \in BOOLEAN /\ (served \/ hubTable # {}) \in BOOLEAN
      /\ (crossed \/ Deleting) \in BOOLEAN /\ (crossed \/ Storing) \in BOOLEAN
  OBVIOUS
<1>4. UNCHANGED <<notices, runtime>>
  BY DEF RunsStatement
<1>5. CASE t = "insert" /\ InsertsNetwork
  <2>1. Now("insert") # <<>> /\ Head(Now("insert")).net \in Networks
    BY <1>2, <1>5, NextInsert DEF InsertsNetwork, NextIs
  <2>2. DbTyped'
    BY <1>0, <1>5, <2>1, TasksTyped DEF InsertsNetwork
  <2>3. QED
    BY <1>1, <1>3, <1>4, <1>5, <2>1, <2>2 DEF InsertsNetwork
<1>6. CASE t = "insert" /\ CountsNetworksForHub
  <2>1. Now("insert") # <<>> /\ Head(Now("insert")).net \in Networks
    BY <1>2, <1>6, NextInsert DEF CountsNetworksForHub, NextIs
  <2>2. DbTyped'
    BY <1>0, <1>6, <2>1, TasksTyped DEF CountsNetworksForHub
  <2>3. QED
    BY <1>1, <1>4, <1>6, <2>2 DEF CountsNetworksForHub
<1>7. CASE t = "insert" /\ InsertsHub
  <2>1. Now("insert") # <<>> /\ Head(Now("insert")).net \in Networks
    <3>1. PICK n \in Networks : Now("insert") = <<For("insert_hub", n)>>
      BY <1>7, NextInsert DEF InsertsHub
    <3>2. QED
      BY <3>1 DEF For
  <2>2. DbTyped'
    BY <1>0, <1>7, <2>1, TasksTyped DEF InsertsHub
  <2>3. QED
    BY <1>1, <1>3, <1>4, <1>7, <2>1, <2>2 DEF InsertsHub
<1>8. CASE t = "insert" /\ StoresEpoch
  <2>1. Now("insert") # <<>> /\ Head(Now("insert")).epoch \in Nat
    BY <1>2, <1>8, NextInsert DEF StoresEpoch, NextIs
  <2>2. DbTyped'
    BY <1>0, <1>8, <2>1, TasksTyped DEF StoresEpoch
  <2>3. QED
    BY <1>1, <1>4, <1>8, <2>1, <2>2 DEF StoresEpoch
<1>9. CASE t = "remove" /\ DeletesNetwork
  <2>1. DbTyped'
    BY <1>0, <1>9, TasksTyped DEF DeletesNetwork, NextIs
  <2>2. QED
    BY <1>1, <1>3, <1>4, <1>9, <2>1 DEF DeletesNetwork
<1>10. CASE t = "remove" /\ CountsNetworksLeft
  <2>1. DbTyped'
    BY <1>0, <1>10, TasksTyped DEF CountsNetworksLeft, NextIs
  <2>2. QED
    BY <1>1, <1>4, <1>10, <2>1 DEF CountsNetworksLeft
<1>11. CASE t = "remove" /\ DeletesHubsOfNetwork
  <2>1. DbTyped'
    BY <1>0, <1>11, TasksTyped DEF DeletesHubsOfNetwork, NextIs
  <2>2. QED
    BY <1>1, <1>4, <1>11, <2>1 DEF DeletesHubsOfNetwork
<1>12. CASE t = "get" /\ ReadsEpoch
  <2>1. With("Epoch", row) \in Answers
    BY <1>1 DEF With, Answers
  <2>2. DbTyped'
    BY <1>0, <1>12, <2>1, TasksTyped DEF ReadsEpoch, NextIs
  <2>3. QED
    BY <1>1, <1>4, <1>12, <2>2 DEF ReadsEpoch
<1>13. CASE t = "get" /\ CountsNetworks
  <2>1. DbTyped'
    BY <1>0, <1>13, TasksTyped DEF CountsNetworks, NextIs
  <2>2. QED
    BY <1>1, <1>4, <1>13, <2>1 DEF CountsNetworks
<1>14. CASE t = "get" /\ CountsHubs
  <2>1. DbTyped'
    BY <1>0, <1>14, TasksTyped DEF CountsHubs, NextIs
  <2>2. QED
    BY <1>1, <1>3, <1>4, <1>14, <2>1 DEF CountsHubs
<1>15. QED
  BY <1>5, <1>6, <1>7, <1>8, <1>9, <1>10, <1>11, <1>12, <1>13, <1>14
     DEF RunsStatement

LEMMA EmptyAgendas ==
  <<>> \in InsertAgendas /\ <<>> \in RemoveAgendas /\ <<>> \in GetAgendas
BY DEF InsertAgendas, RemoveAgendas, GetAgendas

LEMMA PendingTyped ==
  ASSUME TypeOK
  PROVE  PendingRuntime \in SUBSET Nat /\ PendingStore \in SUBSET Nat
<1>1. ASSUME NEW q \in Seq(InsertCommands \cup UpMessages)
      PROVE  Pending(q) \in SUBSET Nat
  BY DEF Pending, InsertCommands, UpMessages
<1>2. queue["insert"] \in Seq(InsertCommands \cup UpMessages)
  BY DEF TypeOK
<1>3. Exists => runtime.up \in Seq(InsertCommands \cup UpMessages)
  BY DEF TypeOK, Exists, Runtimes
<1>4. QED
  BY <1>1, <1>2, <1>3 DEF PendingRuntime, PendingStore

\* What a task says is a notice for FsmService, and its agenda is done with it.
LEMMA SaysNotice ==
  ASSUME TypeOK, NEW t \in Tasks, Says(t)
  PROVE  \E n \in ServiceNotices :
           /\ agenda[t] = <<Say(n)>> /\ notices' = Append(notices, n)
           /\ agenda'[t] = <<>> /\ queue' = queue
           /\ \A u \in Tasks \ {t} : agenda'[u] = agenda[u]
           /\ t = "insert" => n = Do("CreateRuntime")
           /\ t = "remove" => n = Do("DeleteRuntime")
           /\ t = "get" => n.do # "DeleteRuntime"
<1>1. /\ Do("CreateRuntime") \in ServiceNotices /\ Do("DeleteRuntime") \in ServiceNotices
      /\ Do("CreateRuntime").do # "DeleteRuntime"
  BY DEF ServiceNotices, Do
<1>2. PICK n \in ServiceNotices :
            /\ agenda[t] = <<Say(n)>>
            /\ t = "insert" => n = Do("CreateRuntime")
            /\ t = "remove" => n = Do("DeleteRuntime")
            /\ t = "get" => n.do # "DeleteRuntime"
  <2>1. CASE t = "insert"
    BY <1>1, <2>1, NextInsert DEF Says
  <2>2. CASE t = "remove"
    BY <1>1, <2>2, NextRemove DEF Says
  <2>3. CASE t = "get"
    BY <2>3, NextGet DEF Says
  <2>4. QED
    BY <2>1, <2>2, <2>3 DEF Tasks
<1>3. Head(agenda[t]).what = n /\ agenda[t] # <<>>
  BY <1>2 DEF Say
<1>4. QED
  BY <1>2, <1>3, ThenLeaves DEF Says

LEMMA RuntimeStepTyped ==
  ASSUME TypeOK, BalanceEnds \/ MachineTakesEvent \/ FsmTakesActions
                   \/ FsmTakesEpoch \/ FsmTakesErrorEpoch
  PROVE  TypeOK'
<1>1. runtime \in Runtimes
  <2>1. NoRuntime.machine = "none"
    BY DEF NoRuntime
  <2>2. QED
    BY <2>1 DEF TypeOK, BalanceEnds, MachineTakesEvent, FsmTakesActions,
                FsmTakesEpoch, FsmTakesErrorEpoch, Exists
<1>2. /\ runtime.machine \in Modes
      /\ runtime.events \in Seq({"BalanceEpochOk", "BalanceEpochNotOk"})
      /\ runtime.actions \in Seq(Modes) /\ runtime.command \in Seq(Answers)
      /\ runtime.up \in Seq(UpMessages)
      /\ runtime.state \in {"start", "balance", "safe", "normal"}
      /\ runtime.again \in BOOLEAN
  BY <1>1 DEF Runtimes
<1>3. runtime' \in Runtimes /\ used' \in SUBSET Nat /\ unsaved' = unsaved
  <2>1. CASE MachineTakesEvent
    <3>1. runtime.events # <<>>
      BY <2>1 DEF MachineTakesEvent
    <3>2. Tail(runtime.events) \in Seq({"BalanceEpochOk", "BalanceEpochNotOk"})
      BY <1>2, <3>1, HeadTailProperties
    <3>3. /\ Append(runtime.actions, "balance") \in Seq(Modes)
          /\ Append(runtime.actions, "safe") \in Seq(Modes)
          /\ {"balance", "safe"} \subseteq Modes
      BY <1>2 DEF Modes
    <3>4. QED
      BY <1>1, <1>2, <2>1, <3>2, <3>3 DEF MachineTakesEvent, Runtimes, TypeOK
  <2>2. CASE BalanceEnds
    <3>1. PICK next \in {"normal", "safe"} :
                 runtime' = [runtime EXCEPT !.machine = next,
                                            !.actions = Append(runtime.actions, next)]
      BY <2>2 DEF BalanceEnds
    <3>2. next \in Modes /\ Append(runtime.actions, next) \in Seq(Modes)
      BY <1>2 DEF Modes
    <3>3. QED
      BY <1>1, <1>2, <2>2, <3>1, <3>2 DEF BalanceEnds, Runtimes, TypeOK
  <2>3. CASE FsmTakesActions
    <3>1. Head(runtime.actions) \in Modes /\ Tail(runtime.actions) \in Seq(Modes)
      BY <1>2, <2>3, HeadTailProperties DEF FsmTakesActions
    <3>2. Append(runtime.up, Do("GetEpoch")) \in Seq(UpMessages)
      BY <1>2 DEF UpMessages, Do
    <3>3. TellsEdgeState(Head(runtime.actions))
             \in {"start", "balance", "safe", "normal"}
      BY <1>2 DEF TellsEdgeState
    <3>4. QED
      BY <1>1, <1>2, <2>3, <3>1, <3>2, <3>3 DEF FsmTakesActions, Runtimes, TypeOK
  <2>4. CASE FsmTakesEpoch
    <3>1. /\ Head(runtime.command) \in Answers /\ Head(runtime.command).do = "Epoch"
          /\ Tail(runtime.command) \in Seq(Answers)
      BY <1>2, <2>4, HeadTailProperties DEF FsmTakesEpoch
    <3>2. NewEpoch(Head(runtime.command).epoch) \in Nat
      BY <3>1 DEF Answers, NewEpoch
    <3> DEFINE e == NewEpoch(Head(runtime.command).epoch)
    <3>3. With("NewEpoch", e) \in UpMessages
      BY <3>2 DEF With, UpMessages
    <3>4. Append(runtime.up, With("NewEpoch", e)) \in Seq(UpMessages)
      BY <1>2, <3>3
    <3>5. Append(runtime.events, "BalanceEpochOk")
             \in Seq({"BalanceEpochOk", "BalanceEpochNotOk"})
      BY <1>2
    <3>6. (runtime.machine # "init" \/ runtime.events # <<>>) \in BOOLEAN
      OBVIOUS
    <3>7. runtime' \in Runtimes
      BY <1>1, <1>2, <2>4, <3>1, <3>4, <3>5, <3>6 DEF FsmTakesEpoch, Runtimes
    <3>8. QED
      BY <2>4, <3>2, <3>7 DEF FsmTakesEpoch, TypeOK
  <2>5. CASE FsmTakesErrorEpoch
    <3>1. Tail(runtime.command) \in Seq(Answers)
      BY <1>2, <2>5, HeadTailProperties DEF FsmTakesErrorEpoch
    <3>2. Append(runtime.events, "BalanceEpochNotOk")
             \in Seq({"BalanceEpochOk", "BalanceEpochNotOk"})
      BY <1>2
    <3>3. QED
      BY <1>1, <1>2, <2>5, <3>1, <3>2 DEF FsmTakesErrorEpoch, Runtimes, TypeOK
  <2>6. QED
    BY <2>1, <2>2, <2>3, <2>4, <2>5
<1>4. InRuntime
  BY DEF BalanceEnds, MachineTakesEvent, FsmTakesActions, FsmTakesEpoch,
         FsmTakesErrorEpoch
<1>5. reused' \in BOOLEAN
  <2>1. CASE FsmTakesEpoch
    BY <2>1 DEF FsmTakesEpoch
  <2>2. CASE ~FsmTakesEpoch
    BY <2>2 DEF BalanceEnds, MachineTakesEvent, FsmTakesActions,
                FsmTakesErrorEpoch, TypeOK
  <2>3. QED
    BY <2>1, <2>2
<1>6. QED
  BY <1>3, <1>4, <1>5 DEF InRuntime, TypeOK, dbVars

\* Every variable keeps its type, whatever fails and however often the gateway
\* restarts.
THEOREM TypeCorrect == Spec => []TypeOK
<1> USE OldEpochAssumption
<1>1. Init => TypeOK
  <2> SUFFICES ASSUME Init PROVE TypeOK
    OBVIOUS
  <2>1. /\ queue["insert"] = <<>> /\ queue["remove"] = <<>>
        /\ queue["get"] = <<Do("GetTotalOfNetworks")>>
        /\ \A t \in Tasks : agenda[t] = <<>>
        /\ DOMAIN queue = Tasks /\ DOMAIN agenda = Tasks
    BY DEF Init, EmptyQueues, Tasks
  <2>2. queue["get"] \in Seq(GetCommands)
    BY <2>1 DEF GetCommands, Do
  <2>3. DbTyped
    BY <2>1, <2>2, EmptyAgendas DEF DbTyped, Tasks
  <2>4. table \in SUBSET Networks /\ hubTable \in SUBSET Networks /\ row \in Nat
    BY DEF Init
  <2>5. /\ notices = <<>> /\ runtime = NoRuntime /\ used = {} /\ unsaved = {}
        /\ served = FALSE /\ crossed = FALSE /\ reused = FALSE
    BY DEF Init
  <2>6. served \in BOOLEAN /\ crossed \in BOOLEAN /\ reused \in BOOLEAN
    BY <2>5
  <2>7. notices \in Seq(ServiceNotices) /\ used \in SUBSET Nat /\ unsaved \in SUBSET Nat
    BY <2>5
  <2>8. QED
    BY <2>3, <2>4, <2>5, <2>6, <2>7 DEF TypeOK, DbTyped
<1>2. TypeOK /\ [Next]_vars => TypeOK'
  <2> SUFFICES ASSUME TypeOK, [Next]_vars PROVE TypeOK'
    OBVIOUS
  <2>0. DbTyped
    BY DEF TypeOK, DbTyped
  <2>1. CASE TopologyChanges
    <3>1. UNCHANGED <<dbVars, agenda, notices, runtime, historyVars>>
      BY <2>1 DEF TopologyChanges
    <3>2. PICK n \in Networks :
             \/ \E what \in {"InsertNetwork", "InsertHub"} :
                  queue' = [queue EXCEPT !["insert"] = Append(queue["insert"], For(what, n))]
             \/ queue' = [queue EXCEPT !["remove"] = queue["remove"] \o
                    <<For("DeleteNetwork", n), For("DeleteAllHubByNetwork", n)>>]
      BY <2>1 DEF TopologyChanges
    <3>3. /\ \A what \in {"InsertNetwork", "InsertHub"} : For(what, n) \in InsertCommands
          /\ <<For("DeleteNetwork", n), For("DeleteAllHubByNetwork", n)>>
                \in Seq(RemoveCommands)
      BY DEF For, InsertCommands, RemoveCommands
    <3>4. DbTyped'
      <4>1. ASSUME NEW c \in InsertCommands,
                   queue' = [queue EXCEPT !["insert"] = Append(queue["insert"], c)]
            PROVE  DbTyped'
        BY <2>0, <3>1, <4>1 DEF DbTyped, Tasks
      <4>2. ASSUME NEW s \in Seq(RemoveCommands),
                   queue' = [queue EXCEPT !["remove"] = queue["remove"] \o s]
            PROVE  DbTyped'
        BY <2>0, <3>1, <4>2 DEF DbTyped, Tasks
      <4>3. QED
        BY <3>2, <3>3, <4>1, <4>2
    <3>5. QED
      BY <3>1, <3>4 DEF TypeOK, DbTyped, dbVars, historyVars
  <2>2. ASSUME NEW t \in Tasks, Says(t) PROVE TypeOK'
    <3>1. UNCHANGED <<dbVars, runtime, historyVars>>
      BY <2>2 DEF Says
    <3>2. notices' \in Seq(ServiceNotices)
      BY <2>2, SaysNotice DEF TypeOK
    <3>3. DbTyped'
      <4>1. <<>> \in InsertAgendas /\ <<>> \in RemoveAgendas /\ <<>> \in GetAgendas
        BY DEF InsertAgendas, RemoveAgendas, GetAgendas
      <4>2. QED
        BY <2>2, <4>1, TasksTyped DEF Says, NextIs
    <3>4. QED
      BY <3>1, <3>2, <3>3 DEF TypeOK, DbTyped, dbVars, historyVars
  <2>3. ASSUME NEW t \in Tasks, RunsStatement(t) PROVE TypeOK'
    BY <2>3, StatementTyped DEF TypeOK, DbTyped
  <2>4. ASSUME NEW t \in Tasks, StatementFails(t) PROVE TypeOK'
    <3>1. UNCHANGED <<dbVars, notices, runtime, served, used, reused>>
      BY <2>4 DEF StatementFails
    <3>2. unsaved' \in SUBSET Nat /\ crossed' \in BOOLEAN
      <4>1. Pending(<<Head(Now(t))>>) \in SUBSET Nat
        <5>1. CASE Head(Now(t)).do = "NewEpoch"
          <6>1. t = "insert"
            BY <2>4, <5>1, NextRemove, NextGet DEF StatementFails, NextIs, Tasks
          <6>2. Head(Now(t)) \in InsertCommands
            BY <2>4, <5>1, <6>1, NextInsert DEF StatementFails, NextIs
          <6>3. Head(Now(t)).epoch \in Nat
            BY <5>1, <6>2 DEF InsertCommands
          <6>4. QED
            BY <6>3 DEF Pending
        <5>2. CASE Head(Now(t)).do # "NewEpoch"
          BY <5>2 DEF Pending
        <5>3. QED
          BY <5>1, <5>2
      <4>2. QED
        BY <2>4, <4>1 DEF StatementFails, TypeOK
    <3>3. DbTyped'
      <4>1. <<>> \in InsertAgendas /\ <<>> \in RemoveAgendas /\ <<>> \in GetAgendas
            /\ <<Do("count")>> \in RemoveAgendas
            /\ <<Say(Do("ErrorEpoch"))>> \in GetAgendas
        BY DEF InsertAgendas, RemoveAgendas, GetAgendas, Answers, Do
      <4>2. /\ Head(Now(t)).do = "GetEpoch" => t = "get"
            /\ Head(Now(t)).do = "DeleteNetwork" => t = "remove"
        BY <2>4, NextInsert, NextRemove, NextGet DEF StatementFails, NextIs, Tasks
      <4>3. /\ t = "insert" => AfterError(Head(Now(t)).do) \in InsertAgendas
            /\ t = "remove" => AfterError(Head(Now(t)).do) \in RemoveAgendas
            /\ t = "get" => AfterError(Head(Now(t)).do) \in GetAgendas
        BY <4>1, <4>2 DEF AfterError
      <4>4. QED
        BY <2>4, <4>3, TasksTyped DEF StatementFails
    <3>4. QED
      BY <3>1, <3>2, <3>3 DEF TypeOK, DbTyped, dbVars
  <2>5. CASE ServiceTakesNotice
    <3>1. /\ notices # <<>> /\ notices' = Tail(notices)
          /\ UNCHANGED <<dbVars, queue, agenda, served, crossed, used, reused>>
      BY <2>5 DEF ServiceTakesNotice
    <3>2. Head(notices) \in ServiceNotices /\ notices' \in Seq(ServiceNotices)
      BY <3>1, HeadTailProperties DEF TypeOK
    <3>3. runtime' \in Runtimes \cup {NoRuntime}
      <4>1. CASE Exists /\ Head(notices).do \in {"Epoch", "ErrorEpoch"}
        <5>1. Head(notices) \in Answers /\ runtime \in Runtimes
          BY <3>2, <4>1 DEF ServiceNotices, Exists, TypeOK
        <5>2. runtime' = [runtime EXCEPT !.command = Append(runtime.command, Head(notices))]
          BY <2>5, <4>1 DEF ServiceTakesNotice
        <5>3. Append(runtime.command, Head(notices)) \in Seq(Answers)
          BY <5>1 DEF Runtimes
        <5>4. QED
          BY <5>1, <5>2, <5>3 DEF Runtimes
      <4>2. CASE ~Exists /\ Head(notices).do = "CreateRuntime"
        <5>1. runtime' = Spawned
          BY <2>5, <4>2 DEF ServiceTakesNotice
        <5>2. QED
          BY <5>1 DEF Spawned, Runtimes, Modes
      <4>3. CASE ~(Exists /\ Head(notices).do \in {"Epoch", "ErrorEpoch"})
                 /\ ~(~Exists /\ Head(notices).do = "CreateRuntime")
        BY <2>5, <4>3 DEF ServiceTakesNotice, TypeOK
      <4>4. QED
        BY <4>1, <4>2, <4>3
    <3>4. unsaved' \in SUBSET Nat
      <4>1. PendingRuntime \in SUBSET Nat
        BY PendingTyped
      <4>2. QED
        BY <2>5, <4>1 DEF ServiceTakesNotice, TypeOK
    <3>5. QED
      BY <3>1, <3>2, <3>3, <3>4 DEF TypeOK, dbVars
  <2>6. CASE ServiceForwards
    <3>1. /\ runtime \in Runtimes /\ runtime.up # <<>>
          /\ runtime' = [runtime EXCEPT !.up = Tail(runtime.up)]
          /\ UNCHANGED <<dbVars, agenda, notices, historyVars>>
      BY <2>6 DEF ServiceForwards, Exists, TypeOK
    <3>2. /\ runtime.up \in Seq(UpMessages) /\ Head(runtime.up) \in UpMessages
          /\ Tail(runtime.up) \in Seq(UpMessages)
      BY <3>1, HeadTailProperties DEF Runtimes
    <3>3. runtime' \in Runtimes
      BY <3>1, <3>2 DEF Runtimes
    <3>4. DbTyped'
      <4>1. CASE Head(runtime.up).do = "GetEpoch"
        <5>1. queue' = [queue EXCEPT !["get"] = Append(queue["get"], Head(runtime.up))]
          BY <2>6, <4>1 DEF ServiceForwards
        <5>2. Head(runtime.up) \in GetCommands
          BY <3>2, <4>1 DEF UpMessages, GetCommands
        <5>3. QED
          BY <2>0, <3>1, <5>1, <5>2 DEF DbTyped, Tasks
      <4>2. CASE Head(runtime.up).do # "GetEpoch"
        <5>1. queue' = [queue EXCEPT !["insert"] = Append(queue["insert"], Head(runtime.up))]
          BY <2>6, <4>2 DEF ServiceForwards
        <5>2. Head(runtime.up) \in InsertCommands
          BY <3>2, <4>2 DEF UpMessages, InsertCommands
        <5>3. QED
          BY <2>0, <3>1, <5>1, <5>2 DEF DbTyped, Tasks
      <4>3. QED
        BY <4>1, <4>2
    <3>5. QED
      BY <3>1, <3>3, <3>4 DEF TypeOK, DbTyped, dbVars, historyVars
  <2>7. CASE BalanceEnds \/ MachineTakesEvent \/ FsmTakesActions
               \/ FsmTakesEpoch \/ FsmTakesErrorEpoch
    BY <2>7, RuntimeStepTyped
  <2>8. CASE Restarts
    <3>1. /\ queue'["insert"] = <<>> /\ queue'["remove"] = <<>>
          /\ queue'["get"] = <<Do("GetTotalOfNetworks")>>
          /\ \A t \in Tasks : agenda'[t] = <<>>
          /\ DOMAIN queue' = Tasks /\ DOMAIN agenda' = Tasks
      BY <2>8 DEF Restarts, EmptyQueues, Tasks
    <3>2. queue'["get"] \in Seq(GetCommands)
      BY <3>1 DEF GetCommands, Do
    <3>3. DbTyped'
      BY <3>1, <3>2, EmptyAgendas DEF DbTyped, Tasks
    <3>4. PendingRuntime \in SUBSET Nat /\ PendingStore \in SUBSET Nat
      BY PendingTyped
    <3>5. /\ notices' = <<>> /\ runtime' = NoRuntime
          /\ served' = FALSE /\ crossed' = FALSE
          /\ unsaved' = unsaved \cup PendingRuntime \cup PendingStore
          /\ UNCHANGED <<table, hubTable, row, used, reused>>
      BY <2>8 DEF Restarts, dbVars
    <3>6. served' \in BOOLEAN /\ crossed' \in BOOLEAN
      BY <3>5
    <3>7. notices' \in Seq(ServiceNotices) /\ unsaved' \in SUBSET Nat
      BY <3>4, <3>5 DEF TypeOK
    <3>8. QED
      BY <3>3, <3>5, <3>6, <3>7 DEF TypeOK, DbTyped
  <2>9. CASE UNCHANGED vars
    BY <2>9 DEF vars, TypeOK, dbVars, historyVars
  <2>10. QED
    BY <2>1, <2>2, <2>3, <2>4, <2>5, <2>6, <2>7, <2>8, <2>9 DEF Next
<1>3. QED
  BY <1>1, <1>2, PTL DEF Spec
-----------------------------------------------------------------------------
(* The mode that edge_state tells.                                         *)

\* Until a second answer comes, what edge_state tells, or will tell once fsm
\* has done the actions under way, is the mode of the machine; the tick tells
\* of a balance from the moment its epoch is known.
ModeInv ==
  Exists =>
    /\ runtime.machine = "init" =>
         \A i \in DOMAIN runtime.actions : runtime.actions[i] = "init"
    /\ ~ runtime.again =>
      /\ runtime.machine = "init" /\ runtime.events # <<>>
           /\ Head(runtime.events) = "BalanceEpochOk" => runtime.state = "balance"
      /\ runtime.machine = "balance" =>
           /\ \A i \in DOMAIN runtime.actions :
                runtime.actions[i] \in {"init", "balance"}
           /\ runtime.state = "balance"
      /\ runtime.machine \in {"safe", "normal"} =>
           IF runtime.actions = <<>> THEN runtime.state = runtime.machine
           ELSE runtime.actions[Len(runtime.actions)] = runtime.machine

LEMMA AppendedActions ==
  ASSUME NEW q \in Seq(Modes), NEW m \in Modes
  PROVE  /\ Append(q, m) # <<>> /\ Append(q, m)[Len(Append(q, m))] = m
         /\ \A i \in DOMAIN Append(q, m) :
              Append(q, m)[i] = m \/ (i \in DOMAIN q /\ Append(q, m)[i] = q[i])
OBVIOUS

LEMMA TakenActions ==
  ASSUME NEW q \in Seq(Modes), q # <<>>
  PROVE  /\ 1 \in DOMAIN q /\ Head(q) = q[1]
         /\ \A i \in DOMAIN Tail(q) : \E j \in DOMAIN q : Tail(q)[i] = q[j]
         /\ IF Tail(q) = <<>> THEN Head(q) = q[Len(q)]
            ELSE Tail(q)[Len(Tail(q))] = q[Len(q)]
<1>1. /\ Len(q) \in Nat /\ Len(q) >= 1 /\ DOMAIN q = 1..Len(q)
      /\ Head(q) = q[1] /\ Len(Tail(q)) = Len(q) - 1
      /\ Tail(q) \in Seq(Modes)
      /\ \A i \in 1..Len(q) - 1 : Tail(q)[i] = q[i + 1]
  OBVIOUS
<1>2. \A i \in DOMAIN Tail(q) : i + 1 \in DOMAIN q /\ Tail(q)[i] = q[i + 1]
  BY <1>1
<1>3. CASE Len(q) = 1
  <2>1. Tail(q) = <<>>
    <3>1. Len(Tail(q)) = 0
      BY <1>1, <1>3
    <3>2. QED
      BY <1>1, <3>1, EmptySeq
  <2>2. Head(q) = q[Len(q)]
    BY <1>1, <1>3
  <2>3. QED
    BY <1>1, <1>2, <2>1, <2>2
<1>4. CASE Len(q) > 1
  <2>1. Len(q) - 1 \in 1..Len(q) - 1 /\ (Len(q) - 1) + 1 = Len(q)
    BY <1>1, <1>4
  <2>2. Tail(q)[Len(Tail(q))] = q[Len(q)]
    <3>1. Tail(q)[Len(q) - 1] = q[(Len(q) - 1) + 1]
      BY <1>1, <2>1
    <3>2. QED
      BY <1>1, <2>1, <3>1
  <2>3. Tail(q) # <<>>
    BY <1>1, <1>4
  <2>4. QED
    BY <1>1, <1>2, <2>2, <2>3
<1>5. QED
  BY <1>1, <1>3, <1>4

LEMMA ModeStep ==
  ASSUME TypeOK, ModeInv, [Next]_vars
  PROVE  ModeInv'
<1>1. Exists => runtime \in Runtimes
  BY DEF Exists, TypeOK
<1>2. ASSUME runtime' = runtime PROVE ModeInv'
  BY <1>2 DEF ModeInv, Exists
<1>3. ASSUME runtime' = NoRuntime PROVE ModeInv'
  BY <1>3 DEF ModeInv, Exists
<1>4. ASSUME Exists,
             /\ runtime'.machine = runtime.machine /\ runtime'.events = runtime.events
             /\ runtime'.actions = runtime.actions /\ runtime'.state = runtime.state
             /\ runtime'.again = runtime.again
      PROVE  ModeInv'
  BY <1>4 DEF ModeInv
<1>5. CASE ServiceTakesNotice
  <2>1. CASE ~Exists /\ Head(notices).do = "CreateRuntime"
    <3>1. runtime' = Spawned
      BY <1>5, <2>1 DEF ServiceTakesNotice
    <3>2. /\ runtime'.machine = "init" /\ runtime'.events = <<>>
          /\ runtime'.actions = <<"init">>
      BY <3>1 DEF Spawned
    <3>3. QED
      BY <3>2 DEF ModeInv
  <2>2. CASE Exists /\ Head(notices).do \in {"Epoch", "ErrorEpoch"}
    <3>1. runtime' = [runtime EXCEPT !.command = Append(runtime.command, Head(notices))]
      BY <1>5, <2>2 DEF ServiceTakesNotice
    <3>2. QED
      BY <1>1, <1>4, <2>2, <3>1 DEF Runtimes
  <2>3. CASE /\ ~(~Exists /\ Head(notices).do = "CreateRuntime")
             /\ ~(Exists /\ Head(notices).do \in {"Epoch", "ErrorEpoch"})
    BY <1>2, <1>3, <1>5, <2>3 DEF ServiceTakesNotice
  <2>4. QED
    BY <2>1, <2>2, <2>3
<1>6. CASE ServiceForwards
  BY <1>1, <1>4, <1>6 DEF ServiceForwards, Runtimes
<1>7. CASE MachineTakesEvent
  <2>1. /\ runtime \in Runtimes /\ runtime.events # <<>>
        /\ runtime.actions \in Seq(Modes) /\ "balance" \in Modes /\ "safe" \in Modes
    BY <1>1, <1>7 DEF MachineTakesEvent, Runtimes, Modes
  <2>2. CASE runtime.machine # "init"
    <3>1. /\ runtime'.machine = runtime.machine /\ runtime'.actions = runtime.actions
          /\ runtime'.state = runtime.state /\ runtime'.again = runtime.again
      BY <1>7, <2>1, <2>2 DEF MachineTakesEvent, Runtimes
    <3>2. QED
      BY <1>7, <2>2, <3>1 DEF ModeInv, MachineTakesEvent
  <2>3. CASE runtime.machine = "init" /\ Head(runtime.events) = "BalanceEpochOk"
    <3>1. /\ runtime'.machine = "balance"
          /\ runtime'.actions = Append(runtime.actions, "balance")
          /\ runtime'.state = runtime.state /\ runtime'.again = runtime.again
      BY <1>7, <2>1, <2>3 DEF MachineTakesEvent, Runtimes
    <3>2. QED
      BY <1>7, <2>1, <2>3, <3>1, AppendedActions DEF ModeInv, MachineTakesEvent
  <2>4. CASE runtime.machine = "init" /\ Head(runtime.events) # "BalanceEpochOk"
    <3>1. /\ runtime'.machine = "safe"
          /\ runtime'.actions = Append(runtime.actions, "safe")
      BY <1>7, <2>1, <2>4 DEF MachineTakesEvent, Runtimes
    <3>2. QED
      BY <2>1, <3>1, AppendedActions DEF ModeInv
  <2>5. QED
    BY <2>2, <2>3, <2>4
<1>8. CASE BalanceEnds
  <2>1. NoRuntime.machine = "none"
    BY DEF NoRuntime
  <2>2. runtime \in Runtimes
    BY <1>1, <1>8, <2>1 DEF BalanceEnds, Exists
  <2>3. PICK next \in {"normal", "safe"} :
               runtime' = [runtime EXCEPT !.machine = next,
                                          !.actions = Append(runtime.actions, next)]
    BY <1>8 DEF BalanceEnds
  <2>4. /\ runtime'.machine = next /\ runtime'.actions = Append(runtime.actions, next)
        /\ runtime.actions \in Seq(Modes) /\ next \in Modes
    BY <2>2, <2>3 DEF Runtimes, Modes
  <2>5. QED
    BY <2>4, AppendedActions DEF ModeInv
<1>9. CASE FsmTakesActions
  <2>1. /\ runtime \in Runtimes /\ Exists /\ runtime.actions # <<>>
        /\ runtime.actions \in Seq(Modes) /\ runtime.machine \in Modes
    BY <1>1, <1>9 DEF FsmTakesActions, Runtimes
  <2>2. /\ runtime'.machine = runtime.machine /\ runtime'.events = runtime.events
        /\ runtime'.actions = Tail(runtime.actions) /\ runtime'.again = runtime.again
        /\ runtime'.state = TellsEdgeState(Head(runtime.actions))
    BY <1>9, <2>1 DEF FsmTakesActions, Runtimes
  <2>3. /\ 1 \in DOMAIN runtime.actions /\ Head(runtime.actions) = runtime.actions[1]
        /\ \A i \in DOMAIN runtime'.actions : \E j \in DOMAIN runtime.actions :
             runtime'.actions[i] = runtime.actions[j]
        /\ IF runtime'.actions = <<>>
           THEN Head(runtime.actions) = runtime.actions[Len(runtime.actions)]
           ELSE runtime'.actions[Len(runtime'.actions)]
                  = runtime.actions[Len(runtime.actions)]
    BY <2>1, <2>2, TakenActions
  <2>4. CASE runtime.machine = "init"
    BY <2>1, <2>2, <2>3, <2>4 DEF ModeInv, TellsEdgeState
  <2>5. CASE runtime.machine = "balance"
    BY <2>1, <2>2, <2>3, <2>5 DEF ModeInv, TellsEdgeState
  <2>6. CASE runtime.machine \in {"safe", "normal"}
    <3>1. CASE runtime.again
      BY <2>2, <2>6, <3>1 DEF ModeInv
    <3>2. CASE ~ runtime.again
      <4>1. runtime.actions[Len(runtime.actions)] = runtime.machine
        BY <2>1, <2>6, <3>2 DEF ModeInv
      <4>2. QED
        BY <2>2, <2>3, <2>6, <4>1 DEF ModeInv, TellsEdgeState
    <3>3. QED
      BY <3>1, <3>2
  <2>7. QED
    BY <2>1, <2>4, <2>5, <2>6 DEF Modes
<1>10. CASE FsmTakesEpoch
  <2>1. runtime \in Runtimes /\ Exists
    BY <1>1, <1>10 DEF FsmTakesEpoch
  <2>2. /\ runtime'.machine = runtime.machine /\ runtime'.actions = runtime.actions
        /\ runtime'.state = "balance"
        /\ runtime'.again = (runtime.machine # "init" \/ runtime.events # <<>>)
    BY <1>10, <2>1 DEF FsmTakesEpoch, Runtimes
  <2>3. runtime'.machine = "init" =>
          \A i \in DOMAIN runtime'.actions : runtime'.actions[i] = "init"
    BY <2>1, <2>2 DEF ModeInv
  <2>4. ~ runtime'.again => runtime'.machine = "init"
    BY <2>2
  <2>5. QED
    BY <2>2, <2>3, <2>4 DEF ModeInv
<1>11. CASE FsmTakesErrorEpoch
  <2>1. /\ runtime \in Runtimes /\ Exists
        /\ runtime.events \in Seq({"BalanceEpochOk", "BalanceEpochNotOk"})
    BY <1>1, <1>11 DEF FsmTakesErrorEpoch, Runtimes
  <2>2. /\ runtime'.machine = runtime.machine /\ runtime'.actions = runtime.actions
        /\ runtime'.state = runtime.state /\ runtime'.again = runtime.again
        /\ runtime'.events = Append(runtime.events, "BalanceEpochNotOk")
    BY <1>11, <2>1 DEF FsmTakesErrorEpoch, Runtimes
  <2>3. Head(runtime'.events) = IF runtime.events = <<>> THEN "BalanceEpochNotOk"
                                ELSE Head(runtime.events)
    BY <2>1, <2>2
  <2>4. QED
    BY <2>1, <2>2, <2>3 DEF ModeInv
<1>12. CASE TopologyChanges \/ UNCHANGED vars
            \/ \E t \in Tasks : Says(t) \/ RunsStatement(t) \/ StatementFails(t)
  BY <1>2, <1>12 DEF TopologyChanges, Says, RunsStatement, StatementFails, vars
<1>13. CASE Restarts
  BY <1>3, <1>13 DEF Restarts
<1>14. QED
  BY <1>5, <1>6, <1>7, <1>8, <1>9, <1>10, <1>11, <1>12, <1>13 DEF Next

\* Once the runtime has nothing to do, edge_state tells the mode of the
\* machine, unless a second epoch answer was taken (edge_state.rs, fsm/logic.rs
\* 122-133): for any networks and bounds.
THEOREM ModeIsToldHolds == Spec => []ModeIsTold
<1>1. Init => ModeInv
  BY DEF Init, ModeInv, Exists
<1>2. TypeOK /\ ModeInv /\ [Next]_vars => ModeInv'
  BY ModeStep
<1>3. TypeOK /\ ModeInv => ModeIsTold
  <2>1. SUFFICES ASSUME TypeOK, ModeInv, Exists, runtime.machine # "init",
                        runtime.actions = <<>>, ~ runtime.again
                 PROVE  runtime.state = runtime.machine
    BY DEF ModeIsTold
  <2>2. runtime.machine \in {"balance", "safe", "normal"}
    BY <2>1 DEF TypeOK, Exists, Runtimes, Modes
  <2>3. QED
    BY <2>1, <2>2 DEF ModeInv
<1>4. QED
  BY <1>1, <1>2, <1>3, TypeCorrect, PTL DEF Spec
-----------------------------------------------------------------------------
(* Whether there will be a runtime.                                        *)

\* There is a runtime once FsmService has taken the notices of q, if there is
\* one now exactly if "now" says so.
Leaves(q, now) ==
    \/ \E i \in DOMAIN q :
         /\ q[i].do = "CreateRuntime"
         /\ \A j \in DOMAIN q : j > i => q[j].do # "DeleteRuntime"
    \/ now /\ \A j \in DOMAIN q : q[j].do # "DeleteRuntime"
WillExist == Leaves(notices, Exists)

SaysCreate == \/ agenda["insert"] = <<Say(Do("CreateRuntime"))>>
              \/ agenda["get"] = <<Say(Do("CreateRuntime"))>>
SaysDelete == agenda["remove"] = <<Say(Do("DeleteRuntime"))>>
WillDelete == agenda["remove"] = <<Do("count")>> /\ table = {}
MayStore   == \/ agenda["get"] = <<Do("count_hubs")>>
              \/ \E n \in Networks : agenda["insert"] = <<For("insert_hub", n)>>

\* A database task that has counted the networks, or served a hub, still finds
\* what it found when it speaks; and once nobody has anything left to say, the
\* notices under way lead to a runtime exactly if a hub was served.
FollowsInv ==
    ~crossed =>
      /\ served \/ MayStore => table # {}
      /\ SaysCreate => served
      /\ SaysDelete => ~served
      /\ ~SaysCreate /\ ~SaysDelete /\ ~WillDelete => (WillExist <=> served)

LEMMA LeavesAppend ==
  ASSUME NEW q \in Seq(ServiceNotices), NEW n \in ServiceNotices,
         NEW now \in BOOLEAN
  PROVE  /\ n.do = "CreateRuntime" => Leaves(Append(q, n), now)
         /\ n.do = "DeleteRuntime" => ~ Leaves(Append(q, n), now)
         /\ n.do \notin {"CreateRuntime", "DeleteRuntime"} =>
              (Leaves(Append(q, n), now) <=> Leaves(q, now))
<1> DEFINE r == Append(q, n)
<1>1. /\ Len(q) \in Nat /\ DOMAIN q = 1..Len(q) /\ DOMAIN r = 1..(Len(q) + 1)
      /\ r[Len(q) + 1] = n /\ \A i \in 1..Len(q) : r[i] = q[i]
  OBVIOUS
<1>2. CASE n.do = "CreateRuntime"
  BY <1>1, <1>2 DEF Leaves
<1>3. CASE n.do = "DeleteRuntime"
  <2>1. Len(q) + 1 \in DOMAIN r /\ \A i \in DOMAIN r : i # Len(q) + 1 => Len(q) + 1 > i
    BY <1>1
  <2>2. QED
    BY <1>1, <1>3, <2>1 DEF Leaves
<1>4. CASE n.do \notin {"CreateRuntime", "DeleteRuntime"}
  <2>1. DOMAIN r = DOMAIN q \cup {Len(q) + 1}
    BY <1>1
  <2>2. \A i \in DOMAIN q : r[i].do = q[i].do
    BY <1>1
  <2>3. r[Len(q) + 1].do \notin {"CreateRuntime", "DeleteRuntime"}
    BY <1>1, <1>4
  <2>4. QED
    BY <1>4, <2>1, <2>2, <2>3 DEF Leaves
<1>5. QED
  BY <1>2, <1>3, <1>4

LEMMA LeavesTail ==
  ASSUME NEW q \in Seq(ServiceNotices), q # <<>>, NEW now \in BOOLEAN
  PROVE  /\ Head(q).do = "CreateRuntime" => (Leaves(q, now) <=> Leaves(Tail(q), TRUE))
         /\ Head(q).do = "DeleteRuntime" => (Leaves(q, now) <=> Leaves(Tail(q), FALSE))
         /\ Head(q).do \notin {"CreateRuntime", "DeleteRuntime"} =>
              (Leaves(q, now) <=> Leaves(Tail(q), now))
<1> DEFINE r == Tail(q)
<1>1. /\ Len(q) \in Nat /\ 1 \in DOMAIN q /\ DOMAIN q = 1..Len(q)
      /\ DOMAIN r = 1..(Len(q) - 1) /\ Head(q) = q[1]
      /\ \A i \in 1..(Len(q) - 1) : r[i] = q[i + 1]
  OBVIOUS
<1>2. /\ \A i \in DOMAIN r : i \in Nat /\ i + 1 \in DOMAIN q /\ i + 1 > 1 /\ r[i] = q[i + 1]
      /\ \A i \in DOMAIN q : i # 1 => i > 1 /\ i - 1 \in DOMAIN r /\ r[i - 1] = q[i]
      /\ \A i \in DOMAIN q : i \in Nat
  BY <1>1
<1>3. (\A j \in DOMAIN r : r[j].do # "DeleteRuntime")
        <=> (\A j \in DOMAIN q : j > 1 => q[j].do # "DeleteRuntime")
  BY <1>2
<1> DEFINE C(i, z) == z[i].do = "CreateRuntime"
                      /\ \A j \in DOMAIN z : j > i => z[j].do # "DeleteRuntime"
<1>4. ASSUME NEW i \in DOMAIN r PROVE C(i, r) <=> C(i + 1, q)
  <2>1. \A j \in DOMAIN r : j > i <=> j + 1 > i + 1
    BY <1>2
  <2>2. \A j \in DOMAIN q : j > i + 1 => j # 1 /\ j - 1 > i
    BY <1>2
  <2>3. QED
    BY <1>2, <2>1, <2>2
<1>5. (\E i \in DOMAIN r : C(i, r)) <=> (\E i \in DOMAIN q : i > 1 /\ C(i, q))
  <2>1. ASSUME NEW i \in DOMAIN q, i > 1, C(i, q) PROVE \E k \in DOMAIN r : C(k, r)
    <3>1. i - 1 \in DOMAIN r /\ (i - 1) + 1 = i
      BY <1>2, <2>1
    <3>2. QED
      BY <1>4, <2>1, <3>1
  <2>2. QED
    BY <1>2, <1>4, <2>1
<1>6. \A i \in DOMAIN q : i > 1 \/ i = 1
  BY <1>2
<1> HIDE DEF C
<1>7. (\E i \in DOMAIN q : C(i, q)) <=> C(1, q) \/ \E i \in DOMAIN r : C(i, r)
  BY <1>1, <1>5, <1>6
<1>8. /\ Leaves(q, now) <=> (\E i \in DOMAIN q : C(i, q))
                            \/ (now /\ \A j \in DOMAIN q : q[j].do # "DeleteRuntime")
      /\ \A b : Leaves(r, b) <=> (\E i \in DOMAIN r : C(i, r))
                            \/ (b /\ \A j \in DOMAIN r : r[j].do # "DeleteRuntime")
  BY DEF Leaves, C
<1>9. /\ C(1, q) <=> Head(q).do = "CreateRuntime"
                     /\ \A j \in DOMAIN r : r[j].do # "DeleteRuntime"
      /\ (\A j \in DOMAIN q : q[j].do # "DeleteRuntime")
           <=> Head(q).do # "DeleteRuntime" /\ \A j \in DOMAIN r : r[j].do # "DeleteRuntime"
  <2>1. C(1, q) <=> Head(q).do = "CreateRuntime"
                     /\ \A j \in DOMAIN r : r[j].do # "DeleteRuntime"
    BY <1>1, <1>3 DEF C
  <2>2. QED
    BY <1>1, <1>3, <1>6, <2>1
<1>10. CASE Head(q).do = "CreateRuntime"
  BY <1>7, <1>8, <1>9, <1>10
<1>11. CASE Head(q).do = "DeleteRuntime"
  BY <1>7, <1>8, <1>9, <1>11
<1>12. CASE Head(q).do \notin {"CreateRuntime", "DeleteRuntime"}
  BY <1>7, <1>8, <1>9, <1>12
<1>13. QED
  BY <1>10, <1>11, <1>12


LEMMA AgendasDiffer ==
  /\ \A n : <<Say(n)>> # <<>> /\ <<Say(n)>> # <<Do("count_hubs")>>
            /\ <<Say(n)>> # <<Do("count")>>
  /\ \A m, n : <<Say(n)>> # <<For("insert_hub", m)>>
  /\ \A n : <<For("insert_hub", n)>> # <<>>
  /\ <<Do("count_hubs")>> # <<>> /\ <<Do("count")>> # <<>>
  /\ \A n : <<Say(n)>> = <<Say(Do("CreateRuntime"))>> <=> n = Do("CreateRuntime")
  /\ \A n : <<Say(n)>> = <<Say(Do("DeleteRuntime"))>> <=> n = Do("DeleteRuntime")
  /\ Do("CreateRuntime").do = "CreateRuntime" /\ Do("DeleteRuntime").do = "DeleteRuntime"
<1>1. \A n : Say(n).do = "say" /\ Say(n).what = n /\ For("insert_hub", n).do = "insert_hub"
  BY DEF Say, For
<1>2. /\ Do("count_hubs").do = "count_hubs" /\ Do("count").do = "count"
      /\ Do("CreateRuntime").do = "CreateRuntime" /\ Do("DeleteRuntime").do = "DeleteRuntime"
  BY DEF Do
<1>3. \A x, y : <<x>> = <<y>> <=> x = y
  OBVIOUS
<1>4. \A x : <<x>> # <<>>
  OBVIOUS
<1>5. \A m, n : Say(n) # For("insert_hub", m) /\ Say(n) # Do("count_hubs")
                /\ Say(n) # Do("count") /\ (Say(n) = Say(m) <=> n = m)
  BY <1>1, <1>2
<1>6. QED
  BY <1>2, <1>3, <1>4, <1>5

\* A statement of the task that stores.
LEMMA FollowsInsert ==
  ASSUME TypeOK, FollowsInv, RunsStatement("insert")
  PROVE  FollowsInv'
<1> USE DEF dbVars, historyVars
<1>0. /\ notices' = notices /\ runtime' = runtime
      /\ (WillExist' <=> WillExist)
  BY DEF RunsStatement, WillExist, Exists, Leaves
<1>1. ASSUME NEW steps, Then("insert", steps)
      PROVE  agenda'["insert"] = steps /\ agenda'["remove"] = agenda["remove"]
             /\ agenda'["get"] = agenda["get"]
  BY <1>1, ThenLeaves DEF Tasks
<1>2. CASE InsertsNetwork
  <2>1. /\ agenda'["insert"] = <<>> /\ agenda["insert"] = <<>>
        /\ agenda'["remove"] = agenda["remove"] /\ agenda'["get"] = agenda["get"]
    BY <1>1, <1>2, NextInsert DEF InsertsNetwork
  <2>2. /\ table' # {} /\ served' = served /\ crossed' = (crossed \/ Deleting)
    BY <1>2 DEF InsertsNetwork
  <2>3. SUFFICES ASSUME ~crossed' PROVE FollowsInv'
    BY DEF FollowsInv
  <2>4. ~crossed /\ agenda["remove"] = <<>>
    BY <2>2, <2>3 DEF Deleting
  <2>5. QED
    BY <1>0, <2>1, <2>2, <2>4, AgendasDiffer
       DEF FollowsInv, SaysCreate, SaysDelete, WillDelete, MayStore
<1>3. CASE CountsNetworksForHub
  <2>1. /\ agenda["insert"] = <<>>
        /\ \/ agenda'["insert"] = <<>>
           \/ table # {} /\ \E n : agenda'["insert"] = <<For("insert_hub", n)>>
        /\ agenda'["remove"] = agenda["remove"] /\ agenda'["get"] = agenda["get"]
    BY <1>1, <1>3, NextInsert DEF CountsNetworksForHub
  <2>2. /\ table' = table /\ served' = served /\ crossed' = crossed
    BY <1>3 DEF CountsNetworksForHub
  <2>3. QED
    BY <1>0, <2>1, <2>2, AgendasDiffer
       DEF FollowsInv, SaysCreate, SaysDelete, WillDelete, MayStore
<1>4. CASE InsertsHub
  <2>1. /\ agenda'["insert"] = <<Say(Do("CreateRuntime"))>>
        /\ \E n \in Networks : agenda["insert"] = <<For("insert_hub", n)>>
        /\ agenda'["remove"] = agenda["remove"] /\ agenda'["get"] = agenda["get"]
    BY <1>1, <1>4, NextInsert DEF InsertsHub
  <2>2. /\ table' = table /\ served' = TRUE /\ crossed' = (crossed \/ Deleting)
    BY <1>4 DEF InsertsHub
  <2>3. SUFFICES ASSUME ~crossed' PROVE FollowsInv'
    BY DEF FollowsInv
  <2>4. ~crossed /\ agenda["remove"] = <<>> /\ table # {}
    BY <2>1, <2>2, <2>3 DEF Deleting, FollowsInv, MayStore
  <2>5. SaysCreate' /\ ~SaysDelete'
    BY <2>1, <2>4, AgendasDiffer DEF SaysCreate, SaysDelete
  <2>6. QED
    BY <2>2, <2>4, <2>5 DEF FollowsInv
<1>5. CASE StoresEpoch
  <2>1. /\ agenda'["insert"] = <<>> /\ agenda["insert"] = <<>>
        /\ agenda'["remove"] = agenda["remove"] /\ agenda'["get"] = agenda["get"]
    BY <1>1, <1>5, NextInsert DEF StoresEpoch
  <2>2. /\ table' = table /\ served' = served /\ crossed' = crossed
    BY <1>5 DEF StoresEpoch
  <2>3. QED
    BY <1>0, <2>1, <2>2
       DEF FollowsInv, SaysCreate, SaysDelete, WillDelete, MayStore
<1>6. QED
  BY <1>2, <1>3, <1>4, <1>5 DEF RunsStatement

\* A statement of the task that deletes.
LEMMA FollowsRemove ==
  ASSUME TypeOK, FollowsInv, RunsStatement("remove")
  PROVE  FollowsInv'
<1> USE DEF dbVars, historyVars
<1>0. /\ notices' = notices /\ runtime' = runtime
      /\ (WillExist' <=> WillExist)
  BY DEF RunsStatement, WillExist, Exists, Leaves
<1>1. ASSUME NEW steps, Then("remove", steps)
      PROVE  agenda'["remove"] = steps /\ agenda'["insert"] = agenda["insert"]
             /\ agenda'["get"] = agenda["get"]
  BY <1>1, ThenLeaves DEF Tasks
<1>2. CASE DeletesNetwork
  <2>1. /\ agenda'["remove"] = <<Do("count")>> /\ agenda["remove"] = <<>>
        /\ agenda'["insert"] = agenda["insert"] /\ agenda'["get"] = agenda["get"]
    BY <1>1, <1>2, NextRemove DEF DeletesNetwork
  <2>2. /\ table' # {} => table # {}
        /\ served' = (served /\ table' # {}) /\ crossed' = (crossed \/ Storing)
    BY <1>2 DEF DeletesNetwork
  <2>3. SUFFICES ASSUME ~crossed' PROVE FollowsInv'
    BY DEF FollowsInv
  <2>4. /\ ~crossed /\ agenda["insert"] = <<>>
        /\ agenda["get"] # <<Say(Do("CreateRuntime"))>>
    BY <2>2, <2>3 DEF Storing
  <2>5. agenda["get"] # <<Do("count_hubs")>>
    <3>1. ~NextIs("get", "count_hubs")
      BY <2>2, <2>3 DEF Storing
    <3>2. QED
      BY <3>1 DEF NextIs, Now, Do
  <2>6. ~MayStore' /\ ~SaysCreate' /\ ~SaysDelete' /\ ~SaysCreate /\ ~SaysDelete
        /\ (WillDelete' <=> table' = {}) /\ ~WillDelete
    BY <2>1, <2>4, <2>5, AgendasDiffer
       DEF MayStore, SaysCreate, SaysDelete, WillDelete
  <2>7. QED
    BY <1>0, <2>2, <2>4, <2>6 DEF FollowsInv
<1>3. CASE CountsNetworksLeft
  <2>1. /\ agenda["remove"] = <<Do("count")>>
        /\ agenda'["remove"] = IF table = {} THEN <<Say(Do("DeleteRuntime"))>> ELSE <<>>
        /\ agenda'["insert"] = agenda["insert"] /\ agenda'["get"] = agenda["get"]
    BY <1>1, <1>3, NextRemove DEF CountsNetworksLeft
  <2>2. /\ table' = table /\ served' = served /\ crossed' = crossed
    BY <1>3 DEF CountsNetworksLeft
  <2>3. (MayStore' <=> MayStore) /\ (SaysCreate' <=> SaysCreate)
    BY <2>1 DEF MayStore, SaysCreate
  <2>4. CASE table = {}
    <3>1. SaysDelete'
      BY <2>1, <2>4 DEF SaysDelete
    <3>2. QED
      BY <2>2, <2>3, <2>4, <3>1 DEF FollowsInv
  <2>5. CASE table # {}
    <3>1. ~SaysDelete' /\ ~SaysDelete /\ ~WillDelete' /\ ~WillDelete
      BY <2>1, <2>2, <2>5, AgendasDiffer DEF SaysDelete, WillDelete
    <3>2. QED
      BY <1>0, <2>2, <2>3, <2>5, <3>1 DEF FollowsInv
  <2>6. QED
    BY <2>4, <2>5
<1>4. CASE DeletesHubsOfNetwork
  <2>1. /\ agenda["remove"] = <<>> /\ agenda'["remove"] = <<>>
        /\ agenda'["insert"] = agenda["insert"] /\ agenda'["get"] = agenda["get"]
    BY <1>1, <1>4, NextRemove DEF DeletesHubsOfNetwork
  <2>2. /\ table' = table /\ served' = served /\ crossed' = crossed
    BY <1>4 DEF DeletesHubsOfNetwork
  <2>3. QED
    BY <1>0, <2>1, <2>2
       DEF FollowsInv, SaysCreate, SaysDelete, WillDelete, MayStore
<1>5. QED
  BY <1>2, <1>3, <1>4 DEF RunsStatement

\* A statement of the task that reads.
LEMMA FollowsGet ==
  ASSUME TypeOK, FollowsInv, RunsStatement("get")
  PROVE  FollowsInv'
<1> USE DEF dbVars, historyVars
<1>0. /\ notices' = notices /\ runtime' = runtime
      /\ (WillExist' <=> WillExist)
  BY DEF RunsStatement, WillExist, Exists, Leaves
<1>1. ASSUME NEW steps, Then("get", steps)
      PROVE  agenda'["get"] = steps /\ agenda'["insert"] = agenda["insert"]
             /\ agenda'["remove"] = agenda["remove"]
  BY <1>1, ThenLeaves DEF Tasks
<1>2. CASE ReadsEpoch
  <2>1. /\ agenda["get"] = <<>> /\ agenda'["get"] = <<Say(With("Epoch", row))>>
        /\ agenda'["insert"] = agenda["insert"] /\ agenda'["remove"] = agenda["remove"]
    BY <1>1, <1>2, NextGet DEF ReadsEpoch
  <2>2. With("Epoch", row) # Do("CreateRuntime")
    <3>1. With("Epoch", row).do = "Epoch"
      BY DEF With
    <3>2. QED
      BY <3>1, AgendasDiffer
  <2>3. /\ table' = table /\ served' = served /\ crossed' = crossed
    BY <1>2 DEF ReadsEpoch
  <2>4. QED
    BY <1>0, <2>1, <2>2, <2>3, AgendasDiffer
       DEF FollowsInv, SaysCreate, SaysDelete, WillDelete, MayStore
<1>3. CASE CountsNetworks
  <2>1. /\ agenda["get"] = <<>>
        /\ agenda'["get"] = IF table = {} THEN <<>> ELSE <<Do("count_hubs")>>
        /\ agenda'["insert"] = agenda["insert"] /\ agenda'["remove"] = agenda["remove"]
    BY <1>1, <1>3, NextGet DEF CountsNetworks
  <2>2. /\ table' = table /\ served' = served /\ crossed' = crossed
    BY <1>3 DEF CountsNetworks
  <2>3. QED
    BY <1>0, <2>1, <2>2, AgendasDiffer
       DEF FollowsInv, SaysCreate, SaysDelete, WillDelete, MayStore
<1>4. CASE CountsHubs
  <2>1. /\ agenda["get"] = <<Do("count_hubs")>>
        /\ agenda'["get"] = IF hubTable = {} THEN <<>> ELSE <<Say(Do("CreateRuntime"))>>
        /\ agenda'["insert"] = agenda["insert"] /\ agenda'["remove"] = agenda["remove"]
    BY <1>1, <1>4, NextGet DEF CountsHubs
  <2>2. /\ table' = table /\ served' = (served \/ hubTable # {})
        /\ crossed' = (crossed \/ Deleting)
    BY <1>4 DEF CountsHubs
  <2>3. SUFFICES ASSUME ~crossed' PROVE FollowsInv'
    BY DEF FollowsInv
  <2>4. ~crossed /\ agenda["remove"] = <<>> /\ table # {}
    BY <2>1, <2>2, <2>3 DEF Deleting, FollowsInv, MayStore
  <2>5. ~SaysDelete' /\ ~SaysDelete /\ ~WillDelete' /\ ~WillDelete
    BY <2>1, <2>4, AgendasDiffer DEF SaysDelete, WillDelete
  <2>6. CASE hubTable = {}
    <3>1. SaysCreate' <=> SaysCreate
      BY <2>1, <2>6, AgendasDiffer DEF SaysCreate
    <3>2. QED
      BY <1>0, <2>2, <2>4, <2>5, <2>6, <3>1 DEF FollowsInv
  <2>7. CASE hubTable # {}
    <3>1. SaysCreate'
      BY <2>1, <2>7 DEF SaysCreate
    <3>2. QED
      BY <2>2, <2>4, <2>5, <2>7, <3>1 DEF FollowsInv
  <2>8. QED
    BY <2>6, <2>7
<1>5. QED
  BY <1>2, <1>3, <1>4 DEF RunsStatement


LEMMA FollowsError ==
  ASSUME TypeOK, FollowsInv, NEW t \in Tasks, StatementFails(t)
  PROVE  FollowsInv'
<1> USE DEF dbVars
<1>0. /\ notices' = notices /\ runtime' = runtime /\ table' = table
      /\ served' = served /\ crossed' = (crossed \/ NextIs(t, "count"))
      /\ (WillExist' <=> WillExist)
  BY DEF StatementFails, WillExist, Exists, Leaves
<1>1. /\ agenda'[t] = AfterError(Head(Now(t)).do) /\ Now(t) # <<>>
      /\ \A u \in Tasks \ {t} : agenda'[u] = agenda[u]
      /\ ~NextIs(t, "say")
  BY ThenLeaves DEF StatementFails
<1>2. SUFFICES ASSUME ~crossed' PROVE FollowsInv'
  BY DEF FollowsInv
<1>3. ~crossed /\ ~NextIs(t, "count")
  BY <1>0, <1>2
<1>4. CASE t = "insert"
  <2>1. /\ agenda'["insert"] = <<>> /\ agenda["insert"] # <<Say(Do("CreateRuntime"))>>
        /\ agenda'["remove"] = agenda["remove"] /\ agenda'["get"] = agenda["get"]
    <3>1. Head(Now("insert")).do \in {"InsertNetwork", "InsertHub", "NewEpoch", "insert_hub"}
      BY <1>1, <1>4, NextInsert DEF NextIs
    <3>2. AfterError(Head(Now("insert")).do) = <<>>
      BY <3>1 DEF AfterError
    <3>3. agenda["insert"] # <<Say(Do("CreateRuntime"))>>
      BY <1>1, <1>4 DEF NextIs, Now, Say
    <3>4. QED
      BY <1>1, <1>4, <3>2, <3>3 DEF Tasks
  <2>2. QED
    BY <1>0, <1>3, <2>1, AgendasDiffer
       DEF FollowsInv, SaysCreate, SaysDelete, WillDelete, MayStore
<1>5. CASE t = "remove"
  <2>1. /\ agenda["remove"] = <<>> /\ agenda'["remove"] \in {<<>>, <<Do("count")>>}
        /\ agenda'["insert"] = agenda["insert"] /\ agenda'["get"] = agenda["get"]
    <3>1. \/ NextIs("remove", "DeleteNetwork") \/ NextIs("remove", "DeleteAllHubByNetwork")
      BY <1>1, <1>3, <1>5, NextRemove
    <3>2. agenda["remove"] = <<>>
      BY <3>1, NextRemove
    <3>3. AfterError(Head(Now("remove")).do) \in {<<>>, <<Do("count")>>}
      BY <3>1 DEF AfterError, NextIs
    <3>4. QED
      BY <1>1, <1>5, <3>2, <3>3 DEF Tasks
  <2>2. QED
    BY <1>0, <1>3, <2>1, AgendasDiffer
       DEF FollowsInv, SaysCreate, SaysDelete, WillDelete, MayStore
<1>6. CASE t = "get"
  <2>1. /\ agenda["get"] # <<Say(Do("CreateRuntime"))>>
        /\ agenda'["get"] \in {<<>>, <<Say(Do("ErrorEpoch"))>>}
        /\ agenda'["insert"] = agenda["insert"] /\ agenda'["remove"] = agenda["remove"]
    <3>1. Head(Now("get")).do \in {"GetTotalOfNetworks", "GetEpoch", "count_hubs"}
      BY <1>1, <1>6, NextGet DEF NextIs
    <3>2. AfterError(Head(Now("get")).do) \in {<<>>, <<Say(Do("ErrorEpoch"))>>}
      BY <3>1 DEF AfterError
    <3>3. agenda["get"] # <<Say(Do("CreateRuntime"))>>
      BY <1>1, <1>6 DEF NextIs, Now, Say
    <3>4. QED
      BY <1>1, <1>6, <3>2, <3>3 DEF Tasks
  <2>2. Do("ErrorEpoch") # Do("CreateRuntime")
    <3>1. Do("ErrorEpoch").do = "ErrorEpoch"
      BY DEF Do
    <3>2. QED
      BY <3>1, AgendasDiffer
  <2>3. QED
    BY <1>0, <1>3, <2>1, <2>2, AgendasDiffer
       DEF FollowsInv, SaysCreate, SaysDelete, WillDelete, MayStore
<1>7. QED
  BY <1>4, <1>5, <1>6 DEF Tasks

LEMMA FollowsSays ==
  ASSUME TypeOK, FollowsInv, NEW t \in Tasks, Says(t)
  PROVE  FollowsInv'
<1>1. PICK n \in ServiceNotices :
        /\ agenda[t] = <<Say(n)>> /\ notices' = Append(notices, n)
        /\ agenda'[t] = <<>>
        /\ \A u \in Tasks \ {t} : agenda'[u] = agenda[u]
        /\ t = "insert" => n = Do("CreateRuntime")
        /\ t = "remove" => n = Do("DeleteRuntime")
        /\ t = "get" => n.do # "DeleteRuntime"
  BY SaysNotice
<1>2. /\ table' = table /\ served' = served /\ crossed' = crossed /\ runtime' = runtime
  BY DEF Says, dbVars, historyVars
<1>3. /\ n.do = "CreateRuntime" => WillExist'
      /\ n.do = "DeleteRuntime" => ~WillExist'
      /\ n.do \notin {"CreateRuntime", "DeleteRuntime"} => (WillExist' <=> WillExist)
  <2>1. (Exists' <=> Exists) /\ Exists \in BOOLEAN /\ notices \in Seq(ServiceNotices)
    BY <1>2 DEF Exists, TypeOK
  <2>2. WillExist' <=> Leaves(Append(notices, n), Exists)
    BY <1>1, <2>1 DEF WillExist, Leaves
  <2>3. QED
    BY <2>1, <2>2, LeavesAppend DEF WillExist
<1>4. n.do = "CreateRuntime" <=> n = Do("CreateRuntime")
  BY DEF ServiceNotices, Answers, Do
<1>5. SUFFICES ASSUME ~crossed PROVE FollowsInv'
  BY <1>2 DEF FollowsInv
<1>6. CASE t = "insert"
  <2>1. /\ agenda["insert"] = <<Say(Do("CreateRuntime"))>> /\ agenda'["insert"] = <<>>
        /\ agenda'["remove"] = agenda["remove"] /\ agenda'["get"] = agenda["get"]
        /\ WillExist'
    BY <1>1, <1>3, <1>6, AgendasDiffer DEF Tasks
  <2>2. QED
    BY <1>2, <1>5, <2>1, AgendasDiffer
       DEF FollowsInv, SaysCreate, SaysDelete, WillDelete, MayStore
<1>7. CASE t = "remove"
  <2>1. /\ agenda["remove"] = <<Say(Do("DeleteRuntime"))>> /\ agenda'["remove"] = <<>>
        /\ agenda'["insert"] = agenda["insert"] /\ agenda'["get"] = agenda["get"]
        /\ ~WillExist'
    BY <1>1, <1>3, <1>7, AgendasDiffer DEF Tasks
  <2>2. QED
    BY <1>2, <1>5, <2>1, AgendasDiffer
       DEF FollowsInv, SaysCreate, SaysDelete, WillDelete, MayStore
<1>8. CASE t = "get"
  <2>1. /\ agenda["get"] = <<Say(n)>> /\ agenda'["get"] = <<>>
        /\ agenda'["insert"] = agenda["insert"] /\ agenda'["remove"] = agenda["remove"]
    BY <1>1, <1>8 DEF Tasks
  <2>2. CASE n = Do("CreateRuntime")
    <3>1. WillExist' /\ SaysCreate
      BY <1>3, <2>1, <2>2, AgendasDiffer DEF SaysCreate
    <3>2. QED
      BY <1>2, <1>5, <2>1, <3>1, AgendasDiffer
         DEF FollowsInv, SaysCreate, SaysDelete, WillDelete, MayStore
  <2>3. CASE n # Do("CreateRuntime")
    <3>1. (WillExist' <=> WillExist) /\ n.do # "CreateRuntime"
      BY <1>1, <1>3, <1>4, <1>8, <2>3
    <3>2. agenda["get"] # <<Say(Do("CreateRuntime"))>>
      BY <2>1, <2>3, AgendasDiffer
    <3>3. QED
      BY <1>2, <1>5, <2>1, <3>1, <3>2, AgendasDiffer
         DEF FollowsInv, SaysCreate, SaysDelete, WillDelete, MayStore
  <2>4. QED
    BY <2>2, <2>3
<1>9. QED
  BY <1>6, <1>7, <1>8 DEF Tasks

LEMMA FollowsStep ==
  ASSUME TypeOK, FollowsInv, [Next]_vars
  PROVE  FollowsInv'
<1> USE DEF dbVars, historyVars
<1>1. ASSUME agenda' = agenda, table' = table, served' = served, crossed' = crossed,
             WillExist' <=> WillExist
      PROVE  FollowsInv'
  BY <1>1 DEF FollowsInv, SaysCreate, SaysDelete, WillDelete, MayStore
<1>2. ASSUME notices' = notices, Exists' <=> Exists PROVE WillExist' <=> WillExist
  BY <1>2 DEF WillExist, Leaves
<1>3. CASE TopologyChanges \/ UNCHANGED vars
  <2>1. /\ agenda' = agenda /\ table' = table /\ served' = served /\ crossed' = crossed
        /\ notices' = notices /\ (Exists' <=> Exists)
    BY <1>3 DEF TopologyChanges, vars, Exists
  <2>2. QED
    BY <1>1, <1>2, <2>1
<1>4. ASSUME NEW t \in Tasks, Says(t) \/ RunsStatement(t) \/ StatementFails(t)
      PROVE  FollowsInv'
  BY <1>4, FollowsSays, FollowsError, FollowsInsert, FollowsRemove, FollowsGet DEF Tasks
<1>5. CASE ServiceTakesNotice
  <2>1. /\ agenda' = agenda /\ table' = table /\ served' = served /\ crossed' = crossed
        /\ notices # <<>> /\ notices' = Tail(notices) /\ notices \in Seq(ServiceNotices)
    BY <1>5 DEF ServiceTakesNotice, TypeOK
  <2>2. Exists \in BOOLEAN /\ Exists' \in BOOLEAN
    BY DEF Exists
  <2>3. /\ Head(notices).do = "CreateRuntime" => Exists'
        /\ Head(notices).do = "DeleteRuntime" => ~Exists'
        /\ Head(notices).do \notin {"CreateRuntime", "DeleteRuntime"} =>
             (Exists' <=> Exists)
    <3>1. NoRuntime.machine = "none" /\ Spawned.machine = "init"
      BY DEF NoRuntime, Spawned
    <3>2. CASE Exists /\ Head(notices).do \in {"Epoch", "ErrorEpoch"}
      <4>1. runtime' = [runtime EXCEPT !.command = Append(runtime.command, Head(notices))]
        BY <1>5, <3>2 DEF ServiceTakesNotice
      <4>2. runtime'.machine = runtime.machine /\ runtime.machine \in Modes
        BY <3>2, <4>1 DEF TypeOK, Exists, Runtimes
      <4>3. Exists'
        BY <3>1, <4>2 DEF Exists, Modes
      <4>4. QED
        BY <3>2, <4>3
    <3>3. CASE ~(Exists /\ Head(notices).do \in {"Epoch", "ErrorEpoch"})
      BY <1>5, <3>1, <3>3 DEF ServiceTakesNotice, Exists
    <3>4. QED
      BY <3>2, <3>3
  <2>4. WillExist' <=> Leaves(Tail(notices), Exists')
    BY <2>1 DEF WillExist, Leaves
  <2>5. WillExist' <=> WillExist
    <3>1. CASE Head(notices).do = "CreateRuntime"
      BY <2>1, <2>2, <2>3, <2>4, <3>1, LeavesTail DEF WillExist, Leaves
    <3>2. CASE Head(notices).do = "DeleteRuntime"
      BY <2>1, <2>2, <2>3, <2>4, <3>2, LeavesTail DEF WillExist, Leaves
    <3>3. CASE Head(notices).do \notin {"CreateRuntime", "DeleteRuntime"}
      BY <2>1, <2>2, <2>3, <2>4, <3>3, LeavesTail DEF WillExist, Leaves
    <3>4. QED
      BY <3>1, <3>2, <3>3
  <2>6. QED
    BY <1>1, <2>1, <2>5
<1>6. CASE ServiceForwards \/ MachineTakesEvent \/ BalanceEnds
             \/ FsmTakesActions \/ FsmTakesEpoch \/ FsmTakesErrorEpoch
  <2>1. /\ agenda' = agenda /\ table' = table /\ served' = served /\ crossed' = crossed
        /\ notices' = notices
    BY <1>6 DEF ServiceForwards, MachineTakesEvent, BalanceEnds, FsmTakesActions,
                FsmTakesEpoch, FsmTakesErrorEpoch, InRuntime
  <2>2. Exists' <=> Exists
    <3>0. NoRuntime.machine = "none"
      BY DEF NoRuntime
    <3>1. Exists /\ runtime \in Runtimes
      BY <1>6, <3>0 DEF ServiceForwards, MachineTakesEvent, BalanceEnds, FsmTakesActions,
                  FsmTakesEpoch, FsmTakesErrorEpoch, Exists, TypeOK
    <3>2. CASE ServiceForwards \/ FsmTakesActions \/ FsmTakesEpoch \/ FsmTakesErrorEpoch
      <4>1. runtime'.machine = runtime.machine /\ runtime.machine \in Modes
        BY <3>1, <3>2 DEF ServiceForwards, FsmTakesActions, FsmTakesEpoch,
                          FsmTakesErrorEpoch, Runtimes
      <4>2. QED
        BY <3>0, <3>1, <4>1 DEF Exists, Modes
    <3>3. CASE MachineTakesEvent \/ BalanceEnds
      <4>1. runtime'.machine \in Modes
        BY <3>1, <3>3 DEF MachineTakesEvent, BalanceEnds, Runtimes, Modes
      <4>2. QED
        BY <3>0, <3>1, <4>1 DEF Exists, Modes
    <3>4. QED
      BY <1>6, <3>2, <3>3
  <2>3. QED
    BY <1>1, <1>2, <2>1, <2>2
<1>7. CASE Restarts
  <2>1. /\ \A t \in Tasks : agenda'[t] = <<>>
        /\ notices' = <<>> /\ runtime' = NoRuntime /\ served' = FALSE
    BY <1>7 DEF Restarts
  <2>2. ~WillExist'
    BY <2>1 DEF WillExist, Leaves, Exists
  <2>3. ~SaysCreate' /\ ~SaysDelete' /\ ~MayStore'
    BY <2>1, AgendasDiffer DEF SaysCreate, SaysDelete, MayStore, Tasks
  <2>4. QED
    BY <2>1, <2>2, <2>3 DEF FollowsInv
<1>8. QED
  BY <1>3, <1>4, <1>5, <1>6, <1>7 DEF Next

\* Once the database tasks and FsmService have nothing under way, there is a
\* runtime exactly if a hub was served since the last network went
\* (core/domain.rs 255-270), whatever statements fail and however often the
\* gateway restarts; unless a hub and a network crossed.
THEOREM RuntimeFollowsHolds == Spec => []RuntimeFollows
<1>1. Init => FollowsInv
  <2>1. SUFFICES ASSUME Init PROVE FollowsInv
    OBVIOUS
  <2>2. /\ agenda["insert"] = <<>> /\ agenda["remove"] = <<>> /\ agenda["get"] = <<>>
        /\ notices = <<>> /\ runtime = NoRuntime /\ served = FALSE
    BY <2>1 DEF Init, Tasks
  <2>3. ~SaysCreate /\ ~SaysDelete /\ ~MayStore
    BY <2>2, AgendasDiffer DEF SaysCreate, SaysDelete, MayStore
  <2>4. ~WillExist
    BY <2>2 DEF WillExist, Leaves, Exists
  <2>5. QED
    BY <2>2, <2>3, <2>4 DEF FollowsInv
<1>2. TypeOK /\ FollowsInv /\ [Next]_vars => FollowsInv'
  BY FollowsStep
<1>3. FollowsInv => RuntimeFollows
  <2>1. SUFFICES ASSUME FollowsInv, Quiet, ~crossed PROVE Exists <=> served
    BY DEF RuntimeFollows
  <2>2. /\ agenda["insert"] = <<>> /\ agenda["remove"] = <<>> /\ agenda["get"] = <<>>
        /\ notices = <<>>
    BY <2>1 DEF Quiet, Tasks
  <2>3. ~SaysCreate /\ ~SaysDelete /\ ~WillDelete
    BY <2>2, AgendasDiffer DEF SaysCreate, SaysDelete, WillDelete
  <2>4. WillExist <=> Exists
    BY <2>2 DEF WillExist, Leaves
  <2>5. QED
    BY <2>1, <2>3, <2>4 DEF FollowsInv
<1>4. QED
  BY <1>1, <1>2, <1>3, TypeCorrect, PTL DEF Spec

-----------------------------------------------------------------------------
(* The epochs under way: answers on their way to fsm, and epochs on their  *)
(* way to the table.                                                       *)

Epochs(q) == {q[i].epoch : i \in {j \in DOMAIN q : q[j].do = "Epoch"}}

\* Of two answers under way the later one is not smaller, and if they are the
\* same, the epoch they lead to is in u: known to be given again.
Fits(x, y, u)   == x <= y /\ (x = y => x + 1 \in u)
Before(A, B, u) == \A x \in A, y \in B : Fits(x, y, u)
InOrder(q, u)   == \A i, j \in DOMAIN q :
    i < j /\ q[i].do = "Epoch" /\ q[j].do = "Epoch" => Fits(q[i].epoch, q[j].epoch, u)
Rising(q)       == \A i, j \in DOMAIN q :
    i < j /\ q[i].do = "NewEpoch" /\ q[j].do = "NewEpoch" => q[i].epoch <= q[j].epoch

Command    == IF Exists THEN runtime.command ELSE <<>>
Up         == IF Exists THEN runtime.up ELSE <<>>
ReadEpochs == {e \in Nat : agenda["get"] = <<Say(With("Epoch", e))>>}
Answered   == Epochs(Command) \cup Epochs(notices) \cup ReadEpochs
OnTheWay   == PendingStore \cup PendingRuntime

\* The answers, from fsm back to the table, rise; each is the stored epoch or
\* the one before it, and leads to an epoch that is new or known to be given
\* again.  The epochs on their way to the table rise too, by one at most, and
\* none is ahead of what an answer leads to.  A given epoch is stored, on its
\* way to the table, or known not to be.
EpochInv ==
    /\ ~reused
    /\ InOrder(Command, unsaved) /\ InOrder(notices, unsaved)
    /\ Before(Epochs(Command), Epochs(notices), unsaved)
    /\ Before(Epochs(Command) \cup Epochs(notices), ReadEpochs, unsaved)
    /\ \A v \in Answered : /\ v <= row /\ row <= v + 1
                           /\ v + 1 \in used => v + 1 \in unsaved
    /\ Rising(queue["insert"]) /\ Rising(Up)
    /\ \A p \in PendingStore, q \in PendingRuntime : p <= q
    /\ \A p \in OnTheWay : row <= p /\ p <= row + 1 /\ \A v \in Answered : p <= v + 1
    /\ \A e \in used : e <= row \/ e \in unsaved \/ e \in OnTheWay

LEMMA EpochsAppend ==
  ASSUME NEW S, NEW q \in Seq(S), NEW m \in S, NEW u
  PROVE  /\ Epochs(Append(q, m)) = Epochs(q) \cup (IF m.do = "Epoch" THEN {m.epoch} ELSE {})
         /\ Pending(Append(q, m))
              = Pending(q) \cup (IF m.do = "NewEpoch" THEN {m.epoch} ELSE {})
         /\ InOrder(q, u) /\ (m.do = "Epoch" => \A x \in Epochs(q) : Fits(x, m.epoch, u))
              => InOrder(Append(q, m), u)
         /\ Rising(q) /\ (m.do = "NewEpoch" => \A x \in Pending(q) : x <= m.epoch)
              => Rising(Append(q, m))
<1> DEFINE r == Append(q, m)
           k == Len(q) + 1
<1>1. /\ DOMAIN r = DOMAIN q \cup {k} /\ k \notin DOMAIN q /\ r[k] = m
      /\ \A i \in DOMAIN q : r[i] = q[i] /\ ~(k < i)
      /\ ~(k < k)
  <2>1. Len(q) \in Nat /\ DOMAIN q = 1..Len(q) /\ DOMAIN r = 1..(Len(q) + 1)
    OBVIOUS
  <2>2. r[k] = m /\ \A i \in DOMAIN q : r[i] = q[i]
    OBVIOUS
  <2>3. QED
    BY <2>1, <2>2
<1> HIDE DEF r, k
<1>2. Epochs(r) = Epochs(q) \cup (IF m.do = "Epoch" THEN {m.epoch} ELSE {})
  <2>1. {j \in DOMAIN r : r[j].do = "Epoch"}
          = {j \in DOMAIN q : q[j].do = "Epoch"} \cup (IF m.do = "Epoch" THEN {k} ELSE {})
    BY <1>1
  <2>2. QED
    BY <1>1, <2>1 DEF Epochs
<1>3. Pending(r) = Pending(q) \cup (IF m.do = "NewEpoch" THEN {m.epoch} ELSE {})
  <2>1. {j \in DOMAIN r : r[j].do = "NewEpoch"}
          = {j \in DOMAIN q : q[j].do = "NewEpoch"} \cup (IF m.do = "NewEpoch" THEN {k} ELSE {})
    BY <1>1
  <2>2. QED
    BY <1>1, <2>1 DEF Pending
<1>4. ASSUME InOrder(q, u), m.do = "Epoch" => \A x \in Epochs(q) : Fits(x, m.epoch, u)
      PROVE  InOrder(r, u)
  <2>1. \A i \in DOMAIN q : q[i].do = "Epoch" => q[i].epoch \in Epochs(q)
    BY DEF Epochs
  <2>2. QED
    BY <1>1, <1>4, <2>1 DEF InOrder
<1>5. ASSUME Rising(q), m.do = "NewEpoch" => \A x \in Pending(q) : x <= m.epoch
      PROVE  Rising(r)
  <2>1. \A i \in DOMAIN q : q[i].do = "NewEpoch" => q[i].epoch \in Pending(q)
    BY DEF Pending
  <2>2. QED
    BY <1>1, <1>5, <2>1 DEF Rising
<1>6. QED
  BY <1>2, <1>3, <1>4, <1>5 DEF r

LEMMA EpochsTail ==
  ASSUME NEW S, NEW q \in Seq(S), q # <<>>, NEW u
  PROVE  /\ Epochs(q) = Epochs(Tail(q))
                          \cup (IF Head(q).do = "Epoch" THEN {Head(q).epoch} ELSE {})
         /\ Pending(q) = Pending(Tail(q))
                          \cup (IF Head(q).do = "NewEpoch" THEN {Head(q).epoch} ELSE {})
         /\ InOrder(q, u) =>
              /\ InOrder(Tail(q), u)
              /\ Head(q).do = "Epoch" =>
                   \A x \in Epochs(Tail(q)) : Fits(Head(q).epoch, x, u)
         /\ Rising(q) =>
              /\ Rising(Tail(q))
              /\ Head(q).do = "NewEpoch" => \A x \in Pending(Tail(q)) : Head(q).epoch <= x
<1> DEFINE r == Tail(q)
           n(i) == i + 1
<1>1. /\ 1 \in DOMAIN q /\ Head(q) = q[1]
      /\ \A i \in DOMAIN r : n(i) \in DOMAIN q /\ r[i] = q[n(i)] /\ 1 < n(i)
      /\ \A i \in DOMAIN q : i = 1 \/ \E j \in DOMAIN r : n(j) = i
      /\ \A i, j \in DOMAIN r : i < j => n(i) < n(j)
  <2>1. /\ Len(q) \in Nat /\ Len(q) >= 1 /\ DOMAIN q = 1..Len(q) /\ Head(q) = q[1]
        /\ DOMAIN r = 1..(Len(q) - 1)
        /\ \A i \in 1..(Len(q) - 1) : r[i] = q[i + 1]
    OBVIOUS
  <2>2. \A i \in DOMAIN q : i # 1 => i - 1 \in DOMAIN r /\ n(i - 1) = i
    BY <2>1
  <2>3. QED
    BY <2>1, <2>2
<1> HIDE DEF r, n
<1>2. Epochs(q) = Epochs(r) \cup (IF Head(q).do = "Epoch" THEN {Head(q).epoch} ELSE {})
  BY <1>1 DEF Epochs
<1>3. Pending(q) = Pending(r) \cup (IF Head(q).do = "NewEpoch" THEN {Head(q).epoch} ELSE {})
  BY <1>1 DEF Pending
<1>4. ASSUME InOrder(q, u)
      PROVE  /\ InOrder(r, u)
             /\ Head(q).do = "Epoch" => \A x \in Epochs(r) : Fits(Head(q).epoch, x, u)
  <2>1. InOrder(r, u)
    BY <1>1, <1>4 DEF InOrder
  <2>2. ASSUME Head(q).do = "Epoch", NEW x \in Epochs(r) PROVE Fits(Head(q).epoch, x, u)
    <3>1. PICK i \in DOMAIN r : r[i].do = "Epoch" /\ x = r[i].epoch
      BY <2>2 DEF Epochs
    <3>2. QED
      BY <1>1, <1>4, <2>2, <3>1 DEF InOrder
  <2>3. QED
    BY <2>1, <2>2
<1>5. ASSUME Rising(q)
      PROVE  /\ Rising(r)
             /\ Head(q).do = "NewEpoch" => \A x \in Pending(r) : Head(q).epoch <= x
  <2>1. Rising(r)
    BY <1>1, <1>5 DEF Rising
  <2>2. ASSUME Head(q).do = "NewEpoch", NEW x \in Pending(r) PROVE Head(q).epoch <= x
    <3>1. PICK i \in DOMAIN r : r[i].do = "NewEpoch" /\ x = r[i].epoch
      BY <2>2 DEF Pending
    <3>2. QED
      BY <1>1, <1>5, <2>2, <3>1 DEF Rising
  <2>3. QED
    BY <2>1, <2>2
<1>6. QED
  BY <1>2, <1>3, <1>4, <1>5 DEF r

LEMMA InOrderMonotone ==
  ASSUME NEW q, NEW u, NEW w, u \subseteq w, InOrder(q, u)
  PROVE  InOrder(q, w)
BY DEF InOrder, Fits

LEMMA NoEpochs ==
  /\ Epochs(<<>>) = {} /\ Pending(<<>>) = {} /\ Rising(<<>>) /\ \A u : InOrder(<<>>, u)
BY DEF Epochs, Pending, Rising, InOrder


LEMMA EpochsTyped ==
  ASSUME TypeOK
  PROVE  /\ Command \in Seq(ServiceNotices) /\ Up \in Seq(UpMessages)
         /\ notices \in Seq(ServiceNotices) /\ queue["insert"] \in Seq(InsertCommands)
         /\ Answered \in SUBSET Nat /\ OnTheWay \in SUBSET Nat
         /\ row \in Nat /\ used \in SUBSET Nat /\ unsaved \in SUBSET Nat
<1>1. Command \in Seq(ServiceNotices) /\ Up \in Seq(UpMessages)
  BY DEF TypeOK, Exists, Runtimes, Command, Up, ServiceNotices
<1>2. notices \in Seq(ServiceNotices) /\ queue["insert"] \in Seq(InsertCommands)
  BY DEF TypeOK
<1>3. ASSUME NEW q \in Seq(ServiceNotices) PROVE Epochs(q) \in SUBSET Nat
  BY DEF Epochs, ServiceNotices, Answers
<1>4. Answered \in SUBSET Nat
  BY <1>1, <1>2, <1>3 DEF Answered, ReadEpochs
<1>5. OnTheWay \in SUBSET Nat
  BY PendingTyped DEF OnTheWay
<1>6. QED
  BY <1>1, <1>2, <1>4, <1>5 DEF TypeOK

LEMMA PendingIsUp ==
  /\ PendingRuntime = Pending(Up)
  /\ AnswerUnderWay <=> Epochs(Command) \cup Epochs(notices) # {}
<1>1. PendingRuntime = Pending(Up)
  BY NoEpochs DEF PendingRuntime, Up
<1>2. \A q : (\E i \in DOMAIN q : q[i].do = "Epoch") <=> Epochs(q) # {}
  BY DEF Epochs
<1>3. (Exists /\ \E i \in DOMAIN runtime.command : runtime.command[i].do = "Epoch")
        <=> Epochs(Command) # {}
  BY <1>2, NoEpochs DEF Command
<1>4. QED
  BY <1>1, <1>2, <1>3 DEF AnswerUnderWay

\* The epoch that the reading task says.
LEMMA ReadEpochsAre ==
  ASSUME TypeOK
  PROVE  /\ \A n \in ServiceNotices : agenda["get"] = <<Say(n)>> =>
              ReadEpochs = IF n.do = "Epoch" THEN {n.epoch} ELSE {}
         /\ agenda["get"] = <<>> \/ agenda["get"] = <<Do("count_hubs")>> => ReadEpochs = {}
<1>1. \A m, n : <<Say(m)>> = <<Say(n)>> <=> m = n
  BY DEF Say
<1>2. \A e : With("Epoch", e).do = "Epoch" /\ With("Epoch", e).epoch = e
  BY DEF With
<1>3. ASSUME NEW n \in ServiceNotices, n.do = "Epoch"
      PROVE  n.epoch \in Nat /\ n = With("Epoch", n.epoch)
  <2>1. n \in [do : {"Epoch"}, epoch : Nat]
    BY <1>3 DEF ServiceNotices, Answers
  <2>2. QED
    BY <2>1 DEF With
<1>4. ASSUME NEW n \in ServiceNotices, agenda["get"] = <<Say(n)>>
      PROVE  ReadEpochs = IF n.do = "Epoch" THEN {n.epoch} ELSE {}
  <2>1. ReadEpochs = {e \in Nat : n = With("Epoch", e)}
    BY <1>1, <1>4 DEF ReadEpochs
  <2>2. CASE n.do = "Epoch"
    BY <1>2, <1>3, <2>1, <2>2
  <2>3. CASE n.do # "Epoch"
    BY <1>2, <2>1, <2>3
  <2>4. QED
    BY <2>2, <2>3
<1>5. agenda["get"] = <<>> \/ agenda["get"] = <<Do("count_hubs")>> => ReadEpochs = {}
  BY AgendasDiffer DEF ReadEpochs
<1>6. QED
  BY <1>4, <1>5

\* What is under way is lost, or gets no further; what is lost is known.
LEMMA FewerEpochs ==
  ASSUME EpochInv,
         row' = row, used' = used, reused' = reused, unsaved \subseteq unsaved',
         InOrder(Command', unsaved'), InOrder(notices', unsaved'),
         Epochs(Command') \subseteq Epochs(Command),
         Epochs(notices') \subseteq Epochs(notices), ReadEpochs' \subseteq ReadEpochs,
         Rising(queue'["insert"]), Rising(Up'),
         PendingStore' \subseteq PendingStore, PendingRuntime' \subseteq PendingRuntime,
         OnTheWay \subseteq OnTheWay' \cup unsaved'
  PROVE  EpochInv'
<1>1. Answered' \subseteq Answered /\ OnTheWay' \subseteq OnTheWay
  BY DEF Answered, OnTheWay, Epochs
<1>2. /\ InOrder(Command, unsaved)' /\ InOrder(notices, unsaved)'
      /\ Rising(queue["insert"])' /\ Rising(Up)'
  BY DEF InOrder, Rising, Fits
<1>3. /\ Before(Epochs(Command), Epochs(notices), unsaved)'
      /\ Before(Epochs(Command) \cup Epochs(notices), ReadEpochs, unsaved)'
  BY DEF EpochInv, Before, Fits, Epochs
<1>4. \A v \in Answered' : /\ v <= row' /\ row' <= v + 1
                           /\ v + 1 \in used' => v + 1 \in unsaved'
  BY <1>1 DEF EpochInv
<1>5. /\ \A p \in PendingStore', q \in PendingRuntime' : p <= q
      /\ \A p \in OnTheWay' : row' <= p /\ p <= row' + 1 /\ \A v \in Answered' : p <= v + 1
  BY <1>1 DEF EpochInv
<1>6. \A e \in used' : e <= row' \/ e \in unsaved' \/ e \in OnTheWay'
  BY DEF EpochInv
<1>7. ~reused'
  BY DEF EpochInv
<1>8. QED
  BY <1>2, <1>3, <1>4, <1>5, <1>6, <1>7 DEF EpochInv


LEMMA SameRuntime ==
  ASSUME runtime' = runtime
  PROVE  Command' = Command /\ Up' = Up /\ PendingRuntime' = PendingRuntime
BY DEF Command, Up, PendingRuntime, Exists, Pending

\* A statement, or its failure, uses up a command of the task that stores.
LEMMA EpochsOfQueue ==
  ASSUME TypeOK, EpochInv, NEW t \in Tasks, Now(t) # <<>>, NEW steps, Then(t, steps)
  PROVE  /\ Rising(queue'["insert"]) /\ PendingStore' \subseteq PendingStore
         /\ PendingStore \subseteq PendingStore' \cup Pending(<<Head(Now(t))>>)
         /\ ~NextIs(t, "NewEpoch") => PendingStore \subseteq PendingStore'
<1>1. \/ queue'["insert"] = queue["insert"]
      \/ t = "insert" /\ queue["insert"] # <<>> /\ Now(t) = queue["insert"]
         /\ queue'["insert"] = Tail(queue["insert"])
  BY ThenLeaves DEF Now, Tasks
<1>2. queue["insert"] \in Seq(InsertCommands) /\ Rising(queue["insert"])
  BY EpochsTyped DEF EpochInv
<1>3. CASE queue'["insert"] = queue["insert"]
  BY <1>2, <1>3 DEF PendingStore, Pending
<1>4. CASE /\ queue["insert"] # <<>> /\ Now(t) = queue["insert"]
           /\ queue'["insert"] = Tail(queue["insert"])
  <2>1. /\ Pending(queue["insert"]) = Pending(Tail(queue["insert"]))
             \cup (IF Head(queue["insert"]).do = "NewEpoch"
                   THEN {Head(queue["insert"]).epoch} ELSE {})
        /\ Rising(Tail(queue["insert"]))
    BY <1>2, <1>4, EpochsTail
  <2>2. PendingStore' = Pending(Tail(queue["insert"]))
    BY <1>4 DEF PendingStore, Pending
  <2>3. Head(queue["insert"]).do = "NewEpoch" =>
          Head(queue["insert"]).epoch \in Pending(<<Head(Now(t))>>)
    BY <1>4 DEF Pending
  <2>4. NextIs(t, "NewEpoch") <=> Head(queue["insert"]).do = "NewEpoch"
    BY <1>4 DEF NextIs
  <2>5. QED
    BY <1>4, <2>1, <2>2, <2>3, <2>4 DEF PendingStore
<1>5. QED
  BY <1>1, <1>3, <1>4

LEMMA EpochStatement ==
  ASSUME TypeOK, EpochInv, NEW t \in Tasks, RunsStatement(t)
  PROVE  EpochInv' /\ row' >= row
<1> USE DEF dbVars, historyVars
<1>1. /\ notices' = notices /\ Command' = Command /\ Up' = Up
      /\ PendingRuntime' = PendingRuntime /\ Epochs(notices') = Epochs(notices)
  BY SameRuntime DEF RunsStatement
<1>2. /\ row \in Nat /\ used \in SUBSET Nat /\ unsaved \in SUBSET Nat
      /\ Answered \in SUBSET Nat /\ OnTheWay \in SUBSET Nat
  BY EpochsTyped
<1>3. CASE t = "insert" /\ StoresEpoch
  <2>1. /\ agenda["insert"] = <<>> /\ queue["insert"] # <<>>
        /\ Head(queue["insert"]).do = "NewEpoch" /\ Now("insert") = queue["insert"]
        /\ queue["insert"] \in Seq(InsertCommands)
    BY <1>3, NextInsert, EpochsTyped DEF StoresEpoch
  <2>2. /\ queue'["insert"] = Tail(queue["insert"]) /\ agenda'["get"] = agenda["get"]
        /\ row' = Head(queue["insert"]).epoch
        /\ used' = used /\ unsaved' = unsaved /\ reused' = reused
    <3>1. Then("insert", <<>>)
      BY <1>3 DEF StoresEpoch
    <3>2. QED
      BY <1>3, <2>1, <3>1, ThenLeaves DEF StoresEpoch, Tasks
  <2>3. /\ PendingStore = PendingStore' \cup {row'}
        /\ Rising(queue'["insert"])
        /\ \A p \in PendingStore' : row' <= p
    <3>1. PendingStore' = Pending(Tail(queue["insert"]))
      BY <2>2 DEF PendingStore, Pending
    <3>2. QED
      BY <2>1, <2>2, <3>1, EpochsTail DEF PendingStore, EpochInv
  <2>4. ReadEpochs' = ReadEpochs /\ Answered' = Answered
    BY <1>1, <2>2 DEF ReadEpochs, Answered, Epochs
  <2>5. row' \in OnTheWay /\ row' \in Nat
    BY <1>2, <2>3 DEF OnTheWay
  <2>6. /\ row <= row' /\ row' <= row + 1
        /\ \A v \in Answered : row' <= v + 1
        /\ \A q \in PendingRuntime : row' <= q
    BY <2>3, <2>5 DEF EpochInv
  <2>7. \A v \in Answered' : /\ v <= row' /\ row' <= v + 1
                             /\ v + 1 \in used' => v + 1 \in unsaved'
    <3>1. ASSUME NEW v \in Answered PROVE v <= row'
      <4>1. v <= row /\ v \in Nat
        BY <1>2 DEF EpochInv
      <4>2. QED
        BY <1>2, <2>5, <2>6, <4>1
    <3>2. QED
      BY <2>2, <2>4, <2>6, <3>1 DEF EpochInv
  <2>8. OnTheWay' = PendingStore' \cup PendingRuntime /\ OnTheWay = OnTheWay' \cup {row'}
    BY <1>1, <2>3 DEF OnTheWay
  <2>9. \A p \in OnTheWay' : row' <= p /\ p <= row' + 1 /\ \A v \in Answered' : p <= v + 1
    <3>1. SUFFICES ASSUME NEW p \in OnTheWay' PROVE row' <= p /\ p <= row' + 1
      BY <2>4, <2>8 DEF EpochInv
    <3>2. row' <= p
      BY <2>3, <2>6, <2>8
    <3>3. p \in Nat /\ p <= row + 1
      BY <1>2, <2>8 DEF EpochInv
    <3>4. row \in Nat /\ row' \in Nat /\ row <= row'
      BY <1>2, <2>5, <2>6
    <3>5. \A x, y, z \in Nat : x <= y + 1 /\ y <= z => x <= z + 1
      OBVIOUS
    <3>6. p <= row' + 1
      BY <3>3, <3>4, <3>5
    <3>7. QED
      BY <3>2, <3>6
  <2>10. \A e \in used' : e <= row' \/ e \in unsaved' \/ e \in OnTheWay'
    <3>1. ASSUME NEW e \in used, e <= row PROVE e <= row'
      BY <1>2, <2>5, <2>6, <3>1
    <3>2. row' <= row'
      BY <2>5
    <3>3. QED
      BY <2>2, <2>8, <3>1, <3>2 DEF EpochInv
  <2>11. \A p \in PendingStore', q \in PendingRuntime' : p <= q
    BY <1>1, <2>3 DEF EpochInv
  <2>12. /\ InOrder(Command, unsaved)' /\ InOrder(notices, unsaved)'
         /\ Before(Epochs(Command), Epochs(notices), unsaved)'
         /\ Before(Epochs(Command) \cup Epochs(notices), ReadEpochs, unsaved)'
         /\ Rising(queue["insert"])' /\ Rising(Up)' /\ ~reused'
    BY <1>1, <2>2, <2>3, <2>4 DEF EpochInv, InOrder, Before, Fits, Epochs, Rising
  <2>13. row' >= row
    BY <1>2, <2>5, <2>6
  <2>14. EpochInv'
    BY <2>7, <2>9, <2>10, <2>11, <2>12 DEF EpochInv
  <2>15. QED
    BY <2>13, <2>14
<1>4. CASE t = "get" /\ ReadsEpoch
  <2>1. /\ agenda["get"] = <<>> /\ agenda'["get"] = <<Say(With("Epoch", row))>>
        /\ queue'["insert"] = queue["insert"] /\ row' = row
        /\ used' = used /\ reused' = reused /\ unsaved \subseteq unsaved'
    BY <1>4, NextGet, ThenLeaves DEF ReadsEpoch, Tasks
  <2>2. ReadEpochs = {} /\ ReadEpochs' = {row}
    <3>1. \A e, f : <<Say(With("Epoch", e))>> = <<Say(With("Epoch", f))>> <=> e = f
      BY DEF Say, With
    <3>2. QED
      BY <1>2, <2>1, <3>1, ReadEpochsAre DEF ReadEpochs
  <2>3. PendingStore' = PendingStore /\ OnTheWay' = OnTheWay
    BY <1>1, <2>1 DEF PendingStore, OnTheWay, Pending
  <2>4. Answered' = Answered \cup {row}
    BY <1>1, <2>2 DEF Answered, Epochs
  <2>5. Epochs(Command) \cup Epochs(notices) # {} \/ OnTheWay # {} => row + 1 \in unsaved'
    BY <1>4, PendingIsUp DEF ReadsEpoch, OnTheWay
  <2>6. Before(Epochs(Command) \cup Epochs(notices), ReadEpochs, unsaved)'
    <3>1. ASSUME NEW v \in Epochs(Command) \cup Epochs(notices)
          PROVE  Fits(v, row, unsaved')
      BY <2>5 DEF Fits, EpochInv, Answered
    <3>2. QED
      BY <1>1, <2>2, <3>1 DEF Before, Epochs, Fits
  <2>7. \A v \in Answered' : /\ v <= row' /\ row' <= v + 1
                             /\ v + 1 \in used' => v + 1 \in unsaved'
    <3>1. row <= row /\ row <= row + 1 /\ ~(row + 1 <= row)
      BY <1>2
    <3>2. row + 1 \in used => row + 1 \in unsaved'
      BY <2>1, <2>5, <3>1 DEF EpochInv
    <3>3. QED
      BY <2>1, <2>4, <3>1, <3>2 DEF EpochInv
  <2>8. \A p \in OnTheWay' : row' <= p /\ p <= row' + 1 /\ \A v \in Answered' : p <= v + 1
    BY <2>1, <2>3, <2>4 DEF EpochInv
  <2>9. \A e \in used' : e <= row' \/ e \in unsaved' \/ e \in OnTheWay'
    BY <2>1, <2>3 DEF EpochInv
  <2>10. /\ InOrder(Command, unsaved)' /\ InOrder(notices, unsaved)'
    BY <1>1, <2>1, InOrderMonotone DEF EpochInv, InOrder, Fits
  <2>11. Before(Epochs(Command), Epochs(notices), unsaved)'
    BY <1>1, <2>1 DEF EpochInv, Before, Fits, Epochs
  <2>12. /\ \A p \in PendingStore', q \in PendingRuntime' : p <= q
         /\ Rising(queue["insert"])' /\ Rising(Up)' /\ ~reused'
    BY <1>1, <2>1, <2>3 DEF EpochInv, Rising
  <2>13. row' >= row
    BY <1>2, <2>1
  <2>14. EpochInv'
    BY <2>6, <2>7, <2>8, <2>9, <2>10, <2>11, <2>12 DEF EpochInv
  <2>15. QED
    BY <2>13, <2>14
<1>5. CASE ~(t = "insert" /\ StoresEpoch) /\ ~(t = "get" /\ ReadsEpoch)
  <2>1. PICK steps : Then(t, steps)
    BY <1>5 DEF RunsStatement, InsertsNetwork, CountsNetworksForHub, InsertsHub,
           DeletesNetwork, CountsNetworksLeft, DeletesHubsOfNetwork, CountsNetworks,
           CountsHubs
  <2>2. row' = row /\ used' = used /\ reused' = reused /\ unsaved' = unsaved
    BY <1>5 DEF RunsStatement, InsertsNetwork, CountsNetworksForHub, InsertsHub,
           DeletesNetwork, CountsNetworksLeft, DeletesHubsOfNetwork, CountsNetworks,
           CountsHubs
  <2>3. Now(t) # <<>> /\ ~NextIs(t, "NewEpoch")
    BY <1>5 DEF RunsStatement, InsertsNetwork, CountsNetworksForHub, InsertsHub,
           DeletesNetwork, CountsNetworksLeft, DeletesHubsOfNetwork, CountsNetworks,
           CountsHubs, NextIs
  <2>4. ReadEpochs' \subseteq ReadEpochs /\ ReadEpochs \subseteq ReadEpochs'
    <3>1. CASE t # "get"
      <4>1. agenda'["get"] = agenda["get"]
        BY <2>1, <3>1, ThenLeaves DEF Tasks
      <4>2. QED
        BY <4>1 DEF ReadEpochs
    <3>2. CASE t = "get"
      <4>1. /\ agenda["get"] = <<>> \/ agenda["get"] = <<Do("count_hubs")>>
            /\ \A e : agenda'["get"] # <<Say(With("Epoch", e))>>
        <5>1. \A e : With("Epoch", e) # Do("CreateRuntime")
          <6>1. \A e : With("Epoch", e).do = "Epoch"
            BY DEF With
          <6>2. QED
            BY <6>1, AgendasDiffer
        <5>2. CASE CountsNetworks
          <6>1. agenda["get"] = <<>> /\ agenda'["get"] \in {<<>>, <<Do("count_hubs")>>}
            BY <3>2, <5>2, NextGet, ThenLeaves DEF CountsNetworks
          <6>2. QED
            BY <6>1, AgendasDiffer
        <5>3. CASE CountsHubs
          <6>1. /\ agenda["get"] = <<Do("count_hubs")>>
                /\ agenda'["get"] \in {<<>>, <<Say(Do("CreateRuntime"))>>}
            BY <3>2, <5>3, NextGet, ThenLeaves DEF CountsHubs
          <6>2. QED
            BY <5>1, <6>1, AgendasDiffer
        <5>4. QED
          BY <1>5, <3>2, <5>2, <5>3 DEF RunsStatement
      <4>2. QED
        BY <4>1, ReadEpochsAre DEF ReadEpochs
    <3>3. QED
      BY <3>1, <3>2
  <2>5. EpochInv'
    <3>1. /\ Rising(queue'["insert"]) /\ PendingStore' \subseteq PendingStore
          /\ PendingStore \subseteq PendingStore'
      BY <2>1, <2>3, EpochsOfQueue
    <3>2. OnTheWay \subseteq OnTheWay' \cup unsaved'
      BY <1>1, <3>1 DEF OnTheWay
    <3>3. InOrder(Command', unsaved') /\ InOrder(notices', unsaved') /\ Rising(Up')
      BY <1>1, <2>2 DEF EpochInv
    <3>4. QED
      BY <1>1, <2>2, <2>4, <3>1, <3>2, <3>3, FewerEpochs
  <2>6. QED
    BY <1>2, <2>2, <2>5
<1>6. QED
  BY <1>3, <1>4, <1>5


LEMMA EpochError ==
  ASSUME TypeOK, EpochInv, NEW t \in Tasks, StatementFails(t)
  PROVE  EpochInv'
<1> USE DEF dbVars
<1>1. /\ notices' = notices /\ Command' = Command /\ Up' = Up
      /\ PendingRuntime' = PendingRuntime /\ row' = row /\ used' = used
      /\ reused' = reused /\ unsaved' = unsaved \cup Pending(<<Head(Now(t))>>)
  BY SameRuntime DEF StatementFails
<1>2. /\ Now(t) # <<>> /\ Then(t, AfterError(Head(Now(t)).do)) /\ ~NextIs(t, "say")
  BY DEF StatementFails
<1>3. /\ Rising(queue'["insert"]) /\ PendingStore' \subseteq PendingStore
      /\ PendingStore \subseteq PendingStore' \cup Pending(<<Head(Now(t))>>)
  BY <1>2, EpochsOfQueue
<1>4. ReadEpochs' \subseteq ReadEpochs
  <2>1. CASE t # "get"
    <3>1. agenda'["get"] = agenda["get"]
      BY <1>2, <2>1, ThenLeaves DEF Tasks
    <3>2. QED
      BY <3>1 DEF ReadEpochs
  <2>2. CASE t = "get"
    <3>1. agenda'["get"] \in {<<>>, <<Say(Do("ErrorEpoch"))>>}
      <4>1. Head(Now("get")).do \in {"GetTotalOfNetworks", "GetEpoch", "count_hubs"}
        BY <1>2, <2>2, NextGet DEF NextIs
      <4>2. QED
        BY <1>2, <2>2, <4>1, ThenLeaves DEF AfterError
    <3>2. \A e : Say(With("Epoch", e)) # Say(Do("ErrorEpoch"))
      <4>1. \A m, n : Say(m) = Say(n) <=> m = n
        BY DEF Say
      <4>2. \A e : With("Epoch", e).do = "Epoch" /\ Do("ErrorEpoch").do = "ErrorEpoch"
        BY DEF With, Do
      <4>3. QED
        BY <4>1, <4>2
    <3>3. \A e : agenda'["get"] # <<Say(With("Epoch", e))>>
      BY <3>1, <3>2, AgendasDiffer
    <3>4. QED
      BY <3>3 DEF ReadEpochs
  <2>3. QED
    BY <2>1, <2>2
<1>5. InOrder(Command', unsaved') /\ InOrder(notices', unsaved') /\ Rising(Up')
  BY <1>1, InOrderMonotone DEF EpochInv
<1>6. OnTheWay \subseteq OnTheWay' \cup unsaved'
  BY <1>1, <1>3 DEF OnTheWay
<1>7. QED
  BY <1>1, <1>3, <1>4, <1>5, <1>6, FewerEpochs

LEMMA EpochSays ==
  ASSUME TypeOK, EpochInv, NEW t \in Tasks, Says(t)
  PROVE  EpochInv'
<1>1. PICK n \in ServiceNotices :
        /\ agenda[t] = <<Say(n)>> /\ notices' = Append(notices, n)
        /\ agenda'[t] = <<>> /\ queue' = queue
        /\ \A u \in Tasks \ {t} : agenda'[u] = agenda[u]
        /\ t = "insert" => n = Do("CreateRuntime")
        /\ t = "remove" => n = Do("DeleteRuntime")
  BY SaysNotice
<1>2. /\ row' = row /\ used' = used /\ reused' = reused /\ unsaved' = unsaved
      /\ runtime' = runtime
  BY DEF Says, dbVars, historyVars
<1>3. /\ Command' = Command /\ Up' = Up /\ PendingRuntime' = PendingRuntime
      /\ PendingStore' = PendingStore /\ OnTheWay' = OnTheWay
  BY <1>1, <1>2, SameRuntime DEF PendingStore, OnTheWay
<1>4. notices \in Seq(ServiceNotices)
  BY DEF TypeOK
<1>5. CASE n.do = "Epoch"
  <2>1. t = "get"
    BY <1>1, <1>5 DEF Do, Tasks
  <2>2. ReadEpochs = {n.epoch} /\ ReadEpochs' = {}
    <3>1. agenda'["get"] = <<>>
      BY <1>1, <2>1
    <3>2. ReadEpochs' = {}
      BY <3>1, AgendasDiffer DEF ReadEpochs
    <3>3. QED
      BY <1>1, <1>5, <2>1, <3>2, ReadEpochsAre
  <2>3. Epochs(notices') = Epochs(notices) \cup {n.epoch}
    BY <1>1, <1>4, <1>5, EpochsAppend
  <2>4. Answered' = Answered
    BY <1>3, <2>2, <2>3 DEF Answered, Epochs
  <2>5. InOrder(notices', unsaved)
    <3>1. \A x \in Epochs(notices) : Fits(x, n.epoch, unsaved)
      BY <2>2 DEF EpochInv, Before
    <3>2. QED
      BY <1>1, <1>4, <3>1, EpochsAppend DEF EpochInv
  <2>6. Before(Epochs(Command), Epochs(notices'), unsaved)
    BY <2>2, <2>3 DEF EpochInv, Before
  <2>7. Before(Epochs(Command) \cup Epochs(notices'), ReadEpochs', unsaved)
    BY <2>2 DEF Before
  <2>8. InOrder(Command, unsaved)' /\ InOrder(notices, unsaved)'
    BY <1>2, <1>3, <2>5 DEF EpochInv, InOrder, Fits
  <2>9. /\ Before(Epochs(Command), Epochs(notices), unsaved)'
        /\ Before(Epochs(Command) \cup Epochs(notices), ReadEpochs, unsaved)'
    BY <1>2, <1>3, <2>6, <2>7 DEF Before, Fits, Epochs
  <2>10. Rising(queue["insert"])' /\ Rising(Up)' /\ ~reused'
    BY <1>1, <1>2, <1>3 DEF EpochInv, Rising
  <2>11. QED
    BY <1>2, <1>3, <2>4, <2>8, <2>9, <2>10 DEF EpochInv
<1>6. CASE n.do # "Epoch"
  <2>1. Epochs(notices') = Epochs(notices) /\ InOrder(notices', unsaved')
    <3>0. Epochs(notices') = Epochs(notices)
                               \cup (IF n.do = "Epoch" THEN {n.epoch} ELSE {})
      BY <1>1, <1>4, EpochsAppend
    <3>1. Epochs(notices') = Epochs(notices)
      BY <1>6, <3>0
    <3>2. InOrder(notices, unsaved)
      BY DEF EpochInv
    <3>3. InOrder(notices', unsaved)
      BY <1>1, <1>4, <1>6, <3>2, EpochsAppend
    <3>4. QED
      BY <1>2, <3>1, <3>3
  <2>2. ReadEpochs' \subseteq ReadEpochs
    <3>1. CASE t = "get"
      BY <1>1, <3>1, AgendasDiffer DEF ReadEpochs
    <3>2. CASE t # "get"
      <4>1. agenda'["get"] = agenda["get"]
        BY <1>1, <3>2 DEF Tasks
      <4>2. QED
        BY <4>1 DEF ReadEpochs
    <3>3. QED
      BY <3>1, <3>2
  <2>3. InOrder(Command', unsaved') /\ Rising(Up') /\ Rising(queue'["insert"])
    BY <1>1, <1>2, <1>3 DEF EpochInv
  <2>4. QED
    BY <1>2, <1>3, <2>1, <2>2, <2>3, FewerEpochs
<1>7. QED
  BY <1>5, <1>6

LEMMA EpochService ==
  ASSUME TypeOK, EpochInv, ServiceTakesNotice
  PROVE  EpochInv'
<1> DEFINE m == Head(notices)
<1>1. /\ notices # <<>> /\ notices' = Tail(notices) /\ notices \in Seq(ServiceNotices)
      /\ queue' = queue /\ agenda' = agenda /\ row' = row
      /\ used' = used /\ reused' = reused /\ unsaved \subseteq unsaved'
  BY DEF ServiceTakesNotice, TypeOK, dbVars
<1>2. /\ Epochs(notices) = Epochs(notices') \cup (IF m.do = "Epoch" THEN {m.epoch} ELSE {})
      /\ InOrder(notices', unsaved)
      /\ m.do = "Epoch" => \A x \in Epochs(notices') : Fits(m.epoch, x, unsaved)
  BY <1>1, EpochsTail DEF EpochInv
<1>3. /\ ReadEpochs' = ReadEpochs /\ PendingStore' = PendingStore
      /\ Rising(queue'["insert"])
  BY <1>1 DEF ReadEpochs, PendingStore, EpochInv
<1>4. InOrder(notices', unsaved')
  BY <1>1, <1>2, InOrderMonotone
<1>5. CASE Exists /\ m.do \in {"Epoch", "ErrorEpoch"}
  <2>1. /\ runtime' = [runtime EXCEPT !.command = Append(runtime.command, m)]
        /\ unsaved' = unsaved /\ runtime \in Runtimes
    BY <1>5 DEF ServiceTakesNotice, TypeOK, Exists
  <2>2. Exists'
    <3>1. NoRuntime.machine = "none" /\ runtime'.machine \in Modes
      BY <2>1 DEF NoRuntime, Runtimes
    <3>2. QED
      BY <3>1 DEF Exists, Modes
  <2>3. Command' = Append(Command, m) /\ Up' = Up
    BY <1>5, <2>1, <2>2 DEF Command, Up, Runtimes
  <2>4. PendingRuntime' = PendingRuntime
    BY <1>5, <2>1, <2>2 DEF PendingRuntime, Pending, Runtimes
  <2>5. Command \in Seq(ServiceNotices) /\ m \in ServiceNotices
    BY <1>1, EpochsTyped
  <2>6. CASE m.do = "Epoch"
    <3>1. Epochs(Command') = Epochs(Command) \cup {m.epoch}
      BY <2>3, <2>5, <2>6, EpochsAppend
    <3>2. Epochs(notices) = Epochs(notices') \cup {m.epoch}
      BY <1>2, <2>6
    <3>3. InOrder(Command', unsaved)
      <4>1. \A x \in Epochs(Command) : Fits(x, m.epoch, unsaved)
        BY <3>2 DEF EpochInv, Before
      <4>2. QED
        BY <2>3, <2>5, <4>1, EpochsAppend DEF EpochInv
    <3>4. Before(Epochs(Command'), Epochs(notices'), unsaved)
      BY <1>2, <2>6, <3>1, <3>2 DEF EpochInv, Before
    <3>5. Before(Epochs(Command') \cup Epochs(notices'), ReadEpochs, unsaved)
      BY <3>1, <3>2 DEF EpochInv, Before
    <3>6. InOrder(Command, unsaved)' /\ InOrder(notices, unsaved)'
      BY <1>2, <2>1, <3>3 DEF InOrder, Fits
    <3>7. /\ Before(Epochs(Command), Epochs(notices), unsaved)'
          /\ Before(Epochs(Command) \cup Epochs(notices), ReadEpochs, unsaved)'
      BY <1>3, <2>1, <3>4, <3>5 DEF Before, Fits, Epochs
    <3>8. Rising(queue["insert"])' /\ Rising(Up)' /\ ~reused'
      BY <1>1, <1>3, <2>3 DEF EpochInv, Rising
    <3>9. Answered' = Answered /\ OnTheWay' = OnTheWay
      BY <1>3, <2>4, <3>1, <3>2 DEF Answered, OnTheWay, Epochs
    <3>10. QED
      BY <1>1, <1>3, <2>1, <2>4, <3>6, <3>7, <3>8, <3>9 DEF EpochInv
  <2>7. CASE m.do # "Epoch"
    <3>1. Epochs(Command') = Epochs(Command) /\ InOrder(Command', unsaved')
      BY <2>1, <2>3, <2>5, <2>7, EpochsAppend DEF EpochInv
    <3>2. Rising(Up') /\ OnTheWay' = OnTheWay
      BY <1>3, <2>3, <2>4 DEF EpochInv, OnTheWay
    <3>3. QED
      BY <1>1, <1>2, <1>3, <1>4, <2>4, <3>1, <3>2, FewerEpochs
  <2>8. QED
    BY <2>6, <2>7
<1>6. CASE ~(Exists /\ m.do \in {"Epoch", "ErrorEpoch"})
  <2>1. \/ /\ Command' = Command /\ Up' = Up /\ PendingRuntime' = PendingRuntime
        \/ /\ Command' = <<>> /\ Up' = <<>> /\ PendingRuntime' = {}
           /\ PendingRuntime \subseteq unsaved'
    <3>1. CASE ~Exists /\ m.do = "CreateRuntime"
      <4>1. runtime' = Spawned
        BY <3>1 DEF ServiceTakesNotice
      <4>2. Command' = <<>> /\ Up' = <<>> /\ PendingRuntime = {} /\ PendingRuntime' = {}
        BY <3>1, <4>1, NoEpochs DEF Command, Up, Spawned, PendingRuntime, Pending
      <4>3. QED
        BY <4>2
    <3>2. CASE Exists /\ m.do = "DeleteRuntime"
      <4>1. runtime' = NoRuntime /\ unsaved' = unsaved \cup PendingRuntime
        BY <3>2 DEF ServiceTakesNotice
      <4>2. Command' = <<>> /\ Up' = <<>> /\ PendingRuntime' = {}
        BY <4>1 DEF Command, Up, PendingRuntime, Exists
      <4>3. QED
        BY <4>1, <4>2
    <3>3. CASE ~(~Exists /\ m.do = "CreateRuntime") /\ ~(Exists /\ m.do = "DeleteRuntime")
      <4>1. runtime' = runtime
        BY <1>6, <3>3 DEF ServiceTakesNotice
      <4>2. QED
        BY <4>1, SameRuntime
    <3>4. QED
      BY <3>1, <3>2, <3>3
  <2>2. /\ InOrder(Command', unsaved') /\ Rising(Up')
        /\ Epochs(Command') \subseteq Epochs(Command)
        /\ PendingRuntime' \subseteq PendingRuntime
    <3>1. InOrder(Command, unsaved')
      BY <1>1, InOrderMonotone DEF EpochInv
    <3>2. QED
      BY <2>1, <3>1, NoEpochs DEF EpochInv
  <2>3. OnTheWay \subseteq OnTheWay' \cup unsaved'
    BY <1>3, <2>1 DEF OnTheWay
  <2>4. QED
    BY <1>1, <1>2, <1>3, <1>4, <2>2, <2>3, FewerEpochs
<1>7. QED
  BY <1>5, <1>6


LEMMA EpochForwards ==
  ASSUME TypeOK, EpochInv, ServiceForwards
  PROVE  EpochInv'
<1> DEFINE m == Head(runtime.up)
<1>1. /\ notices' = notices /\ agenda' = agenda /\ row' = row
      /\ used' = used /\ reused' = reused /\ unsaved' = unsaved
      /\ runtime.up # <<>> /\ Exists /\ runtime \in Runtimes
      /\ runtime' = [runtime EXCEPT !.up = Tail(runtime.up)]
  BY DEF ServiceForwards, TypeOK, dbVars, historyVars, Exists
<1>2. Exists'
  <2>1. NoRuntime.machine = "none" /\ runtime'.machine \in Modes
    BY <1>1 DEF NoRuntime, Runtimes
  <2>2. QED
    BY <2>1 DEF Exists, Modes
<1>3. /\ Command' = Command /\ Up = runtime.up /\ Up' = Tail(Up)
      /\ Up \in Seq(UpMessages) /\ Up # <<>>
  BY <1>1, <1>2 DEF Command, Up, Runtimes
<1>4. PendingRuntime = Pending(Up) /\ PendingRuntime' = Pending(Up')
  BY <1>1, <1>2, <1>3 DEF PendingRuntime, Pending
<1>5. /\ Pending(Up) = Pending(Up') \cup (IF m.do = "NewEpoch" THEN {m.epoch} ELSE {})
      /\ Rising(Up')
      /\ m.do = "NewEpoch" => \A x \in Pending(Up') : m.epoch <= x
  BY <1>3, EpochsTail DEF EpochInv
<1>6. ReadEpochs' = ReadEpochs /\ Answered' = Answered
  BY <1>1, <1>3 DEF ReadEpochs, Answered, Epochs
<1>7. m \in UpMessages /\ DOMAIN queue = Tasks
  BY <1>3 DEF TypeOK
<1>8. /\ InOrder(Command, unsaved)' /\ InOrder(notices, unsaved)'
      /\ Before(Epochs(Command), Epochs(notices), unsaved)'
      /\ Before(Epochs(Command) \cup Epochs(notices), ReadEpochs, unsaved)'
  BY <1>1, <1>3, <1>6 DEF EpochInv, InOrder, Before, Fits, Epochs
<1>9. CASE m.do = "NewEpoch"
  <2>1. queue'["insert"] = Append(queue["insert"], m)
    BY <1>7, <1>9 DEF ServiceForwards, Tasks
  <2>2. m \in InsertCommands /\ queue["insert"] \in Seq(InsertCommands)
    BY <1>7, <1>9, EpochsTyped DEF UpMessages, InsertCommands
  <2>3. m.epoch \in PendingRuntime /\ PendingRuntime = PendingRuntime' \cup {m.epoch}
    BY <1>4, <1>5, <1>9
  <2>4. PendingStore' = PendingStore \cup {m.epoch}
    <3>1. Pending(Append(queue["insert"], m))
            = Pending(queue["insert"]) \cup (IF m.do = "NewEpoch" THEN {m.epoch} ELSE {})
      BY <2>2, EpochsAppend
    <3>2. PendingStore' = Pending(Append(queue["insert"], m))
      BY <2>1 DEF PendingStore, Pending
    <3>3. QED
      BY <1>9, <3>1, <3>2 DEF PendingStore
  <2>5. Rising(queue'["insert"])
    <3>1. \A x \in Pending(queue["insert"]) : x <= m.epoch
      BY <2>3 DEF EpochInv, PendingStore
    <3>2. Rising(queue["insert"])
      BY DEF EpochInv
    <3>3. QED
      BY <2>1, <2>2, <3>1, <3>2, EpochsAppend
  <2>6. OnTheWay' = OnTheWay
    BY <2>3, <2>4 DEF OnTheWay
  <2>7. \A p \in PendingStore', q \in PendingRuntime' : p <= q
    BY <1>4, <1>5, <1>9, <2>3, <2>4 DEF EpochInv
  <2>8. Rising(queue["insert"])' /\ Rising(Up)' /\ ~reused'
    BY <1>1, <1>5, <2>5 DEF EpochInv, Rising
  <2>9. QED
    BY <1>1, <1>6, <1>8, <2>6, <2>7, <2>8 DEF EpochInv
<1>10. CASE m.do # "NewEpoch"
  <2>1. queue'["insert"] = queue["insert"]
    BY <1>7, <1>10 DEF ServiceForwards, UpMessages, Tasks
  <2>2. /\ PendingStore' = PendingStore /\ PendingRuntime' = PendingRuntime
        /\ OnTheWay' = OnTheWay
    BY <1>4, <1>5, <1>10, <2>1 DEF PendingStore, Pending, OnTheWay
  <2>3. Rising(queue["insert"])' /\ Rising(Up)' /\ ~reused'
    BY <1>1, <1>5, <2>1 DEF EpochInv, Rising
  <2>4. QED
    BY <1>1, <1>6, <1>8, <2>2, <2>3 DEF EpochInv
<1>11. QED
  BY <1>9, <1>10

LEMMA EpochTaken ==
  ASSUME TypeOK, EpochInv, FsmTakesEpoch
  PROVE  EpochInv'
<1> DEFINE v == Head(runtime.command).epoch
           m == With("NewEpoch", NewEpoch(v))
<1>1. /\ notices' = notices /\ agenda' = agenda /\ row' = row /\ queue' = queue
      /\ unsaved' = unsaved /\ used' = used \cup {NewEpoch(v)}
      /\ reused' = (reused \/ NewEpoch(v) \in used \ unsaved)
  BY DEF FsmTakesEpoch, InRuntime, dbVars
<1>2. /\ Exists /\ runtime \in Runtimes /\ runtime.command # <<>>
      /\ Head(runtime.command).do = "Epoch"
  BY DEF FsmTakesEpoch, TypeOK, Exists
<1>3. Exists'
  <2>1. NoRuntime.machine = "none" /\ runtime'.machine \in Modes
    BY <1>2 DEF FsmTakesEpoch, NoRuntime, Runtimes
  <2>2. QED
    BY <2>1 DEF Exists, Modes
<1>4. /\ Command = runtime.command /\ Command' = Tail(Command)
      /\ Up = runtime.up /\ Up' = Append(Up, m)
  BY <1>2, <1>3 DEF FsmTakesEpoch, Command, Up, Runtimes
<1>5. Command \in Seq(ServiceNotices) /\ Up \in Seq(UpMessages)
  BY EpochsTyped
<1>6. /\ Epochs(Command) = Epochs(Command') \cup {v}
      /\ InOrder(Command', unsaved)
      /\ \A x \in Epochs(Command') : Fits(v, x, unsaved)
  <2>1. /\ Epochs(Command) = Epochs(Tail(Command))
                     \cup (IF Head(Command).do = "Epoch" THEN {Head(Command).epoch} ELSE {})
        /\ InOrder(Command, unsaved) =>
              /\ InOrder(Tail(Command), unsaved)
              /\ Head(Command).do = "Epoch" =>
                   \A x \in Epochs(Tail(Command)) : Fits(Head(Command).epoch, x, unsaved)
    BY <1>2, <1>4, <1>5, EpochsTail
  <2>2. QED
    BY <1>2, <1>4, <2>1 DEF EpochInv
<1>7. /\ Answered = Answered' \cup {v} /\ ReadEpochs' = ReadEpochs
      /\ Epochs(notices') = Epochs(notices)
  BY <1>1, <1>6 DEF Answered, ReadEpochs, Epochs
<1>8. v \in Nat /\ row \in Nat /\ Answered \in SUBSET Nat /\ OnTheWay \in SUBSET Nat
      /\ NewEpoch(v) = v + 1
  BY <1>7, EpochsTyped DEF NewEpoch
<1>9. /\ v <= row /\ row <= v + 1 /\ (v + 1 \in used => v + 1 \in unsaved)
      /\ \A p \in OnTheWay : p <= v + 1
  BY <1>7 DEF EpochInv
<1>10. ~reused'
  BY <1>1, <1>8, <1>9 DEF EpochInv
<1>11. m \in UpMessages /\ m.do = "NewEpoch" /\ m.epoch = v + 1
  BY <1>8 DEF With, UpMessages
<1>12. PendingRuntime = Pending(Up) /\ PendingRuntime' = Pending(Up')
  <2>1. PendingRuntime = Pending(Up)
    BY PendingIsUp
  <2>2. PendingRuntime' = Pending(Up')
    BY <1>3 DEF PendingRuntime, Up, Pending
  <2>3. QED
    BY <2>1, <2>2
<1>13. PendingRuntime' = PendingRuntime \cup {v + 1} /\ Rising(Up')
  <2>1. Pending(Append(Up, m))
          = Pending(Up) \cup (IF m.do = "NewEpoch" THEN {m.epoch} ELSE {})
    BY <1>5, <1>11, EpochsAppend
  <2>2. \A x \in Pending(Up) : x <= m.epoch
    BY <1>9, <1>11, <1>12 DEF OnTheWay
  <2>3. Rising(Up)
    BY DEF EpochInv
  <2>4. Rising(Append(Up, m))
    BY <1>5, <1>11, <2>2, <2>3, EpochsAppend
  <2>5. QED
    BY <1>4, <1>11, <1>12, <2>1, <2>4
<1>14. PendingStore' = PendingStore /\ OnTheWay' = OnTheWay \cup {v + 1}
  BY <1>1, <1>13 DEF PendingStore, OnTheWay
<1>15. \A x \in Answered' : Fits(v, x, unsaved)
  BY <1>1, <1>6, <1>7 DEF EpochInv, Answered, Before
<1>16. \A x \in Answered' : /\ x <= row' /\ row' <= x + 1
                            /\ x + 1 \in used' => x + 1 \in unsaved'
  <2>1. SUFFICES ASSUME NEW x \in Answered', x + 1 = v + 1 PROVE x + 1 \in unsaved
    BY <1>1, <1>7, <1>8 DEF EpochInv
  <2>2. x \in Nat /\ x = v
    BY <1>7, <1>8, <2>1
  <2>3. QED
    BY <1>15, <2>2 DEF Fits
<1>17. \A p \in OnTheWay' : row' <= p /\ p <= row' + 1 /\ \A x \in Answered' : p <= x + 1
  <2>1. v + 1 <= row + 1
    BY <1>8, <1>9
  <2>2. ASSUME NEW x \in Answered' PROVE v + 1 <= x + 1
    <3>1. v <= x /\ x \in Nat
      BY <1>7, <1>8, <1>15 DEF Fits
    <3>2. QED
      BY <1>8, <3>1
  <2>3. QED
    BY <1>1, <1>7, <1>9, <1>14, <2>1, <2>2 DEF EpochInv
<1>18. \A p \in PendingStore', q \in PendingRuntime' : p <= q
  BY <1>9, <1>13, <1>14 DEF EpochInv, OnTheWay
<1>19. \A e \in used' : e <= row' \/ e \in unsaved' \/ e \in OnTheWay'
  BY <1>1, <1>8, <1>14 DEF EpochInv
<1>20. InOrder(Command, unsaved)' /\ InOrder(notices, unsaved)'
  BY <1>1, <1>6 DEF EpochInv, InOrder, Fits
<1>21. /\ Before(Epochs(Command), Epochs(notices), unsaved)'
       /\ Before(Epochs(Command) \cup Epochs(notices), ReadEpochs, unsaved)'
  <2>1. /\ Before(Epochs(Command'), Epochs(notices), unsaved)
        /\ Before(Epochs(Command') \cup Epochs(notices), ReadEpochs, unsaved)
    BY <1>6 DEF EpochInv, Before
  <2>2. QED
    BY <1>1, <1>7, <2>1 DEF Before, Fits, Epochs
<1>22. Rising(queue["insert"])' /\ Rising(Up)'
  BY <1>1, <1>13 DEF EpochInv, Rising
<1>23. QED
  BY <1>10, <1>16, <1>17, <1>18, <1>19, <1>20, <1>21, <1>22 DEF EpochInv

\* The other steps of the runtime take no answer and no epoch to the table.
LEMMA EpochRuntime ==
  ASSUME TypeOK, EpochInv,
         MachineTakesEvent \/ BalanceEnds \/ FsmTakesActions \/ FsmTakesErrorEpoch
  PROVE  EpochInv'
<1>1. /\ notices' = notices /\ agenda' = agenda /\ row' = row /\ queue' = queue
      /\ unsaved' = unsaved /\ used' = used /\ reused' = reused
  BY DEF MachineTakesEvent, BalanceEnds, FsmTakesActions, FsmTakesErrorEpoch,
         InRuntime, dbVars
<1>2. Exists /\ runtime \in Runtimes
  <2>1. NoRuntime.machine = "none"
    BY DEF NoRuntime
  <2>2. QED
    BY <2>1 DEF MachineTakesEvent, BalanceEnds, FsmTakesActions, FsmTakesErrorEpoch,
                TypeOK, Exists
<1>3. Exists'
  <2>1. NoRuntime.machine = "none" /\ runtime'.machine \in Modes
    BY <1>2 DEF MachineTakesEvent, BalanceEnds, FsmTakesActions, FsmTakesErrorEpoch,
                NoRuntime, Runtimes, Modes
  <2>2. QED
    BY <2>1 DEF Exists, Modes
<1>4. /\ Command = runtime.command /\ Command' = runtime'.command
      /\ Up = runtime.up /\ Up' = runtime'.up
      /\ PendingRuntime = Pending(Up) /\ PendingRuntime' = Pending(Up')
  BY <1>2, <1>3 DEF Command, Up, PendingRuntime, Pending
<1>5. Command \in Seq(ServiceNotices) /\ Up \in Seq(UpMessages)
  BY EpochsTyped
<1>6. /\ Epochs(Command') = Epochs(Command) /\ InOrder(Command', unsaved)
  <2>1. CASE Command' = Command
    BY <2>1 DEF EpochInv
  <2>2. CASE FsmTakesErrorEpoch
    <3>1. /\ Command # <<>> /\ Command' = Tail(Command) /\ Head(Command).do # "Epoch"
      BY <1>2, <1>4, <2>2 DEF FsmTakesErrorEpoch, Runtimes
    <3>2. /\ Epochs(Command) = Epochs(Tail(Command))
                     \cup (IF Head(Command).do = "Epoch" THEN {Head(Command).epoch} ELSE {})
          /\ InOrder(Command, unsaved) => InOrder(Tail(Command), unsaved)
      BY <1>5, <3>1, EpochsTail
    <3>3. QED
      BY <3>1, <3>2 DEF EpochInv
  <2>3. Command' = Command \/ FsmTakesErrorEpoch
    BY <1>2, <1>4 DEF MachineTakesEvent, BalanceEnds, FsmTakesActions, Runtimes
  <2>4. QED
    BY <2>1, <2>2, <2>3
<1>7. PendingRuntime' = PendingRuntime /\ Rising(Up')
  <2>1. Up' = Up \/ Up' = Append(Up, Do("GetEpoch"))
    BY <1>2, <1>4 DEF MachineTakesEvent, BalanceEnds, FsmTakesActions,
                      FsmTakesErrorEpoch, Runtimes
  <2>2. Do("GetEpoch") \in UpMessages /\ Do("GetEpoch").do = "GetEpoch"
    BY DEF Do, UpMessages
  <2>3. Rising(Up)
    BY DEF EpochInv
  <2>4. CASE Up' = Append(Up, Do("GetEpoch"))
    <3>1. Pending(Append(Up, Do("GetEpoch"))) = Pending(Up)
           \cup (IF Do("GetEpoch").do = "NewEpoch" THEN {Do("GetEpoch").epoch} ELSE {})
      BY <1>5, <2>2, EpochsAppend
    <3>2. Rising(Append(Up, Do("GetEpoch")))
      BY <1>5, <2>2, <2>3, EpochsAppend
    <3>3. QED
      BY <1>4, <2>2, <2>4, <3>1, <3>2
  <2>5. QED
    BY <1>4, <2>1, <2>3, <2>4
<1>8. PendingStore' = PendingStore /\ ReadEpochs' = ReadEpochs /\ OnTheWay' = OnTheWay
  BY <1>1, <1>7 DEF PendingStore, ReadEpochs, OnTheWay
<1>9. /\ Epochs(notices') = Epochs(notices) /\ InOrder(notices', unsaved')
      /\ InOrder(Command', unsaved') /\ Rising(queue'["insert"])
  BY <1>1, <1>6 DEF EpochInv
<1>10. QED
  BY <1>1, <1>6, <1>7, <1>8, <1>9, FewerEpochs

LEMMA EpochStep ==
  ASSUME TypeOK, EpochInv, [Next]_vars
  PROVE  EpochInv' /\ row' >= row
<1>0. row \in Nat
  BY DEF TypeOK
<1>1. CASE TopologyChanges
  <2>1. /\ runtime' = runtime /\ notices' = notices /\ agenda' = agenda
        /\ row' = row /\ used' = used /\ reused' = reused /\ unsaved' = unsaved
    BY <1>1 DEF TopologyChanges, dbVars, historyVars
  <2>2. PICK n \in Networks :
           \/ \E what \in {"InsertNetwork", "InsertHub"} :
                queue'["insert"] = Append(queue["insert"], For(what, n))
           \/ queue'["insert"] = queue["insert"]
    BY <1>1 DEF TopologyChanges, TypeOK, Tasks
  <2>3. PendingStore' = PendingStore /\ Rising(queue'["insert"])
    <3>1. Rising(queue["insert"]) /\ queue["insert"] \in Seq(InsertCommands)
      BY EpochsTyped DEF EpochInv
    <3>2. CASE queue'["insert"] = queue["insert"]
      BY <3>1, <3>2 DEF PendingStore, Pending
    <3>3. ASSUME NEW what \in {"InsertNetwork", "InsertHub"},
                 queue'["insert"] = Append(queue["insert"], For(what, n))
          PROVE  PendingStore' = PendingStore /\ Rising(queue'["insert"])
      <4> DEFINE m == For(what, n)
      <4>1. m \in InsertCommands /\ m.do # "NewEpoch"
        BY DEF For, InsertCommands
      <4>2. Pending(Append(queue["insert"], m)) = Pending(queue["insert"])
              \cup (IF m.do = "NewEpoch" THEN {m.epoch} ELSE {})
        BY <3>1, <4>1, EpochsAppend
      <4>3. Rising(Append(queue["insert"], m))
        BY <3>1, <4>1, EpochsAppend
      <4>4. PendingStore' = Pending(Append(queue["insert"], m))
        BY <3>3 DEF PendingStore, Pending
      <4>5. QED
        BY <3>3, <4>1, <4>2, <4>3, <4>4 DEF PendingStore
    <3>4. QED
      BY <2>2, <3>2, <3>3
  <2>4. /\ Command' = Command /\ Up' = Up /\ PendingRuntime' = PendingRuntime
        /\ ReadEpochs' = ReadEpochs /\ OnTheWay' = OnTheWay
    BY <2>1, <2>3, SameRuntime DEF ReadEpochs, OnTheWay
  <2>5. /\ Epochs(notices') = Epochs(notices) /\ InOrder(notices', unsaved')
        /\ InOrder(Command', unsaved') /\ Rising(Up')
    BY <2>1, <2>4 DEF EpochInv
  <2>6. EpochInv'
    BY <2>1, <2>3, <2>4, <2>5, FewerEpochs
  <2>7. QED
    BY <1>0, <2>1, <2>6
<1>2. ASSUME NEW t \in Tasks, Says(t) PROVE EpochInv' /\ row' >= row
  <2>1. row' = row
    BY <1>2 DEF Says, dbVars
  <2>2. QED
    BY <1>0, <1>2, <2>1, EpochSays
<1>3. ASSUME NEW t \in Tasks, RunsStatement(t) PROVE EpochInv' /\ row' >= row
  BY <1>3, EpochStatement
<1>4. ASSUME NEW t \in Tasks, StatementFails(t) PROVE EpochInv' /\ row' >= row
  <2>1. row' = row
    BY <1>4 DEF StatementFails, dbVars
  <2>2. QED
    BY <1>0, <1>4, <2>1, EpochError
<1>5. CASE ServiceTakesNotice
  <2>1. row' = row
    BY <1>5 DEF ServiceTakesNotice, dbVars
  <2>2. QED
    BY <1>0, <1>5, <2>1, EpochService
<1>6. CASE ServiceForwards
  <2>1. row' = row
    BY <1>6 DEF ServiceForwards, dbVars
  <2>2. QED
    BY <1>0, <1>6, <2>1, EpochForwards
<1>7. CASE FsmTakesEpoch
  <2>1. row' = row
    BY <1>7 DEF FsmTakesEpoch, InRuntime, dbVars
  <2>2. QED
    BY <1>0, <1>7, <2>1, EpochTaken
<1>8. CASE MachineTakesEvent \/ BalanceEnds \/ FsmTakesActions \/ FsmTakesErrorEpoch
  <2>1. row' = row
    BY <1>8 DEF MachineTakesEvent, BalanceEnds, FsmTakesActions, FsmTakesErrorEpoch,
                InRuntime, dbVars
  <2>2. QED
    BY <1>0, <1>8, <2>1, EpochRuntime
<1>9. CASE Restarts
  <2>1. /\ runtime' = NoRuntime /\ notices' = <<>>
        /\ queue'["insert"] = <<>> /\ agenda'["get"] = <<>>
        /\ row' = row /\ used' = used /\ reused' = reused
        /\ unsaved' = unsaved \cup PendingRuntime \cup PendingStore
    BY <1>9 DEF Restarts, dbVars, EmptyQueues, Tasks
  <2>2. Command' = <<>> /\ Up' = <<>> /\ PendingRuntime' = {}
    BY <2>1 DEF Command, Up, PendingRuntime, Exists
  <2>3. ReadEpochs' = {}
    BY <2>1, AgendasDiffer DEF ReadEpochs
  <2>4. PendingStore' \subseteq PendingStore
    BY <2>1 DEF PendingStore, Pending
  <2>5. OnTheWay \subseteq OnTheWay' \cup unsaved'
    BY <2>1 DEF OnTheWay
  <2>6. EpochInv'
    BY <2>1, <2>2, <2>3, <2>4, <2>5, NoEpochs, FewerEpochs
  <2>7. QED
    BY <1>0, <2>1, <2>6
<1>10. CASE UNCHANGED vars
  <2>1. /\ runtime' = runtime /\ notices' = notices /\ agenda' = agenda /\ queue' = queue
        /\ row' = row /\ used' = used /\ reused' = reused /\ unsaved' = unsaved
    BY <1>10 DEF vars, dbVars, historyVars
  <2>2. /\ Command' = Command /\ Up' = Up /\ PendingRuntime' = PendingRuntime
        /\ ReadEpochs' = ReadEpochs /\ PendingStore' = PendingStore
        /\ OnTheWay' = OnTheWay
    BY <2>1, SameRuntime DEF ReadEpochs, OnTheWay, PendingStore
  <2>3. /\ Epochs(notices') = Epochs(notices) /\ InOrder(notices', unsaved')
        /\ InOrder(Command', unsaved') /\ Rising(Up') /\ Rising(queue'["insert"])
    BY <2>1, <2>2 DEF EpochInv
  <2>4. EpochInv'
    BY <2>1, <2>2, <2>3, FewerEpochs
  <2>5. QED
    BY <1>0, <2>1, <2>4
<1>11. QED
  BY <1>1, <1>2, <1>3, <1>4, <1>5, <1>6, <1>7, <1>8, <1>9, <1>10 DEF Next

LEMMA EpochInit ==
  ASSUME Init
  PROVE  EpochInv
<1>1. /\ runtime = NoRuntime /\ notices = <<>> /\ queue["insert"] = <<>>
      /\ agenda["get"] = <<>> /\ used = {} /\ reused = FALSE
  BY DEF Init, EmptyQueues, Tasks
<1>2. Command = <<>> /\ Up = <<>> /\ PendingRuntime = {} /\ PendingStore = {}
  BY <1>1, NoEpochs DEF Command, Up, PendingRuntime, PendingStore, Exists
<1>3. ReadEpochs = {}
  BY <1>1, AgendasDiffer DEF ReadEpochs
<1>4. Epochs(Command) = {} /\ Epochs(notices) = {}
  BY <1>1, <1>2, NoEpochs
<1>5. Answered = {} /\ OnTheWay = {}
  BY <1>2, <1>3, <1>4 DEF Answered, OnTheWay
<1>6. /\ InOrder(Command, unsaved) /\ InOrder(notices, unsaved)
      /\ Rising(queue["insert"]) /\ Rising(Up)
  BY <1>1, <1>2, NoEpochs
<1>7. QED
  BY <1>1, <1>2, <1>3, <1>4, <1>5, <1>6 DEF EpochInv, Before

\* The stored epoch never falls (balance_epoch.rs 3-6): not when a runtime goes
\* with its epoch under way, not when statements fail, not over restarts.
THEOREM EpochsNeverFallHolds == Spec => EpochsNeverFall
<1>1. Init => EpochInv
  BY EpochInit
<1>2. TypeOK /\ EpochInv /\ [Next]_vars => EpochInv'
  BY EpochStep
<1>3. TypeOK /\ EpochInv /\ [Next]_vars => [row' >= row]_vars
  BY EpochStep
<1>4. QED
  BY <1>1, <1>2, <1>3, TypeCorrect, PTL DEF Spec, EpochsNeverFall

\* A balance gets an epoch that another had (fsm/logic.rs 122-133) only when
\* it was lost on its way to the table, or read again before it got there.
THEOREM ReuseHasCauseHolds == Spec => []ReuseHasCause
<1>1. Init => EpochInv
  BY EpochInit
<1>2. TypeOK /\ EpochInv /\ [Next]_vars => EpochInv'
  BY EpochStep
<1>3. EpochInv => ReuseHasCause
  BY DEF EpochInv, ReuseHasCause
<1>4. QED
  BY <1>1, <1>2, <1>3, TypeCorrect, PTL DEF Spec

=============================================================================
