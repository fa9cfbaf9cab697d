------------------------------ MODULE Topology ------------------------------
(***************************************************************************)
(* The topology - which networks exist, whether they are active, which     *)
(* hubs belong to them - lives in three places: the server dictates it,    *)
(* NetworkManager caches it and SQLite keeps it across restarts.           *)
(*                                                                         *)
(*   network_admin    decides and changes the cache                        *)
(*   network_dba      turns each change into database commands             *)
(*   dba_insert_task, dba_remove_task, dba_get_task                        *)
(*                    run them, each from a queue of its own               *)
(*                                                                         *)
(* The hops that only pass on, in order, are collapsed: NetworkService::run *)
(* and DataService::run, and Core, which passes the messages of the server *)
(* and the hubs to network_admin, the outcomes back to the server and what *)
(* was read at the start to network_admin.  What only goes out - orders    *)
(* and acks to hubs, the subscriptions, the notices that create or delete  *)
(* the balancing runtime - is left out.                                    *)
(***************************************************************************)
EXTENDS Naturals, Sequences, FiniteSets

CONSTANTS
    Networks, Hubs,
    MaxChanges,   \* bound: changes of networks that the server sends
    MaxRequests,  \* bound: linkage requests of hubs, and DeleteHub of the server
    MaxMishaps    \* bound: failed statements and restarts of the gateway

ASSUME BoundsAssumption ==
    {MaxChanges, MaxRequests, MaxMishaps} \subseteq Nat

VARIABLES
    networks, hubs,   \* NetworkManager
    table, hubTable,  \* the tables network and hub
    queue,            \* the channels, by the task that reads them; of a
                      \* database task, first what it still does for the
                      \* command it has taken
    awaited,          \* changes of a network with no outcome yet
    reply,            \* last code the server got for a network; 0 is none
    dismissed,        \* history: who was removed by DeleteHub
    unread,           \* history: stored hubs that the start did not read
    astray,           \* history: networks whose row the start did not read, or
                      \* that changed before the rows were in the cache
    crossed,          \* history: networks with a deletion and another change
                      \* under way at once
    count             \* counters of the bounds

tableVars   == <<table, hubTable>>
historyVars == <<dismissed, unread, astray, crossed>>
vars == <<networks, hubs, tableVars, queue, awaited, reply, historyVars, count>>

-----------------------------------------------------------------------------
Absent   == "absent"
Statuses == {"active", "inactive"}
NoNet    == "none"

\* No network has the mark of a hub without one as its name.
ASSUME NamesAssumption == NoNet \notin Networks

Tasks    == {"insert", "remove", "get"}
Readers  == Tasks \cup {"batch", "network", "hubs"}

As(m, name)     == [m EXCEPT !.do = name]
Say(r)          == [do |-> "say", what |-> r]
Updated(n, c)   == Say([do |-> "NetworksUpdated", net |-> n, code |-> c])

Push(q, r, m) == [q EXCEPT ![r] = Append(@, m)]
Pop(q, r)     == [q EXCEPT ![r] = Tail(@)]
Counts(what)  == count' = [count EXCEPT ![what] = @ + 1]

StoredNetworks == {n \in Networks : table[n] # Absent}
StoredHubs     == {h \in Hubs : hubTable[h] # NoNet}
SomeNetwork    == StoredNetworks # {}
Loading     == queue["get"] # <<>> \/ queue["batch"] # <<>>

\* What is under way about a network: changes that the insert task carries out
\* and deletions, from network_admin to the outcome, and outcomes.
Elements(q) == {q[i] : i \in DOMAIN q}
OfNetwork(m, n) ==
    \/ m.do \in {"InsertNetwork", "UpdateNetwork", "DeleteNetwork"} /\ m.net = n
    \/ m.do = "say" /\ m.what.net = n
Sets(n) ==
    \/ \E m \in Elements(queue["network"]) : m.do # "Delete" /\ m.net = n
    \/ \E m \in Elements(queue["insert"]) : OfNetwork(m, n)
Deletes(n) ==
    \/ \E m \in Elements(queue["network"]) : m.do = "Delete" /\ m.net = n
    \/ \E m \in Elements(queue["remove"]) : OfNetwork(m, n)
Changing(n)  == Sets(n) \/ Deletes(n)
Answering(n) ==
    \E m \in Elements(queue["insert"]) \cup Elements(queue["remove"]) :
       m.do = "say" /\ m.what.net = n

\* A gateway that starts: nothing in memory, Core asks for the networks.
Started ==
    [networks |-> [n \in Networks |-> Absent],
     hubs     |-> [n \in Networks |-> {}],
     queue    |-> [r \in Readers |->
                      IF r = "get" THEN <<[do |-> "GetTotalOfNetworks"]>>
                                   ELSE <<>>],
     awaited  |-> [n \in Networks |-> 0],
     reply    |-> [n \in Networks |-> 0]]

\* The tables hold what an earlier life has left.
Init ==
    /\ networks = Started.networks /\ hubs = Started.hubs
    /\ queue = Started.queue
    /\ awaited = Started.awaited /\ reply = Started.reply
    /\ table \in [Networks -> Statuses \cup {Absent}]
    /\ hubTable \in [Hubs -> Networks \cup {NoNet}]
    /\ dismissed = {} /\ unread = {} /\ astray = {} /\ crossed = {}
    /\ count = [changes |-> 0, requests |-> 0, mishaps |-> 0]

-----------------------------------------------------------------------------
(* network_admin.                                                          *)

\* What to do about a network of the server, delete_network being the status
\* Absent.
NetworkAction(n, s) ==
    CASE networks[n] # Absent /\ s = Absent -> "Delete"
      [] networks[n] # Absent /\ s \notin {Absent, networks[n]} -> "Update"
      [] networks[n] = Absent /\ s # Absent -> "Insert"
      [] OTHER -> "Ignore"

\* The histories, when a change is passed on.
Notes(n, action) ==
    /\ astray' = IF Loading THEN astray \cup {n} ELSE astray \ {n}
    /\ crossed' = IF IF action = "Delete" THEN Sets(n) ELSE Deletes(n)
                  THEN crossed \cup {n} ELSE crossed

\* Variant: a deletion forgets the hubs of the network as well.
AdminTakesNetwork_Cascade(n, s) ==
    /\ count.changes < MaxChanges /\ Counts("changes")
    /\ LET action == NetworkAction(n, s) IN
          /\ action # "Ignore"
          /\ networks' = [networks EXCEPT ![n] = s]
          /\ queue' = Push(queue, "network", [do |-> action, net |-> n, set |-> s])
          /\ awaited' = [awaited EXCEPT ![n] = @ + 1]
          /\ Notes(n, action)
          /\ hubs' = IF action = "Delete" THEN [hubs EXCEPT ![n] = {}] ELSE hubs
    /\ UNCHANGED <<tableVars, reply, dismissed, unread>>

\* The server sends a network, or deletes one.  A change that is ignored leaves
\* no trace.
AdminTakesNetwork(n, s) ==
    /\ count.changes < MaxChanges /\ Counts("changes")
    /\ LET action == NetworkAction(n, s) IN
          /\ action # "Ignore"
          /\ networks' = [networks EXCEPT ![n] = s]
          /\ queue' = Push(queue, "network", [do |-> action, net |-> n, set |-> s])
          /\ awaited' = [awaited EXCEPT ![n] = @ + 1]
          /\ Notes(n, action)
    /\ UNCHANGED <<hubs, tableVars, reply, dismissed, unread>>

\* The server deletes a hub: the event carries the id of the network, the one
\* of the hub is gone.
AdminTakesDeleteHub(n, h) ==
    /\ count.requests < MaxRequests /\ Counts("requests")
    /\ hubs' = [hubs EXCEPT ![n] = @ \ {h}]
    /\ queue' = Push(queue, "hubs", [do |-> "Delete", net |-> n])
    /\ dismissed' = dismissed \cup {<<n, h>>}
    /\ UNCHANGED <<networks, tableVars, awaited, reply, unread, astray,
                   crossed>>

search_hub(n, h) == networks[n] = Absent \/ h \in hubs[n]

\* A hub asks to be linked.
AdminTakesRequest(n, h) ==
    /\ count.requests < MaxRequests /\ Counts("requests")
    /\ ~search_hub(n, h)
    /\ hubs' = [hubs EXCEPT ![n] = @ \cup {h}]
    /\ queue' = Push(queue, "hubs", [do |-> "Insert", net |-> n, hub |-> h])
    /\ dismissed' = dismissed \ {<<n, h>>}
    /\ UNCHANGED <<networks, tableVars, awaited, reply, unread, astray,
                   crossed>>

AdminTakesBatch ==
    /\ queue["batch"] # <<>>
    /\ queue' = Pop(queue, "batch")
    /\ LET b == Head(queue["batch"]) IN
       \/ /\ b.do = "BatchNetwork"
          /\ networks' = [n \in Networks |->
                IF b.rows[n] # Absent THEN b.rows[n] ELSE networks[n]]
          /\ UNCHANGED hubs
       \/ /\ b.do = "BatchHub"
          /\ hubs' = [n \in Networks |->
                         hubs[n] \cup {h \in Hubs : b.rows[h] = n}]
          /\ UNCHANGED networks
    /\ UNCHANGED <<tableVars, awaited, reply, historyVars, count>>

-----------------------------------------------------------------------------
(* network_dba.                                                            *)

DbaTakesNetwork ==
    /\ queue["network"] # <<>>
    /\ LET m == Head(queue["network"])
           q == Pop(queue, "network") IN
       queue' =
          CASE m.do = "Delete" -> Push(Push(q, "remove", As(m, "DeleteNetwork")),
                                       "remove", As(m, "DeleteAllHubByNetwork"))
            [] m.do = "Update" -> Push(q, "insert", As(m, "UpdateNetwork"))
            [] m.do = "Insert" -> Push(q, "insert", As(m, "InsertNetwork"))
    /\ UNCHANGED <<networks, hubs, tableVars, awaited, reply,
                   historyVars, count>>

DbaTakesHub ==
    /\ queue["hubs"] # <<>>
    /\ LET m == Head(queue["hubs"])
           q == Pop(queue, "hubs") IN
       queue' = IF m.do = "Insert" THEN Push(q, "insert", As(m, "InsertHub"))
                                   ELSE Push(q, "remove", As(m, "DeleteHub"))
    /\ UNCHANGED <<networks, hubs, tableVars, awaited, reply,
                   historyVars, count>>

-----------------------------------------------------------------------------
(* The database tasks: each does one command after the other; statements   *)
(* and sends are steps of their own.                                       *)

NextIs(t, name) == queue[t] # <<>> /\ Head(queue[t]).do = name
Later(t, steps) == [queue EXCEPT ![t] = steps \o Tail(@)]
Then(t, steps)  == queue' = Later(t, steps)

\* What a task says goes to the server, or back to network_admin.
Says(t) ==
    /\ NextIs(t, "say")
    /\ LET m == Head(queue[t]).what IN
       \/ /\ m.do = "NetworksUpdated"
          /\ reply' = [reply EXCEPT ![m.net] = m.code]
          /\ awaited' = [awaited EXCEPT ![m.net] = @ - 1]
          /\ Then(t, <<>>)
       \/ /\ m.do \in {"BatchNetwork", "BatchHub"}
          /\ queue' = Push(Later(t, <<>>), "batch", m)
          /\ UNCHANGED <<reply, awaited>>
    /\ UNCHANGED <<networks, hubs, tableVars, historyVars, count>>

InsertsNetwork ==
    /\ NextIs("insert", "InsertNetwork")
    /\ LET j == Head(queue["insert"]) IN
          /\ table[j.net] = Absent
          /\ table' = [table EXCEPT ![j.net] = j.set]
          /\ Then("insert", <<Updated(j.net, 100)>>)
    /\ UNCHANGED <<hubTable, unread, astray>>

\* Variant: an UPDATE, which changes no row when there is none.
UpdatesNetwork_NoRow ==
    /\ NextIs("insert", "UpdateNetwork")
    /\ LET j == Head(queue["insert"]) IN
          /\ table' = IF table[j.net] = Absent THEN table
                      ELSE [table EXCEPT ![j.net] = j.set]
          /\ Then("insert",
                  <<Updated(j.net, IF j.set = "active" THEN 300 ELSE 400)>>)
    /\ UNCHANGED <<hubTable, unread, astray>>

\* Variant: the two codes change places.
UpdatesNetwork_Swapped ==
    /\ NextIs("insert", "UpdateNetwork")
    /\ LET j == Head(queue["insert"]) IN
          /\ table' = [table EXCEPT ![j.net] = j.set]
          /\ Then("insert",
                  <<Updated(j.net, IF j.set = "active" THEN 400 ELSE 300)>>)
    /\ UNCHANGED <<hubTable, unread, astray>>

\* An upsert.
UpdatesNetwork ==
    /\ NextIs("insert", "UpdateNetwork")
    /\ LET j == Head(queue["insert"]) IN
          /\ table' = [table EXCEPT ![j.net] = j.set]
          /\ Then("insert",
                  <<Updated(j.net, IF j.set = "active" THEN 300 ELSE 400)>>)
    /\ UNCHANGED <<hubTable, unread, astray>>

CountsNetworksForHub ==
    /\ NextIs("insert", "InsertHub")
    /\ Then("insert", IF SomeNetwork
                      THEN <<As(Head(queue["insert"]), "insert_hub")>>
                      ELSE <<>>)
    /\ UNCHANGED <<tableVars, unread, astray>>

InsertsHub ==
    /\ NextIs("insert", "insert_hub") /\ Then("insert", <<>>)
    /\ LET j == Head(queue["insert"]) IN
          /\ hubTable[j.hub] = NoNet
          /\ hubTable' = [hubTable EXCEPT ![j.hub] = j.net]
    /\ UNCHANGED <<table, unread, astray>>

DeletesNetwork ==
    /\ NextIs("remove", "DeleteNetwork")
    /\ LET j == Head(queue["remove"]) IN
          /\ table' = [table EXCEPT ![j.net] = Absent]
          /\ Then("remove", <<Updated(j.net, 200)>>)
    /\ UNCHANGED <<hubTable, unread, astray>>

DeletesHubsOfNetwork ==
    /\ NextIs("remove", "DeleteAllHubByNetwork") /\ Then("remove", <<>>)
    /\ hubTable' = [h \in Hubs |-> IF hubTable[h] = Head(queue["remove"]).net
                                   THEN NoNet ELSE hubTable[h]]
    /\ UNCHANGED <<table, unread, astray>>

CountsNetworks ==
    /\ NextIs("get", "GetTotalOfNetworks")
    /\ Then("get", IF SomeNetwork THEN <<[do |-> "get_all_network"],
                                         [do |-> "get_all_hubs"]>>
                                  ELSE <<>>)
    /\ unread' = IF SomeNetwork THEN unread ELSE StoredHubs
    /\ UNCHANGED <<tableVars, astray>>

ReadsNetworks ==
    /\ NextIs("get", "get_all_network")
    /\ Then("get", <<Say([do |-> "BatchNetwork", rows |-> table])>>)
    /\ UNCHANGED <<tableVars, unread, astray>>

ReadsHubs ==
    /\ NextIs("get", "get_all_hubs")
    /\ Then("get", IF \A h \in Hubs : hubTable[h] = NoNet THEN <<>>
                   ELSE <<Say([do |-> "BatchHub", rows |-> hubTable])>>)
    /\ UNCHANGED <<tableVars, unread, astray>>

\* Statements that cannot succeed: a primary key that is taken, and the
\* deletion of one hub, which names a column the table does not have.
Refused(j) ==
    \/ j.do = "InsertNetwork" /\ table[j.net] # Absent
    \/ j.do = "insert_hub" /\ hubTable[j.hub] # NoNet
    \/ j.do = "DeleteHub"

\* Variant: a network that cannot be inserted is only logged, as a hub is.
AfterError_Logged(j) ==
    CASE j.do = "UpdateNetwork" -> <<Updated(j.net, IF j.set = "active"
                                                    THEN 301 ELSE 401)>>
      [] j.do = "DeleteNetwork" -> <<Updated(j.net, 201)>>
      [] OTHER -> <<>>

\* What remains to be done after a failed statement.
AfterError(j) ==
    CASE j.do = "InsertNetwork" -> <<Updated(j.net, 101)>>
      [] j.do = "UpdateNetwork" -> <<Updated(j.net, IF j.set = "active"
                                                    THEN 301 ELSE 401)>>
      [] j.do = "DeleteNetwork" -> <<Updated(j.net, 201)>>
      [] OTHER -> <<>>

\* A read of the start that fails is not repeated.
StatementFails(t) ==
    /\ queue[t] # <<>> /\ ~NextIs(t, "say")
    /\ LET j == Head(queue[t]) IN
          /\ Then(t, AfterError(j))
          /\ \/ Refused(j) /\ UNCHANGED count
             \/ ~Refused(j) /\ count.mishaps < MaxMishaps /\ Counts("mishaps")
          /\ astray' = IF j.do \in {"GetTotalOfNetworks", "get_all_network"}
                       THEN astray \cup StoredNetworks ELSE astray
          /\ unread' = IF j.do \in {"GetTotalOfNetworks", "get_all_hubs"}
                       THEN StoredHubs ELSE unread
    /\ UNCHANGED <<networks, hubs, tableVars, awaited, reply, dismissed, crossed>>

RunsStatement(t) ==
    /\ \/ /\ t = "insert"
          /\ \/ InsertsNetwork \/ UpdatesNetwork
             \/ CountsNetworksForHub \/ InsertsHub
       \/ /\ t = "remove"
          /\ DeletesNetwork \/ DeletesHubsOfNetwork
       \/ /\ t = "get"
          /\ CountsNetworks \/ ReadsNetworks \/ ReadsHubs
    /\ UNCHANGED <<networks, hubs, awaited, reply, dismissed, crossed, count>>

-----------------------------------------------------------------------------
(* A restart at any moment.                                                *)

Restarts ==
    /\ count.mishaps < MaxMishaps /\ Counts("mishaps")
    /\ networks' = Started.networks /\ hubs' = Started.hubs
    /\ queue' = Started.queue
    /\ awaited' = Started.awaited /\ reply' = Started.reply
    /\ dismissed' = {} /\ unread' = {} /\ astray' = {} /\ crossed' = {}
    /\ UNCHANGED tableVars

Next ==
    \/ \E n \in Networks, s \in Statuses \cup {Absent} : AdminTakesNetwork(n, s)
    \/ \E n \in Networks, h \in Hubs :
          AdminTakesDeleteHub(n, h) \/ AdminTakesRequest(n, h)
    \/ AdminTakesBatch
    \/ DbaTakesNetwork \/ DbaTakesHub
    \/ \E t \in Tasks : Says(t) \/ RunsStatement(t) \/ StatementFails(t)
    \/ Restarts

Fairness ==
    /\ WF_vars(AdminTakesBatch)
    /\ WF_vars(DbaTakesNetwork) /\ WF_vars(DbaTakesHub)
    /\ \A t \in Tasks :
          WF_vars(Says(t)) /\ WF_vars(RunsStatement(t) \/ StatementFails(t))

Spec     == Init /\ [][Next]_vars
FairSpec == Spec /\ Fairness

-----------------------------------------------------------------------------
Codes  == {100, 200, 300, 400}
Errors == {c + 1 : c \in Codes}

\* When no change of a network is under way and the start is over, the cache and
\* the database hold the same of it, unless the last the server was told is an
\* error: "mantener sincronizada la topologia" (network/logic.rs).  Changes may
\* follow each other at any pace, fail, and be cut off by a restart.  Two ways
\* out of it: a deletion and another change that were under way at once, in two
\* queues (crossed), and a start that did not read the row or that met a change,
\* until the next change (astray).
NetworksAgree ==
    \A n \in Networks \ (crossed \cup astray) :
       ~Loading /\ ~Changing(n) =>
          networks[n] = table[n] \/ reply[n] \in Errors

\* What the server was last told of a network is what the database holds, unless
\* a newer answer is on its way: created, activated, deactivated or deleted
\* (GenerateNetworkAck with the code of the task that ran the statement), with
\* more changes behind it and two tasks that answer.
RepliesTellTheTable ==
    \A n \in Networks \ crossed :
       ~Answering(n) =>
          CASE reply[n] = 100 -> table[n] # Absent
            [] reply[n] = 200 -> table[n] = Absent
            [] reply[n] = 300 -> table[n] = "active"
            [] reply[n] = 400 -> table[n] = "inactive"
            [] OTHER -> TRUE

\* A hub the database knows is one the quorums count (get_total_hubs), from
\* the end of the start on: whatever the order of linkage requests, deletions
\* of networks, failures and restarts.  Two ways out of it: DeleteHub, which
\* only the cache obeys, and a start that did not read the hubs, as a read
\* failed or there were no networks.
StoredHubsAreCounted ==
    ~Loading =>
       \A h \in Hubs \ unread, n \in Networks :
          hubTable[h] = n /\ <<n, h>> \notin dismissed => h \in hubs[n]

\* A change of a network comes to an end: one code goes back to the server for
\* each, statements that fail included.
ChangesSettle ==
    \A n \in Networks : awaited[n] > 0 ~> awaited[n] = 0
=============================================================================
