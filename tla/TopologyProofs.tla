------------------------- MODULE TopologyProofs -----------------------------
(***************************************************************************)
(* Proofs about the topology, for all networks and hubs, and for every     *)
(* number of changes, requests, failed statements and restarts.            *)
(*                                                                         *)
(*   networks  What is under way about a network is in three queues: of    *)
(*             network_dba and of the insert and the remove task.  Unless  *)
(*             the network is crossed, it is in one of the last two only   *)
(*             (Apart), so that its changes keep their order.  The newest  *)
(*             then agrees with the cache (NewestFits), and what a task    *)
(*             says, or has said last, agrees with the table (Told).       *)
(*   start     Of a network that is not astray nothing is under way until  *)
(*             the row that was read is in the cache (Start).              *)
(*   hubs      A hub on its way to the table is one the cache counts       *)
(*             (Entered); one in the table is in the cache, or in rows on  *)
(*             their way to it (HubInv).                                   *)
(***************************************************************************)
EXTENDS Topology, Integers, SequenceTheorems, TLAPS

\* What the queues carry.
Values           == Statuses \cup {Absent}
Changes(names)   == [do : names, net : Networks, set : Statuses]
Deletions(names) == [do : names, net : Networks, set : {Absent}]
HubMsgs(names)   == [do : names, net : Networks, hub : Hubs]
Removals(names)  == [do : names, net : Networks]
Plain(names)     == [do : names]
Updates          == [do : {"NetworksUpdated"}, net : Networks, code : Codes \cup Errors]
NetworkBatches   == [do : {"BatchNetwork"}, rows : [Networks -> Values]]
HubBatches       == [do : {"BatchHub"}, rows : [Hubs -> Networks \cup {NoNet}]]
Batches          == NetworkBatches \cup HubBatches
Sayings(what)    == [do : {"say"}, what : what]

NetworkMsgs == Changes({"Insert", "Update"}) \cup Deletions({"Delete"})
HubChanges  == HubMsgs({"Insert"}) \cup Removals({"Delete"})
Inserts     == Changes({"InsertNetwork", "UpdateNetwork"}) \cup HubMsgs({"InsertHub"})
Removes     == Deletions({"DeleteNetwork", "DeleteAllHubByNetwork"}) \cup Removals({"DeleteHub"})
GetJobs     == Plain({"GetTotalOfNetworks", "get_all_network", "get_all_hubs"})
                 \cup Sayings(Batches)

\* What may wait behind the first of a queue, and what may be the first: a step
\* of a command that its task has taken.
Waits(r) ==
    CASE r = "batch"   -> Batches
      [] r = "network" -> NetworkMsgs
      [] r = "hubs"    -> HubChanges
      [] r = "insert"  -> Inserts
      [] r = "remove"  -> Removes
      [] r = "get"     -> GetJobs
Firsts(r) ==
    CASE r = "insert" -> Inserts \cup HubMsgs({"insert_hub"}) \cup Sayings(Updates)
      [] r = "remove" -> Removes \cup Sayings(Updates)
      [] OTHER        -> Waits(r)

QueueOK ==
    /\ queue = [r \in Readers |-> queue[r]]
    /\ \A r \in Readers :
          /\ queue[r] \in Seq(Firsts(r))
          /\ queue[r] # <<>> => Tail(queue[r]) \in Seq(Waits(r))
RestOK ==
    /\ networks \in [Networks -> Values] /\ table \in [Networks -> Values]
    /\ hubs \in [Networks -> SUBSET Hubs]
    /\ hubTable \in [Hubs -> Networks \cup {NoNet}]
    /\ awaited \in [Networks -> Int]
    /\ reply \in [Networks -> Codes \cup Errors \cup {0}]
    /\ dismissed \in SUBSET (Networks \X Hubs) /\ unread \in SUBSET Hubs
    /\ astray \in SUBSET Networks /\ crossed \in SUBSET Networks
    /\ count \in [{"changes", "requests", "mishaps"} -> Nat]
TypeOK == RestOK /\ QueueOK
-----------------------------------------------------------------------------
(* A change of a network, wherever it is.                                  *)

\* The message is a change of network n, or its outcome.
Carries(m, n) ==
    OfNetwork(m, n) \/ (m.do \in {"Insert", "Update", "Delete"} /\ m.net = n)
Has(q, n)     == \E m \in Elements(q) : Carries(m, n)

\* The newest of them in a queue, if there is one.
Newest(q, n) ==
    {q[i] : i \in {j \in DOMAIN q :
                      Carries(q[j], n) /\ \A k \in DOMAIN q : k > j => ~Carries(q[k], n)}}

\* What a code says of the row.
Tells(c, s) ==
    /\ c = 100 => s # Absent
    /\ c = 200 => s = Absent
    /\ c = 300 => s = "active"
    /\ c = 400 => s = "inactive"

\* A change or its outcome agrees with the cache.
Fits(m, n) ==
    IF m.do = "say" THEN m.what.code \in Errors \/ networks[n] = table[n]
                    ELSE m.set = networks[n]

\* The rows that are read at the start, on their way to the cache.
SaysBatch(m, name) == m.do = "say" /\ m.what.do = name
BringsNetworks ==
    \/ \E m \in Elements(queue["get"]) :
         m.do \in {"GetTotalOfNetworks", "get_all_network"} \/ SaysBatch(m, "BatchNetwork")
    \/ \E m \in Elements(queue["batch"]) : m.do = "BatchNetwork"
RowIsCurrent(n) ==
    /\ \A m \in Elements(queue["get"]) :
         SaysBatch(m, "BatchNetwork") => m.what.rows[n] = table[n]
    /\ \A m \in Elements(queue["batch"]) :
         m.do = "BatchNetwork" => m.rows[n] = table[n]

Apart(n) == ~(Sets(n) /\ Deletes(n))
Told(n)  ==
    /\ \A m \in Elements(queue["insert"]) \cup Elements(queue["remove"]) :
         m.do = "say" /\ m.what.net = n => Tells(m.what.code, table[n])
    /\ ~Answering(n) => Tells(reply[n], table[n])
NewestFits(n) ==
    /\ \A m \in Newest(queue["network"], n) : Fits(m, n)
    /\ ~Has(queue["network"], n) =>
         \A m \in Newest(queue["insert"], n) \cup Newest(queue["remove"], n) : Fits(m, n)
    /\ ~Loading /\ ~Changing(n) => networks[n] = table[n] \/ reply[n] \in Errors
Awaits(n) == networks[n] = table[n] \/ (networks[n] = Absent /\ BringsNetworks)
Start(n)  == Loading => ~Changing(n) /\ Awaits(n) /\ RowIsCurrent(n)

OrderInv == \A n \in Networks \ crossed : Apart(n) /\ Told(n)
StartInv == \A n \in Networks \ astray : Start(n)
CacheInv == \A n \in Networks \ (crossed \cup astray) : NewestFits(n)
-----------------------------------------------------------------------------
(* The hubs.                                                               *)

Known(n, h) == h \in hubs[n] \/ <<n, h>> \in dismissed
Entered     ==
    /\ \A m \in Elements(queue["hubs"]) : m.do = "Insert" => Known(m.net, m.hub)
    /\ \A m \in Elements(queue["insert"]) :
         m.do \in {"InsertHub", "insert_hub"} => Known(m.net, m.hub)

BringsHub(n, h) ==
    \/ \E m \in Elements(queue["get"]) :
         \/ m.do \in {"GetTotalOfNetworks", "get_all_hubs"}
         \/ SaysBatch(m, "BatchHub") /\ m.what.rows[h] = n
    \/ \E m \in Elements(queue["batch"]) : m.do = "BatchHub" /\ m.rows[h] = n
HubInv ==
    /\ Entered
    /\ \A h \in Hubs \ unread, n \in Networks :
         hubTable[h] = n => Known(n, h) \/ BringsHub(n, h)
-----------------------------------------------------------------------------
(* Queues.                                                                 *)

\* The elements of a sequence, when it grows, loses its first or starts anew.
LEMMA ElementsAppend ==
  ASSUME NEW S, NEW q \in Seq(S), NEW m
  PROVE  Elements(Append(q, m)) = Elements(q) \cup {m}
<1>1. /\ DOMAIN Append(q, m) = 1..(Len(q) + 1) /\ DOMAIN q = 1..Len(q) /\ Len(q) \in Nat
      /\ Append(q, m)[Len(q) + 1] = m
      /\ \A i \in 1..Len(q) : Append(q, m)[i] = q[i]
  OBVIOUS
<1>2. ASSUME NEW x \in Elements(Append(q, m))
      PROVE  x \in Elements(q) \cup {m}
  <2>1. PICK i \in DOMAIN Append(q, m) : x = Append(q, m)[i]
    BY DEF Elements
  <2>2. i \in 1..Len(q) \/ i = Len(q) + 1
    BY <1>1, <2>1
  <2>3. QED
    BY <1>1, <2>1, <2>2 DEF Elements
<1>3. ASSUME NEW x \in Elements(q) \cup {m}
      PROVE  x \in Elements(Append(q, m))
  <2>1. CASE x = m
    <3>1. Len(q) + 1 \in DOMAIN Append(q, m)
      BY <1>1
    <3>2. QED
      BY <1>1, <2>1, <3>1 DEF Elements
  <2>2. CASE x \in Elements(q)
    <3>1. PICK i \in DOMAIN q : x = q[i]
      BY <2>2 DEF Elements
    <3>2. i \in 1..Len(q) /\ i \in DOMAIN Append(q, m)
      BY <1>1, <3>1
    <3>3. QED
      BY <1>1, <3>1, <3>2 DEF Elements
  <2>3. QED
    BY <1>3, <2>1, <2>2
<1>4. QED
  BY <1>2, <1>3

LEMMA ElementsHead ==
  ASSUME NEW S, NEW q \in Seq(S), q # <<>>
  PROVE  Elements(q) = {Head(q)} \cup Elements(Tail(q))
<1>1. /\ DOMAIN q = 1..Len(q) /\ Len(q) \in Nat /\ Len(q) > 0 /\ Head(q) = q[1]
      /\ DOMAIN Tail(q) = 1..(Len(q) - 1)
      /\ \A i \in 1..(Len(q) - 1) : Tail(q)[i] = q[i + 1]
  OBVIOUS
<1>2. ASSUME NEW x \in Elements(q)
      PROVE  x \in {Head(q)} \cup Elements(Tail(q))
  <2>1. PICK i \in 1..Len(q) : x = q[i]
    BY <1>1 DEF Elements
  <2>2. CASE i = 1
    BY <1>1, <2>1, <2>2
  <2>3. CASE i # 1
    <3>1. i - 1 \in 1..(Len(q) - 1) /\ (i - 1) + 1 = i
      BY <1>1, <2>3
    <3>2. Tail(q)[i - 1] = x /\ i - 1 \in DOMAIN Tail(q)
      BY <1>1, <2>1, <3>1
    <3>3. QED
      BY <3>2 DEF Elements
  <2>4. QED
    BY <2>2, <2>3
<1>3. ASSUME NEW x \in {Head(q)} \cup Elements(Tail(q))
      PROVE  x \in Elements(q)
  <2>1. CASE x = Head(q)
    <3>1. 1 \in DOMAIN q
      BY <1>1
    <3>2. QED
      BY <1>1, <2>1, <3>1 DEF Elements
  <2>2. CASE x \in Elements(Tail(q))
    <3>1. PICK i \in 1..(Len(q) - 1) : x = Tail(q)[i]
      BY <1>1, <2>2 DEF Elements
    <3>2. i + 1 \in DOMAIN q /\ q[i + 1] = x
      BY <1>1, <3>1
    <3>3. QED
      BY <3>2 DEF Elements
  <2>3. QED
    BY <1>3, <2>1, <2>2
<1>4. QED
  BY <1>2, <1>3

LEMMA Cons ==
  ASSUME NEW S, NEW q \in Seq(S), NEW m
  PROVE  /\ <<m>> \o q # <<>> /\ Head(<<m>> \o q) = m /\ Tail(<<m>> \o q) = q
         /\ Len(<<m>> \o q) = Len(q) + 1
         /\ <<>> \o q = q
         /\ m \in S => <<m>> \o q \in Seq(S)
<1>1. q \in Seq(S \cup {m}) /\ <<m>> \in Seq(S \cup {m})
  OBVIOUS
<1>2. <<m>> \o q \in Seq(S \cup {m}) /\ Len(<<m>> \o q) = 1 + Len(q)
  BY <1>1
<1>3. Head(<<m>> \o q) = m /\ <<m>> \o q # <<>>
  BY <1>1, <1>2
<1>4. Tail(<<m>> \o q) = q
  <2>1. Tail(<<m>> \o q) \in Seq(S \cup {m}) /\ Len(Tail(<<m>> \o q)) = Len(q)
    BY <1>2
  <2>2. \A i \in 1..Len(q) : Tail(<<m>> \o q)[i] = q[i]
    BY <1>1, <1>2
  <2>3. QED
    BY <1>1, <2>1, <2>2, SeqEqual
<1>5. <<>> \o q = q
  BY ConcatEmptySeq
<1>6. m \in S => <<m>> \o q \in Seq(S)
  OBVIOUS
<1>7. QED
  BY <1>2, <1>3, <1>4, <1>5, <1>6

LEMMA ElementsCons ==
  ASSUME NEW S, NEW q \in Seq(S), NEW m
  PROVE  Elements(<<m>> \o q) = {m} \cup Elements(q)
<1>1. q \in Seq(S \cup {m}) /\ m \in S \cup {m}
  OBVIOUS
<1>2. <<m>> \o q \in Seq(S \cup {m})
  BY <1>1, Cons
<1>3. <<m>> \o q # <<>> /\ Head(<<m>> \o q) = m /\ Tail(<<m>> \o q) = q
  BY <1>1, Cons
<1>4. QED
  BY <1>2, <1>3, ElementsHead

LEMMA ElementsIn ==
  ASSUME NEW S, NEW q \in Seq(S)
  PROVE  /\ Elements(q) \subseteq S
         /\ q # <<>> => /\ Head(q) \in S /\ Head(q) \in Elements(q)
                        /\ Tail(q) \in Seq(S) /\ Elements(Tail(q)) \subseteq Elements(q)
<1>1. Elements(q) \subseteq S
  BY DEF Elements
<1>2. q # <<>> => Head(q) \in S /\ Tail(q) \in Seq(S)
  OBVIOUS
<1>3. q # <<>> => Head(q) \in Elements(q) /\ Elements(Tail(q)) \subseteq Elements(q)
  BY ElementsHead
<1>4. QED
  BY <1>1, <1>2, <1>3

LEMMA ElementsNone == Elements(<<>>) = {}
BY DEF Elements

LEMMA ElementsEmpty ==
  ASSUME NEW S, NEW q \in Seq(S), Elements(q) = {}
  PROVE  q = <<>>
BY ElementsIn
-----------------------------------------------------------------------------
(* The newest of a network in a queue.                                     *)

LEMMA NewestIn ==
  ASSUME NEW q, NEW n
  PROVE  /\ Newest(q, n) \subseteq Elements(q)
         /\ \A m \in Newest(q, n) : Carries(m, n)
BY DEF Newest, Elements

LEMMA NewestAppend ==
  ASSUME NEW S, NEW q \in Seq(S), NEW m, NEW n
  PROVE  Newest(Append(q, m), n) = IF Carries(m, n) THEN {m} ELSE Newest(q, n)
<1> DEFINE a == Append(q, m)
<1>1. /\ DOMAIN a = 1..(Len(q) + 1) /\ DOMAIN q = 1..Len(q) /\ Len(q) \in Nat
      /\ a[Len(q) + 1] = m /\ \A i \in 1..Len(q) : a[i] = q[i]
  OBVIOUS
<1> DEFINE Last(s) == {j \in DOMAIN s :
                         Carries(s[j], n) /\ \A k \in DOMAIN s : k > j => ~Carries(s[k], n)}
<1>2. Newest(a, n) = {a[i] : i \in Last(a)} /\ Newest(q, n) = {q[i] : i \in Last(q)}
  BY DEF Newest
<1> HIDE DEF a
<1>3. CASE Carries(m, n)
  <2>1. Last(a) = {Len(q) + 1}
    <3>1. Len(q) + 1 \in Last(a)
      BY <1>1, <1>3
    <3>2. ASSUME NEW j \in Last(a)
          PROVE  j = Len(q) + 1
      <4>1. j \in 1..(Len(q) + 1) /\ ~(Len(q) + 1 > j)
        BY <1>1, <1>3
      <4>2. QED
        BY <1>1, <4>1
    <3>3. QED
      BY <3>1, <3>2
  <2>2. Newest(a, n) = {m}
    BY <1>1, <1>2, <2>1
  <2>3. QED
    BY <1>3, <2>2 DEF a
<1>4. CASE ~Carries(m, n)
  <2>1. Last(a) = Last(q)
    <3>1. ASSUME NEW j \in Last(a)
          PROVE  j \in Last(q)
      <4>1. j \in 1..(Len(q) + 1) /\ j # Len(q) + 1
        BY <1>1, <1>4
      <4>2. j \in 1..Len(q)
        BY <1>1, <4>1
      <4>3. QED
        BY <1>1, <4>2
    <3>2. ASSUME NEW j \in Last(q)
          PROVE  j \in Last(a)
      <4>1. j \in 1..Len(q) /\ Carries(a[j], n)
        BY <1>1
      <4>2. ASSUME NEW k \in DOMAIN a, k > j
            PROVE  ~Carries(a[k], n)
        <5>1. k = Len(q) + 1 \/ k \in 1..Len(q)
          BY <1>1
        <5>2. QED
          BY <1>1, <1>4, <4>2, <5>1
      <4>3. j \in DOMAIN a
        BY <1>1, <4>1
      <4>4. QED
        BY <4>1, <4>2, <4>3
    <3>3. QED
      BY <3>1, <3>2
  <2>2. \A i \in Last(q) : a[i] = q[i]
    BY <1>1
  <2>3. {a[i] : i \in Last(a)} = {q[i] : i \in Last(q)}
    BY <2>1, <2>2
  <2>4. QED
    BY <1>2, <1>4, <2>3 DEF a
<1>5. QED
  BY <1>3, <1>4

LEMMA NewestTail ==
  ASSUME NEW S, NEW q \in Seq(S), q # <<>>, NEW n
  PROVE  /\ Newest(Tail(q), n) \subseteq Newest(q, n)
         /\ Carries(Head(q), n) /\ ~Has(Tail(q), n) => Head(q) \in Newest(q, n)
         /\ Newest(q, n) \subseteq
              Newest(Tail(q), n) \cup
                (IF Carries(Head(q), n) /\ ~Has(Tail(q), n) THEN {Head(q)} ELSE {})
<1> DEFINE t == Tail(q)
<1>1. /\ DOMAIN q = 1..Len(q) /\ Len(q) \in Nat /\ Len(q) > 0 /\ Head(q) = q[1]
      /\ DOMAIN t = 1..(Len(q) - 1)
      /\ \A i \in 1..(Len(q) - 1) : t[i] = q[i + 1]
  OBVIOUS
<1> DEFINE Last(s) == {j \in DOMAIN s :
                         Carries(s[j], n) /\ \A k \in DOMAIN s : k > j => ~Carries(s[k], n)}
<1>2. Newest(t, n) = {t[i] : i \in Last(t)} /\ Newest(q, n) = {q[i] : i \in Last(q)}
  BY DEF Newest
<1> HIDE DEF t
<1>3. \A k \in DOMAIN q : k = 1 \/ (k - 1 \in DOMAIN t /\ t[k - 1] = q[k])
  <2>1. SUFFICES ASSUME NEW k \in DOMAIN q, k # 1
                 PROVE  k - 1 \in DOMAIN t /\ t[k - 1] = q[k]
    OBVIOUS
  <2>2. k - 1 \in 1..(Len(q) - 1) /\ (k - 1) + 1 = k
    BY <1>1, <2>1
  <2>3. QED
    BY <1>1, <2>2
<1>4. \A j \in DOMAIN t : j + 1 \in DOMAIN q /\ t[j] = q[j + 1]
  BY <1>1
<1>5. ASSUME NEW j \in Last(t)
      PROVE  j + 1 \in Last(q)
  <2>1. j \in DOMAIN t /\ j + 1 \in DOMAIN q /\ Carries(q[j + 1], n)
    BY <1>4
  <2>2. ASSUME NEW k \in DOMAIN q, k > j + 1
        PROVE  ~Carries(q[k], n)
    <3>1. k # 1 /\ k - 1 > j
      BY <1>1, <2>1, <2>2
    <3>2. k - 1 \in DOMAIN t /\ t[k - 1] = q[k]
      BY <1>3, <3>1
    <3>3. QED
      BY <3>1, <3>2
  <2>3. QED
    BY <2>1, <2>2
<1>6. Newest(t, n) \subseteq Newest(q, n)
  <2>1. ASSUME NEW j \in Last(t)
        PROVE  t[j] \in {q[i] : i \in Last(q)}
    <3>1. j + 1 \in Last(q) /\ t[j] = q[j + 1]
      BY <1>4, <1>5
    <3>2. QED
      BY <3>1
  <2>2. QED
    BY <1>2, <2>1
<1>7. ASSUME ~Has(t, n), NEW k \in DOMAIN q, k > 1
      PROVE  ~Carries(q[k], n)
  <2>1. k - 1 \in DOMAIN t /\ t[k - 1] = q[k]
    BY <1>1, <1>3, <1>7
  <2>2. q[k] \in Elements(t)
    BY <2>1 DEF Elements
  <2>3. QED
    BY <1>7, <2>2 DEF Has
<1>8. Carries(Head(q), n) /\ ~Has(t, n) => Head(q) \in Newest(q, n)
  <2>1. SUFFICES ASSUME Carries(Head(q), n), ~Has(t, n)
                 PROVE  Head(q) \in Newest(q, n)
    OBVIOUS
  <2>2. 1 \in DOMAIN q /\ Carries(q[1], n)
    BY <1>1, <2>1
  <2>3. 1 \in Last(q)
    BY <1>7, <2>1, <2>2
  <2>4. QED
    BY <1>1, <1>2, <2>3
<1>9. ASSUME NEW j \in Last(q)
      PROVE  q[j] \in Newest(t, n) \/ (q[j] = Head(q) /\ Carries(Head(q), n) /\ ~Has(t, n))
  <2>1. CASE j = 1
    <3>1. ASSUME NEW i \in DOMAIN t
          PROVE  ~Carries(t[i], n)
      <4>1. i + 1 \in DOMAIN q /\ t[i] = q[i + 1] /\ i + 1 > j
        BY <1>1, <1>4, <2>1
      <4>2. QED
        BY <4>1
    <3>2. ~Has(t, n)
      BY <3>1 DEF Has, Elements
    <3>3. QED
      BY <1>1, <2>1, <3>2
  <2>2. CASE j # 1
    <3>1. j - 1 \in DOMAIN t /\ t[j - 1] = q[j] /\ Carries(q[j], n)
      BY <1>3, <2>2
    <3>2. ASSUME NEW k \in DOMAIN t, k > j - 1
          PROVE  ~Carries(t[k], n)
      <4>1. k + 1 \in DOMAIN q /\ t[k] = q[k + 1] /\ k + 1 > j
        BY <1>1, <1>4, <3>2
      <4>2. QED
        BY <4>1
    <3>3. j - 1 \in Last(t)
      BY <3>1, <3>2
    <3>4. QED
      BY <1>2, <3>1, <3>3
  <2>3. QED
    BY <2>1, <2>2
<1>10. Newest(q, n) \subseteq
         Newest(t, n) \cup (IF Carries(Head(q), n) /\ ~Has(t, n) THEN {Head(q)} ELSE {})
  BY <1>2, <1>9
<1>11. QED
  BY <1>6, <1>8, <1>10 DEF t

\* A queue with another first.
LEMMA NewestCons ==
  ASSUME NEW S, NEW q \in Seq(S), NEW m, NEW n
  PROVE  Newest(<<m>> \o q, n) \subseteq
           Newest(q, n) \cup (IF Carries(m, n) /\ ~Has(q, n) THEN {m} ELSE {})
<1> DEFINE p == <<m>> \o q
<1>1. q \in Seq(S \cup {m}) /\ m \in S \cup {m}
  OBVIOUS
<1>2. p \in Seq(S \cup {m})
  BY <1>1, Cons
<1>3. p # <<>> /\ Head(p) = m /\ Tail(p) = q
  BY <1>1, Cons
<1> HIDE DEF p
<1>4. Newest(p, n) \subseteq
        Newest(Tail(p), n) \cup
          (IF Carries(Head(p), n) /\ ~Has(Tail(p), n) THEN {Head(p)} ELSE {})
  BY <1>2, <1>3, NewestTail
<1>5. QED
  BY <1>3, <1>4 DEF p
-----------------------------------------------------------------------------
(* The queues, as a step leaves them.                                      *)

LEMMA Names ==
  /\ Readers = {"insert", "remove", "get", "batch", "network", "hubs"}
  /\ Tasks = {"insert", "remove", "get"}
BY DEF Readers, Tasks

LEMMA Queues ==
  /\ Waits("batch") = Batches /\ Waits("network") = NetworkMsgs
  /\ Waits("hubs") = HubChanges /\ Waits("get") = GetJobs
  /\ Waits("insert") = Inserts /\ Waits("remove") = Removes
  /\ Firsts("insert") = Inserts \cup HubMsgs({"insert_hub"}) \cup Sayings(Updates)
  /\ Firsts("remove") = Removes \cup Sayings(Updates)
  /\ \A r \in Readers \ {"insert", "remove"} : Firsts(r) = Waits(r)
  /\ \A r \in Readers : Waits(r) \subseteq Firsts(r)
<1>1. /\ Waits("batch") = Batches /\ Waits("network") = NetworkMsgs
      /\ Waits("hubs") = HubChanges /\ Waits("get") = GetJobs
      /\ Waits("insert") = Inserts /\ Waits("remove") = Removes
  BY DEF Waits
<1>2. /\ Firsts("insert") = Inserts \cup HubMsgs({"insert_hub"}) \cup Sayings(Updates)
      /\ Firsts("remove") = Removes \cup Sayings(Updates)
      /\ \A r \in Readers \ {"insert", "remove"} : Firsts(r) = Waits(r)
  BY DEF Firsts
<1>3. ASSUME NEW r \in Readers
      PROVE  Waits(r) \subseteq Firsts(r)
  <2>1. CASE r \in {"insert", "remove"}
    BY <1>1, <1>2, <2>1
  <2>2. CASE r \notin {"insert", "remove"}
    BY <1>2, <2>2
  <2>3. QED
    BY <2>1, <2>2
<1>4. QED
  BY <1>1, <1>2, <1>3

\* What a queue gives, when the types are right.
LEMMA QueueIs ==
  ASSUME QueueOK, NEW r \in Readers
  PROVE  /\ queue[r] \in Seq(Firsts(r)) /\ Elements(queue[r]) \subseteq Firsts(r)
         /\ queue[r] # <<>> =>
              /\ Head(queue[r]) \in Firsts(r)
              /\ Tail(queue[r]) \in Seq(Waits(r))
              /\ Elements(Tail(queue[r])) \subseteq Waits(r)
              /\ Elements(queue[r]) = {Head(queue[r])} \cup Elements(Tail(queue[r]))
<1>1. /\ queue[r] \in Seq(Firsts(r))
      /\ queue[r] # <<>> => Tail(queue[r]) \in Seq(Waits(r))
  BY DEF QueueOK
<1> DEFINE q == queue[r]  t == Tail(queue[r])
<1>2. Elements(q) \subseteq Firsts(r) /\ (q # <<>> => Head(q) \in Firsts(r))
  BY <1>1, ElementsIn
<1>3. q # <<>> => Elements(t) \subseteq Waits(r)
  <2>1. q # <<>> => t \in Seq(Waits(r))
    BY <1>1
  <2> HIDE DEF t
  <2>2. QED
    BY <2>1, ElementsIn
<1>4. q # <<>> => Elements(q) = {Head(q)} \cup Elements(t)
  BY <1>1, ElementsHead
<1>5. QED
  BY <1>1, <1>2, <1>3, <1>4

\* A queue with one more, without its first, or with another first.
Appended(r, m) ==
    /\ queue'[r] = Append(queue[r], m)
    /\ Elements(queue'[r]) = Elements(queue[r]) \cup {m}
    /\ \A n : Newest(queue'[r], n) = IF Carries(m, n) THEN {m} ELSE Newest(queue[r], n)
Dropped(r) ==
    /\ queue[r] # <<>> /\ queue'[r] = Tail(queue[r])
    /\ Elements(queue[r]) = {Head(queue[r])} \cup Elements(queue'[r])
    /\ \A n : /\ Newest(queue'[r], n) \subseteq Newest(queue[r], n)
              /\ Carries(Head(queue[r]), n) /\ ~Has(queue'[r], n)
                   => Head(queue[r]) \in Newest(queue[r], n)
Swapped(r, m) ==
    /\ queue[r] # <<>> /\ queue'[r] = <<m>> \o Tail(queue[r])
    /\ Elements(queue'[r]) = {m} \cup Elements(Tail(queue[r]))
    /\ Elements(queue[r]) = {Head(queue[r])} \cup Elements(Tail(queue[r]))
    /\ \A n :
         /\ Newest(queue'[r], n) \subseteq
              Newest(queue[r], n) \cup
                (IF Carries(m, n) /\ ~Has(Tail(queue[r]), n) THEN {m} ELSE {})
         /\ Carries(Head(queue[r]), n) /\ ~Has(Tail(queue[r]), n)
              => Head(queue[r]) \in Newest(queue[r], n)
Others(rs) == \A x \in Readers \ rs : queue'[x] = queue[x]

LEMMA AppendedIs ==
  ASSUME NEW r, NEW S, queue[r] \in Seq(S), NEW m, queue'[r] = Append(queue[r], m)
  PROVE  Appended(r, m)
<1> DEFINE q == queue[r]  a == Append(queue[r], m)
<1>1. Elements(a) = Elements(q) \cup {m}
  BY ElementsAppend
<1>2. \A n : Newest(a, n) = IF Carries(m, n) THEN {m} ELSE Newest(q, n)
  BY NewestAppend
<1>3. QED
  BY <1>1, <1>2 DEF Appended

LEMMA DroppedIs ==
  ASSUME NEW r, NEW S, queue[r] \in Seq(S), queue[r] # <<>>, queue'[r] = Tail(queue[r])
  PROVE  Dropped(r)
<1> DEFINE q == queue[r]  t == Tail(queue[r])
<1>1. Elements(q) = {Head(q)} \cup Elements(t)
  BY ElementsHead
<1>2. \A n : /\ Newest(t, n) \subseteq Newest(q, n)
             /\ Carries(Head(q), n) /\ ~Has(t, n) => Head(q) \in Newest(q, n)
  BY NewestTail
<1>3. QED
  BY <1>1, <1>2 DEF Dropped

LEMMA SwappedIs ==
  ASSUME NEW r, NEW S, queue[r] \in Seq(S), queue[r] # <<>>, NEW m,
         queue'[r] = <<m>> \o Tail(queue[r])
  PROVE  Swapped(r, m)
<1> DEFINE q == queue[r]  t == Tail(queue[r])
<1>1. Elements(q) = {Head(q)} \cup Elements(t) /\ t \in Seq(S)
  BY ElementsHead
<1>2. \A n : /\ Newest(t, n) \subseteq Newest(q, n)
             /\ Carries(Head(q), n) /\ ~Has(t, n) => Head(q) \in Newest(q, n)
  BY NewestTail
<1> HIDE DEF t
<1>3. Elements(<<m>> \o t) = {m} \cup Elements(t)
  BY <1>1, ElementsCons
<1>4. \A n : Newest(<<m>> \o t, n) \subseteq
               Newest(t, n) \cup (IF Carries(m, n) /\ ~Has(t, n) THEN {m} ELSE {})
  BY <1>1, NewestCons
<1>5. \A n : Newest(<<m>> \o t, n) \subseteq
               Newest(q, n) \cup (IF Carries(m, n) /\ ~Has(t, n) THEN {m} ELSE {})
  BY <1>2, <1>4
<1>6. QED
  BY <1>1, <1>2, <1>3, <1>5 DEF Swapped, t

\* What waits behind the first, when one more comes.
LEMMA TailAppend ==
  ASSUME NEW S, NEW W, NEW q \in Seq(S), q # <<>> => Tail(q) \in Seq(W), NEW m \in W, m \in S
  PROVE  Tail(Append(q, m)) \in Seq(W)
<1>1. CASE q = <<>>
  <2>1. Tail(Append(q, m)) = <<>>
    BY <1>1
  <2>2. <<>> \in Seq(W)
    OBVIOUS
  <2>3. QED
    BY <2>1, <2>2
<1>2. CASE q # <<>>
  <2>1. Tail(Append(q, m)) = Append(Tail(q), m)
    BY <1>2
  <2>2. QED
    BY <1>2, <2>1
<1>3. QED
  BY <1>1, <1>2

\* A message is sent.
LEMMA PushTyped ==
  ASSUME QueueOK, NEW r \in Readers, NEW m \in Waits(r), queue' = Push(queue, r, m)
  PROVE  QueueOK' /\ Appended(r, m) /\ Others({r})
<1>1. /\ queue' = [x \in Readers |-> queue'[x]]
      /\ queue'[r] = Append(queue[r], m) /\ Others({r})
  BY DEF QueueOK, Push, Others
<1>2. queue[r] \in Seq(Firsts(r)) /\ (queue[r] # <<>> => Tail(queue[r]) \in Seq(Waits(r)))
  BY DEF QueueOK
<1>3. m \in Firsts(r)
  BY Queues
<1>4. queue'[r] \in Seq(Firsts(r))
  BY <1>1, <1>2, <1>3
<1>5. Tail(queue'[r]) \in Seq(Waits(r))
  BY <1>1, <1>2, <1>3, TailAppend
<1>6. Appended(r, m)
  BY <1>1, <1>2, AppendedIs
<1>7. QED
  BY <1>1, <1>4, <1>5, <1>6 DEF QueueOK, Others

\* The first of a queue is taken.
LEMMA PopTyped ==
  ASSUME QueueOK, NEW r \in Readers, queue[r] # <<>>, queue' = Pop(queue, r)
  PROVE  QueueOK' /\ Dropped(r) /\ Others({r})
<1>1. /\ queue' = [x \in Readers |-> queue'[x]]
      /\ queue'[r] = Tail(queue[r]) /\ Others({r})
  BY DEF QueueOK, Pop, Others
<1>2. queue[r] \in Seq(Firsts(r)) /\ Tail(queue[r]) \in Seq(Waits(r))
  BY DEF QueueOK
<1>3. queue'[r] \in Seq(Waits(r)) /\ (queue'[r] # <<>> => Tail(queue'[r]) \in Seq(Waits(r)))
  BY <1>1, <1>2
<1>4. queue'[r] \in Seq(Firsts(r))
  BY <1>3, Queues
<1>5. Dropped(r)
  BY <1>1, <1>2, DroppedIs
<1>6. QED
  BY <1>1, <1>3, <1>4, <1>5 DEF QueueOK, Others

\* The first of a queue is taken and another message is sent.
LEMMA MoveTyped ==
  ASSUME QueueOK, NEW r \in Readers, NEW r2 \in Readers, r # r2, queue[r] # <<>>,
         NEW m \in Waits(r2), queue' = Push(Pop(queue, r), r2, m)
  PROVE  QueueOK' /\ Dropped(r) /\ Appended(r2, m) /\ Others({r, r2})
<1>1. /\ queue' = [x \in Readers |-> queue'[x]]
      /\ queue'[r] = Tail(queue[r]) /\ queue'[r2] = Append(queue[r2], m) /\ Others({r, r2})
  BY DEF QueueOK, Pop, Push, Others
<1>2. /\ queue[r] \in Seq(Firsts(r)) /\ Tail(queue[r]) \in Seq(Waits(r))
      /\ queue[r2] \in Seq(Firsts(r2))
      /\ queue[r2] # <<>> => Tail(queue[r2]) \in Seq(Waits(r2))
  BY DEF QueueOK
<1>3. /\ queue'[r] \in Seq(Firsts(r)) /\ queue'[r2] \in Seq(Firsts(r2))
      /\ queue'[r] # <<>> => Tail(queue'[r]) \in Seq(Waits(r))
  <2>1. queue'[r] \in Seq(Waits(r)) /\ (queue'[r] # <<>> => Tail(queue'[r]) \in Seq(Waits(r)))
    BY <1>1, <1>2
  <2>2. m \in Firsts(r2)
    BY Queues
  <2>3. queue'[r2] \in Seq(Firsts(r2))
    BY <1>1, <1>2, <2>2
  <2>4. QED
    BY <2>1, <2>3, Queues
<1>4. Tail(queue'[r2]) \in Seq(Waits(r2))
  <2>1. m \in Firsts(r2)
    BY Queues
  <2>2. QED
    BY <1>1, <1>2, <2>1, TailAppend
<1>5. Dropped(r) /\ Appended(r2, m)
  BY <1>1, <1>2, DroppedIs, AppendedIs
<1>6. QED
  BY <1>1, <1>3, <1>4, <1>5 DEF QueueOK, Others

\* A task has done its step and goes on to what comes of it.
LEMMA SwapTyped ==
  ASSUME QueueOK, NEW r \in Readers, queue[r] # <<>>, NEW m \in Firsts(r),
         queue' = Later(r, <<m>>)
  PROVE  QueueOK' /\ Swapped(r, m) /\ Others({r})
<1>1. /\ queue' = [x \in Readers |-> queue'[x]]
      /\ queue'[r] = <<m>> \o Tail(queue[r]) /\ Others({r})
  BY DEF QueueOK, Later, Others
<1>2. queue[r] \in Seq(Firsts(r)) /\ Tail(queue[r]) \in Seq(Waits(r))
  BY DEF QueueOK
<1> DEFINE t == Tail(queue[r])
<1>3. t \in Seq(Waits(r)) /\ t \in Seq(Firsts(r))
  BY <1>2
<1> HIDE DEF t
<1>4. <<m>> \o t \in Seq(Firsts(r)) /\ Tail(<<m>> \o t) = t
  BY <1>3, Cons
<1>5. queue'[r] \in Seq(Firsts(r)) /\ Tail(queue'[r]) \in Seq(Waits(r))
  BY <1>1, <1>3, <1>4 DEF t
<1>6. Swapped(r, m)
  BY <1>1, <1>2, SwappedIs
<1>7. QED
  BY <1>1, <1>5, <1>6 DEF QueueOK, Others

\* A task has done with a command.
LEMMA LaterNone ==
  ASSUME QueueOK, NEW r \in Readers, queue[r] # <<>>
  PROVE  Later(r, <<>>) = Pop(queue, r)
<1>1. Tail(queue[r]) \in Seq(Waits(r))
  BY DEF QueueOK
<1>2. <<>> \o Tail(queue[r]) = Tail(queue[r])
  BY <1>1, ConcatEmptySeq
<1>3. QED
  BY <1>2 DEF Later, Pop

LEMMA DropTyped ==
  ASSUME QueueOK, NEW r \in Readers, queue[r] # <<>>, queue' = Later(r, <<>>)
  PROVE  QueueOK' /\ Dropped(r) /\ Others({r})
BY LaterNone, PopTyped
-----------------------------------------------------------------------------
(* Messages.                                                               *)

\* A message is told by its name.
LEMMA Kinds ==
  ASSUME NEW m
  PROVE  /\ m \in NetworkMsgs =>
              \/ m.do \in {"Insert", "Update"} /\ m \in Changes({"Insert", "Update"})
              \/ m.do = "Delete" /\ m \in Deletions({"Delete"})
         /\ m \in HubChanges =>
              \/ m.do = "Insert" /\ m \in HubMsgs({"Insert"})
              \/ m.do = "Delete" /\ m \in Removals({"Delete"})
         /\ m \in Inserts =>
              \/ m.do \in {"InsertNetwork", "UpdateNetwork"}
                   /\ m \in Changes({"InsertNetwork", "UpdateNetwork"})
              \/ m.do = "InsertHub" /\ m \in HubMsgs({"InsertHub"})
         /\ m \in Removes =>
              \/ m.do \in {"DeleteNetwork", "DeleteAllHubByNetwork"}
                   /\ m \in Deletions({"DeleteNetwork", "DeleteAllHubByNetwork"})
              \/ m.do = "DeleteHub" /\ m \in Removals({"DeleteHub"})
         /\ m \in GetJobs =>
              \/ m.do \in {"GetTotalOfNetworks", "get_all_network", "get_all_hubs"}
              \/ m.do = "say" /\ m \in Sayings(Batches)
         /\ m \in HubMsgs({"insert_hub"}) => m.do = "insert_hub"
         /\ m \in Sayings(Updates) => m.do = "say" /\ m.what \in Updates
         /\ m \in Sayings(Batches) => m.do = "say" /\ m.what \in Batches
         /\ m \in Batches =>
              \/ m.do = "BatchNetwork" /\ m \in NetworkBatches
              \/ m.do = "BatchHub" /\ m \in HubBatches
         /\ m \in Updates => m.do = "NetworksUpdated"
<1>1. m \in NetworkMsgs =>
        \/ m.do \in {"Insert", "Update"} /\ m \in Changes({"Insert", "Update"})
        \/ m.do = "Delete" /\ m \in Deletions({"Delete"})
  BY DEF NetworkMsgs, Changes, Deletions
<1>2. m \in HubChanges =>
        \/ m.do = "Insert" /\ m \in HubMsgs({"Insert"})
        \/ m.do = "Delete" /\ m \in Removals({"Delete"})
  BY DEF HubChanges, Removals, HubMsgs
<1>3. m \in Inserts =>
        \/ m.do \in {"InsertNetwork", "UpdateNetwork"}
             /\ m \in Changes({"InsertNetwork", "UpdateNetwork"})
        \/ m.do = "InsertHub" /\ m \in HubMsgs({"InsertHub"})
  BY DEF Inserts, Changes, HubMsgs
<1>4. m \in Removes =>
        \/ m.do \in {"DeleteNetwork", "DeleteAllHubByNetwork"}
             /\ m \in Deletions({"DeleteNetwork", "DeleteAllHubByNetwork"})
        \/ m.do = "DeleteHub" /\ m \in Removals({"DeleteHub"})
  BY DEF Removes, Deletions, Removals
<1>5. m \in GetJobs =>
        \/ m.do \in {"GetTotalOfNetworks", "get_all_network", "get_all_hubs"}
        \/ m.do = "say" /\ m \in Sayings(Batches)
  BY DEF GetJobs, Plain, Sayings
<1>6. /\ m \in HubMsgs({"insert_hub"}) => m.do = "insert_hub"
      /\ m \in Sayings(Updates) => m.do = "say" /\ m.what \in Updates
      /\ m \in Sayings(Batches) => m.do = "say" /\ m.what \in Batches
  BY DEF HubMsgs, Sayings
<1>7. m \in Batches =>
        \/ m.do = "BatchNetwork" /\ m \in NetworkBatches
        \/ m.do = "BatchHub" /\ m \in HubBatches
  BY DEF Batches, NetworkBatches, HubBatches
<1>8. m \in Updates => m.do = "NetworksUpdated"
  BY DEF Updates
<1>9. QED
  BY <1>1, <1>2, <1>3, <1>4, <1>5, <1>6, <1>7, <1>8

\* A message under another name.
LEMMA Renamed ==
  ASSUME NEW names, NEW m, NEW d
  PROVE  /\ m \in Changes(names) =>
              As(m, d) \in Changes({d}) /\ As(m, d).do = d
                /\ As(m, d).net = m.net /\ As(m, d).set = m.set
         /\ m \in Deletions(names) =>
              As(m, d) \in Deletions({d}) /\ As(m, d).do = d
                /\ As(m, d).net = m.net /\ As(m, d).set = m.set
         /\ m \in HubMsgs(names) =>
              As(m, d) \in HubMsgs({d}) /\ As(m, d).do = d
                /\ As(m, d).net = m.net /\ As(m, d).hub = m.hub
         /\ m \in Removals(names) =>
              As(m, d) \in Removals({d}) /\ As(m, d).do = d /\ As(m, d).net = m.net
BY DEF As, Changes, Deletions, HubMsgs, Removals

\* The same for a deletion, in the form the proofs cite it.
LEMMA DeletionRenamed ==
  ASSUME NEW names, NEW m \in Deletions(names), NEW d
  PROVE  /\ As(m, d) \in Deletions({d}) /\ As(m, d).do = d
         /\ As(m, d).net = m.net /\ As(m, d).set = m.set
BY Renamed

\* The same for a message about a hub.
LEMMA HubRenamed ==
  ASSUME NEW names, NEW m \in HubMsgs(names), NEW d
  PROVE  /\ As(m, d) \in HubMsgs({d}) /\ As(m, d).do = d
         /\ As(m, d).net = m.net /\ As(m, d).hub = m.hub
BY Renamed

\* The outcome of a statement, which a task says.
LEMMA UpdatedIs ==
  ASSUME NEW n \in Networks, NEW c \in Codes \cup Errors
  PROVE  /\ Updated(n, c) \in Sayings(Updates)
         /\ Updated(n, c).do = "say" /\ Updated(n, c).what.net = n
         /\ Updated(n, c).what.code = c
BY DEF Updated, Say, Sayings, Updates

\* The codes that tell of a success, and those that tell of an error.
LEMMA CodesAre ==
  /\ Codes = {100, 200, 300, 400} /\ Errors = {101, 201, 301, 401}
BY DEF Codes, Errors

\* Which messages are about a network.
LEMMA CarriesIs ==
  ASSUME NEW m, NEW n
  PROVE  /\ m \in NetworkMsgs => (Carries(m, n) <=> m.net = n)
         /\ m.do \in {"InsertNetwork", "UpdateNetwork", "DeleteNetwork"} =>
              (Carries(m, n) <=> m.net = n)
         /\ m.do = "say" => (Carries(m, n) <=> m.what.net = n)
         /\ m.do \in {"InsertHub", "insert_hub", "DeleteHub", "DeleteAllHubByNetwork"} =>
              ~Carries(m, n)
         /\ m.do \notin {"Insert", "Update", "Delete"} => (Carries(m, n) <=> OfNetwork(m, n))
BY Kinds DEF Carries, OfNetwork
-----------------------------------------------------------------------------
(* What each step does.                                                    *)

\* The names of the steps of a task that belong to a change of a network.
Statements == {"InsertNetwork", "UpdateNetwork", "DeleteNetwork"}

LEMMA ChangeIs ==
  ASSUME TypeOK, NEW n \in Networks, NEW s \in Values, AdminTakesNetwork(n, s)
  PROVE  /\ TypeOK'
         /\ \E m \in NetworkMsgs :
              /\ Appended("network", m) /\ Others({"network"})
              /\ m.net = n /\ m.set = s
              /\ m.do = NetworkAction(n, s)
         /\ networks' = [networks EXCEPT ![n] = s]
         /\ Notes(n, NetworkAction(n, s))
         /\ UNCHANGED <<hubs, tableVars, reply, dismissed, unread>>
<1> DEFINE action == NetworkAction(n, s)
           m == [do |-> action, net |-> n, set |-> s]
<1>1. /\ action # "Ignore" /\ Counts("changes")
      /\ networks' = [networks EXCEPT ![n] = s]
      /\ queue' = Push(queue, "network", m)
      /\ awaited' = [awaited EXCEPT ![n] = @ + 1] /\ Notes(n, action)
      /\ UNCHANGED <<hubs, tableVars, reply, dismissed, unread>>
  BY DEF AdminTakesNetwork
<1>2. \/ action \in {"Insert", "Update"} /\ s \in Statuses
      \/ action = "Delete" /\ s = Absent
  <2>1. \/ action = "Delete" /\ networks[n] # Absent /\ s = Absent
        \/ action = "Update" /\ s \notin {Absent, networks[n]}
        \/ action = "Insert" /\ s # Absent
    BY <1>1 DEF NetworkAction
  <2>2. QED
    BY <2>1 DEF Values
<1>3. m \in NetworkMsgs /\ m.net = n /\ m.set = s /\ m.do = action
  BY <1>2 DEF NetworkMsgs, Changes, Deletions
<1> HIDE DEF m, action
<1>4. m \in Waits("network") /\ "network" \in Readers
  BY <1>3, Queues, Names
<1>5. QueueOK' /\ Appended("network", m) /\ Others({"network"})
  BY <1>1, <1>4, PushTyped DEF TypeOK
<1>6. RestOK'
  <2>1. RestOK
    BY DEF TypeOK
  <2>2. networks' \in [Networks -> Values]
    BY <1>1, <2>1 DEF RestOK
  <2>3. awaited' \in [Networks -> Int]
    BY <1>1, <2>1 DEF RestOK
  <2>4. count' \in [{"changes", "requests", "mishaps"} -> Nat]
    BY <1>1, <2>1 DEF RestOK, Counts
  <2>5. astray' \in SUBSET Networks /\ crossed' \in SUBSET Networks
    BY <1>1, <2>1 DEF RestOK, Notes
  <2>6. QED
    BY <1>1, <2>1, <2>2, <2>3, <2>4, <2>5 DEF RestOK, tableVars
<1>7. QED
  BY <1>1, <1>3, <1>5, <1>6 DEF TypeOK, action

LEMMA DeleteHubIs ==
  ASSUME TypeOK, NEW n \in Networks, NEW h \in Hubs, AdminTakesDeleteHub(n, h)
  PROVE  /\ TypeOK'
         /\ \E m \in HubChanges :
              Appended("hubs", m) /\ Others({"hubs"}) /\ m.do = "Delete"
         /\ hubs' = [hubs EXCEPT ![n] = @ \ {h}]
         /\ dismissed' = dismissed \cup {<<n, h>>}
         /\ UNCHANGED <<networks, tableVars, awaited, reply, unread, astray, crossed>>
<1> DEFINE m == [do |-> "Delete", net |-> n]
<1>1. /\ Counts("requests") /\ hubs' = [hubs EXCEPT ![n] = @ \ {h}]
      /\ queue' = Push(queue, "hubs", m) /\ dismissed' = dismissed \cup {<<n, h>>}
      /\ UNCHANGED <<networks, tableVars, awaited, reply, unread, astray, crossed>>
  BY DEF AdminTakesDeleteHub
<1>2. m \in HubChanges /\ m.do = "Delete"
  BY DEF HubChanges, Removals
<1> HIDE DEF m
<1>3. m \in Waits("hubs") /\ "hubs" \in Readers
  BY <1>2, Queues, Names
<1>4. QueueOK' /\ Appended("hubs", m) /\ Others({"hubs"})
  BY <1>1, <1>3, PushTyped DEF TypeOK
<1>5. RestOK'
  <2>1. RestOK
    BY DEF TypeOK
  <2>2. hubs' \in [Networks -> SUBSET Hubs] /\ dismissed' \in SUBSET (Networks \X Hubs)
    BY <1>1, <2>1 DEF RestOK
  <2>3. count' \in [{"changes", "requests", "mishaps"} -> Nat]
    BY <1>1, <2>1 DEF RestOK, Counts
  <2>4. QED
    BY <1>1, <2>1, <2>2, <2>3 DEF RestOK, tableVars
<1>6. QED
  BY <1>1, <1>2, <1>4, <1>5 DEF TypeOK

LEMMA RequestIs ==
  ASSUME TypeOK, NEW n \in Networks, NEW h \in Hubs, AdminTakesRequest(n, h)
  PROVE  /\ TypeOK'
         /\ \E m \in HubChanges :
              /\ Appended("hubs", m) /\ Others({"hubs"})
              /\ m.do = "Insert" /\ m.net = n /\ m.hub = h
         /\ hubs' = [hubs EXCEPT ![n] = @ \cup {h}]
         /\ dismissed' = dismissed \ {<<n, h>>}
         /\ UNCHANGED <<networks, tableVars, awaited, reply, unread, astray, crossed>>
<1> DEFINE m == [do |-> "Insert", net |-> n, hub |-> h]
<1>1. /\ Counts("requests") /\ hubs' = [hubs EXCEPT ![n] = @ \cup {h}]
      /\ queue' = Push(queue, "hubs", m) /\ dismissed' = dismissed \ {<<n, h>>}
      /\ UNCHANGED <<networks, tableVars, awaited, reply, unread, astray, crossed>>
  BY DEF AdminTakesRequest
<1>2. m \in HubChanges /\ m.do = "Insert" /\ m.net = n /\ m.hub = h
  BY DEF HubChanges, HubMsgs
<1> HIDE DEF m
<1>3. m \in Waits("hubs") /\ "hubs" \in Readers
  BY <1>2, Queues, Names
<1>4. QueueOK' /\ Appended("hubs", m) /\ Others({"hubs"})
  BY <1>1, <1>3, PushTyped DEF TypeOK
<1>5. RestOK'
  <2>1. RestOK
    BY DEF TypeOK
  <2>2. hubs' \in [Networks -> SUBSET Hubs] /\ dismissed' \in SUBSET (Networks \X Hubs)
    BY <1>1, <2>1 DEF RestOK
  <2>3. count' \in [{"changes", "requests", "mishaps"} -> Nat]
    BY <1>1, <2>1 DEF RestOK, Counts
  <2>4. QED
    BY <1>1, <2>1, <2>2, <2>3 DEF RestOK, tableVars
<1>6. QED
  BY <1>1, <1>2, <1>4, <1>5 DEF TypeOK

LEMMA BatchIs ==
  ASSUME TypeOK, AdminTakesBatch
  PROVE  /\ TypeOK'
         /\ Dropped("batch") /\ Others({"batch"}) /\ Head(queue["batch"]) \in Batches
         /\ LET b == Head(queue["batch"]) IN
            \/ /\ b.do = "BatchNetwork" /\ b \in NetworkBatches /\ UNCHANGED hubs
               /\ networks' = [n \in Networks |->
                     IF b.rows[n] # Absent THEN b.rows[n] ELSE networks[n]]
            \/ /\ b.do = "BatchHub" /\ b \in HubBatches /\ UNCHANGED networks
               /\ hubs' = [n \in Networks |-> hubs[n] \cup {h \in Hubs : b.rows[h] = n}]
         /\ UNCHANGED <<tableVars, awaited, reply, historyVars>>
<1> DEFINE b == Head(queue["batch"])
<1>1. /\ queue["batch"] # <<>> /\ queue' = Pop(queue, "batch")
      /\ \/ /\ b.do = "BatchNetwork" /\ UNCHANGED hubs
            /\ networks' = [n \in Networks |->
                  IF b.rows[n] # Absent THEN b.rows[n] ELSE networks[n]]
         \/ /\ b.do = "BatchHub" /\ UNCHANGED networks
            /\ hubs' = [n \in Networks |-> hubs[n] \cup {h \in Hubs : b.rows[h] = n}]
      /\ UNCHANGED <<tableVars, awaited, reply, historyVars, count>>
  BY DEF AdminTakesBatch
<1>2. "batch" \in Readers /\ Firsts("batch") = Batches
  BY Queues, Names
<1>3. QueueOK' /\ Dropped("batch") /\ Others({"batch"})
  BY <1>1, <1>2, PopTyped DEF TypeOK
<1>4. b \in Batches
  BY <1>1, <1>2, QueueIs DEF TypeOK
<1> HIDE DEF b
<1>5. RestOK'
  <2>1. RestOK
    BY DEF TypeOK
  <2>2. CASE b.do = "BatchNetwork"
    <3>1. b.rows \in [Networks -> Values]
      BY <1>4, <2>2 DEF Batches, NetworkBatches, HubBatches
    <3>2. networks' \in [Networks -> Values] /\ UNCHANGED hubs
      BY <1>1, <2>1, <2>2, <3>1 DEF RestOK
    <3>3. QED
      BY <1>1, <2>1, <3>2 DEF RestOK, tableVars, historyVars
  <2>3. CASE b.do = "BatchHub"
    <3>1. hubs' \in [Networks -> SUBSET Hubs] /\ UNCHANGED networks
      BY <1>1, <2>1, <2>3 DEF RestOK
    <3>2. QED
      BY <1>1, <2>1, <3>1 DEF RestOK, tableVars, historyVars
  <2>4. QED
    BY <1>1, <2>2, <2>3
<1>6. QED
  BY <1>1, <1>3, <1>4, <1>5, Kinds DEF TypeOK, b

\* A change is passed on to the task that carries it out; behind a deletion goes
\* the one of its hubs, which is about no network.
NetworkPassed(to, m) ==
    /\ m.do \in Statements /\ m.net = Head(queue["network"]).net
    /\ m.set = Head(queue["network"]).set
    /\ \E x : /\ x.do = "DeleteAllHubByNetwork"
              /\ Elements(queue'[to]) \in {Elements(queue[to]) \cup {m},
                                           Elements(queue[to]) \cup {m, x}}
    /\ \A n : Newest(queue'[to], n) = IF Carries(m, n) THEN {m} ELSE Newest(queue[to], n)

LEMMA DbaNetworkIs ==
  ASSUME TypeOK, DbaTakesNetwork
  PROVE  /\ TypeOK'
         /\ Dropped("network") /\ Head(queue["network"]) \in NetworkMsgs
         /\ LET to == IF Head(queue["network"]).do = "Delete" THEN "remove" ELSE "insert" IN
            Others({"network", to}) /\ \E m : NetworkPassed(to, m)
         /\ UNCHANGED <<networks, hubs, tableVars, awaited, reply, historyVars>>
<1> DEFINE h == Head(queue["network"])
           q == Pop(queue, "network")
<1>1. /\ queue["network"] # <<>>
      /\ h.do = "Delete" => queue' = Push(Push(q, "remove", As(h, "DeleteNetwork")),
                                          "remove", As(h, "DeleteAllHubByNetwork"))
      /\ h.do = "Update" => queue' = Push(q, "insert", As(h, "UpdateNetwork"))
      /\ h.do = "Insert" => queue' = Push(q, "insert", As(h, "InsertNetwork"))
      /\ UNCHANGED <<networks, hubs, tableVars, awaited, reply, historyVars, count>>
  BY DEF DbaTakesNetwork
<1>2. /\ "network" \in Readers /\ "insert" \in Readers /\ "remove" \in Readers
      /\ Firsts("network") = NetworkMsgs
  BY Queues, Names
<1>3. h \in NetworkMsgs
  BY <1>1, <1>2, QueueIs DEF TypeOK
<1> HIDE DEF h
<1>4. RestOK'
  BY <1>1 DEF TypeOK, RestOK, tableVars, historyVars
<1>5. CASE h.do = "Delete"
  <2> DEFINE m == As(h, "DeleteNetwork")
             x == As(h, "DeleteAllHubByNetwork")
  <2>1. /\ m \in Deletions({"DeleteNetwork"}) /\ m.do = "DeleteNetwork"
        /\ m.net = h.net /\ m.set = h.set
        /\ x \in Deletions({"DeleteAllHubByNetwork"}) /\ x.do = "DeleteAllHubByNetwork"
    <3>1. h \in Deletions({"Delete"})
      BY <1>3, <1>5, Kinds
    <3>2. QED
      BY <3>1, DeletionRenamed
  <2>2. m \in Removes /\ x \in Removes
    BY <2>1 DEF Removes, Deletions
  <2>3. queue' = Push(Push(q, "remove", m), "remove", x)
    BY <1>1, <1>5
  <2> HIDE DEF m, x
  <2>4. /\ queue' = [r \in Readers |-> queue'[r]]
        /\ queue'["network"] = Tail(queue["network"])
        /\ queue'["remove"] = Append(Append(queue["remove"], m), x)
        /\ Others({"network", "remove"})
    BY <1>2, <2>3 DEF TypeOK, QueueOK, Pop, Push, Others
  <2>5. /\ queue["network"] \in Seq(Firsts("network")) /\ queue["remove"] \in Seq(Firsts("remove"))
        /\ Tail(queue["network"]) \in Seq(Waits("network"))
        /\ queue["remove"] # <<>> => Tail(queue["remove"]) \in Seq(Waits("remove"))
    BY <1>1, <1>2 DEF TypeOK, QueueOK
  <2>6. m \in Waits("remove") /\ x \in Waits("remove") /\ m \in Firsts("remove") /\ x \in Firsts("remove")
    BY <1>2, <2>2, Queues
  <2> DEFINE a == Append(queue["remove"], m)
  <2>7. a \in Seq(Firsts("remove")) /\ Tail(a) \in Seq(Waits("remove"))
    BY <2>5, <2>6, TailAppend
  <2>8. /\ Elements(a) = Elements(queue["remove"]) \cup {m}
        /\ \A n : Newest(a, n) = IF Carries(m, n) THEN {m} ELSE Newest(queue["remove"], n)
    BY <2>5, ElementsAppend, NewestAppend
  <2> HIDE DEF a
  <2>9. Append(a, x) \in Seq(Firsts("remove")) /\ Tail(Append(a, x)) \in Seq(Waits("remove"))
    BY <2>6, <2>7, TailAppend
  <2>10. /\ Elements(Append(a, x)) = Elements(a) \cup {x}
         /\ \A n : Newest(Append(a, x), n) = IF Carries(x, n) THEN {x} ELSE Newest(a, n)
    BY <2>7, ElementsAppend, NewestAppend
  <2>11. \A n : ~Carries(x, n)
    BY <2>1, CarriesIs
  <2>12. queue'["remove"] = Append(a, x)
    BY <2>4 DEF a
  <2>13. NetworkPassed("remove", m)
    <3>1. Elements(queue'["remove"]) = Elements(queue["remove"]) \cup {m, x}
      BY <2>8, <2>10, <2>12
    <3>2. \A n : Newest(queue'["remove"], n) = IF Carries(m, n) THEN {m}
                                               ELSE Newest(queue["remove"], n)
      BY <2>8, <2>10, <2>11, <2>12
    <3>3. m.do \in Statements /\ m.net = h.net /\ m.set = h.set
      BY <2>1 DEF Statements
    <3>4. QED
      BY <2>1, <3>1, <3>2, <3>3 DEF NetworkPassed, h
  <2>14. QueueOK'
    <3>1. /\ queue'["network"] \in Seq(Firsts("network"))
          /\ queue'["network"] # <<>> => Tail(queue'["network"]) \in Seq(Waits("network"))
      BY <1>2, <2>4, <2>5, Queues
    <3>2. \A r \in Readers \ {"network", "remove"} : queue'[r] = queue[r]
      BY <2>4 DEF Others
    <3>3. QED
      BY <2>4, <2>9, <2>12, <3>1, <3>2 DEF TypeOK, QueueOK
  <2>15. Dropped("network")
    BY <1>1, <2>4, <2>5, DroppedIs
  <2>16. QED
    BY <1>1, <1>3, <1>4, <1>5, <2>4, <2>13, <2>14, <2>15 DEF TypeOK, h
<1>6. CASE h.do # "Delete"
  <2> DEFINE name == IF h.do = "Update" THEN "UpdateNetwork" ELSE "InsertNetwork"
             m == As(h, name)
  <2>1. h.do \in {"Insert", "Update"} /\ h \in Changes({"Insert", "Update"})
    BY <1>3, <1>6, Kinds
  <2>2. queue' = Push(q, "insert", m)
    BY <1>1, <2>1
  <2>3. m \in Changes({name}) /\ m.do = name /\ m.net = h.net /\ m.set = h.set
    BY <2>1, Renamed
  <2>4. name \in {"InsertNetwork", "UpdateNetwork"}
    OBVIOUS
  <2> HIDE DEF m, name
  <2>5. m \in Waits("insert")
    BY <2>3, <2>4, Queues DEF Inserts, Changes
  <2>6. /\ QueueOK' /\ Dropped("network") /\ Appended("insert", m)
        /\ Others({"network", "insert"})
    BY <1>1, <1>2, <2>2, <2>5, MoveTyped DEF TypeOK
  <2>7. NetworkPassed("insert", m)
    <3>1. \E x : x.do = "DeleteAllHubByNetwork"
      <4>1. [do |-> "DeleteAllHubByNetwork"].do = "DeleteAllHubByNetwork"
        OBVIOUS
      <4>2. QED
        BY <4>1
    <3>2. /\ Elements(queue'["insert"]) = Elements(queue["insert"]) \cup {m}
          /\ \A n : Newest(queue'["insert"], n) = IF Carries(m, n) THEN {m}
                                                  ELSE Newest(queue["insert"], n)
      BY <2>6 DEF Appended
    <3>3. m.do \in Statements /\ m.net = h.net /\ m.set = h.set
      BY <2>3, <2>4 DEF Statements
    <3>4. QED
      BY <3>1, <3>2, <3>3 DEF NetworkPassed, h
  <2>8. QED
    BY <1>1, <1>3, <1>4, <1>6, <2>6, <2>7 DEF TypeOK, h
<1>7. QED
  BY <1>5, <1>6

LEMMA DbaHubIs ==
  ASSUME TypeOK, DbaTakesHub
  PROVE  /\ TypeOK'
         /\ Dropped("hubs") /\ Head(queue["hubs"]) \in HubChanges
         /\ LET h == Head(queue["hubs"]) IN
            \/ \E m : /\ Appended("insert", m) /\ Others({"hubs", "insert"})
                      /\ h.do = "Insert" /\ m.do = "InsertHub"
                      /\ m.net = h.net /\ m.hub = h.hub
            \/ \E m : /\ Appended("remove", m) /\ Others({"hubs", "remove"})
                      /\ m.do = "DeleteHub"
         /\ UNCHANGED <<networks, hubs, tableVars, awaited, reply, historyVars>>
<1> DEFINE h == Head(queue["hubs"])
           q == Pop(queue, "hubs")
<1>1. /\ queue["hubs"] # <<>>
      /\ queue' = IF h.do = "Insert" THEN Push(q, "insert", As(h, "InsertHub"))
                                     ELSE Push(q, "remove", As(h, "DeleteHub"))
      /\ UNCHANGED <<networks, hubs, tableVars, awaited, reply, historyVars, count>>
  BY DEF DbaTakesHub
<1>2. /\ "hubs" \in Readers /\ "insert" \in Readers /\ "remove" \in Readers
      /\ Firsts("hubs") = HubChanges
  BY Queues, Names
<1>3. h \in HubChanges
  BY <1>1, <1>2, QueueIs DEF TypeOK
<1> HIDE DEF h
<1>4. RestOK'
  BY <1>1 DEF TypeOK, RestOK, tableVars, historyVars
<1>5. CASE h.do = "Insert"
  <2> DEFINE m == As(h, "InsertHub")
  <2>1. /\ m \in HubMsgs({"InsertHub"}) /\ m.do = "InsertHub"
        /\ m.net = h.net /\ m.hub = h.hub
    BY <1>3, <1>5, Kinds, Renamed
  <2>2. queue' = Push(q, "insert", m)
    BY <1>1, <1>5
  <2> HIDE DEF m
  <2>3. m \in Waits("insert")
    BY <2>1, Queues DEF Inserts
  <2>4. /\ QueueOK' /\ Dropped("hubs") /\ Appended("insert", m) /\ Others({"hubs", "insert"})
    BY <1>1, <1>2, <2>2, <2>3, MoveTyped DEF TypeOK
  <2>5. QED
    BY <1>1, <1>3, <1>4, <1>5, <2>1, <2>4 DEF TypeOK, h
<1>6. CASE h.do # "Insert"
  <2> DEFINE m == As(h, "DeleteHub")
  <2>1. m \in Removals({"DeleteHub"}) /\ m.do = "DeleteHub"
    <3>1. h \in Removals({"Delete"})
      BY <1>3, <1>6, Kinds
    <3>2. QED
      BY <3>1, Renamed
  <2>2. queue' = Push(q, "remove", m)
    BY <1>1, <1>6
  <2> HIDE DEF m
  <2>3. m \in Waits("remove")
    BY <2>1, Queues DEF Removes
  <2>4. /\ QueueOK' /\ Dropped("hubs") /\ Appended("remove", m) /\ Others({"hubs", "remove"})
    BY <1>1, <1>2, <2>2, <2>3, MoveTyped DEF TypeOK
  <2>5. QED
    BY <1>1, <1>3, <1>4, <2>1, <2>4 DEF TypeOK, h
<1>7. QED
  BY <1>5, <1>6
-----------------------------------------------------------------------------
(* The steps of the insert and the remove task.                            *)

\* The outcome goes to the server.
LEMMA SaysOutcomeIs ==
  ASSUME TypeOK, NEW t \in {"insert", "remove"}, Says(t)
  PROVE  /\ TypeOK'
         /\ Dropped(t) /\ Others({t}) /\ Head(queue[t]).do = "say"
         /\ LET m == Head(queue[t]).what IN
              m \in Updates /\ reply' = [reply EXCEPT ![m.net] = m.code]
         /\ UNCHANGED <<networks, hubs, tableVars, historyVars>>
<1> DEFINE m == Head(queue[t]).what
<1>1. /\ queue[t] # <<>> /\ Head(queue[t]).do = "say"
      /\ \/ /\ m.do = "NetworksUpdated" /\ queue' = Later(t, <<>>)
            /\ reply' = [reply EXCEPT ![m.net] = m.code]
            /\ awaited' = [awaited EXCEPT ![m.net] = @ - 1]
         \/ m.do \in {"BatchNetwork", "BatchHub"}
      /\ UNCHANGED <<networks, hubs, tableVars, historyVars, count>>
  BY DEF Says, NextIs, Then
<1>2. t \in Readers
  BY Names
<1>3. m \in Updates /\ m.do = "NetworksUpdated"
  <2>1. Head(queue[t]) \in Firsts(t)
    BY <1>1, <1>2, QueueIs DEF TypeOK
  <2>2. Head(queue[t]) \in Sayings(Updates)
    <3>1. /\ Head(queue[t]) \notin Inserts /\ Head(queue[t]) \notin Removes
          /\ Head(queue[t]) \notin HubMsgs({"insert_hub"})
      BY <1>1, Kinds
    <3>2. CASE t = "insert"
      BY <2>1, <3>1, <3>2, Queues
    <3>3. CASE t = "remove"
      BY <2>1, <3>1, <3>3, Queues
    <3>4. QED
      BY <3>2, <3>3
  <2>3. QED
    BY <2>2, Kinds
<1>4. /\ queue' = Later(t, <<>>) /\ reply' = [reply EXCEPT ![m.net] = m.code]
      /\ awaited' = [awaited EXCEPT ![m.net] = @ - 1]
  BY <1>1, <1>3
<1>5. QueueOK' /\ Dropped(t) /\ Others({t})
  BY <1>1, <1>2, <1>4, DropTyped DEF TypeOK
<1>6. RestOK'
  <2>1. m.net \in Networks /\ m.code \in Codes \cup Errors
    BY <1>3 DEF Updates
  <2> HIDE DEF m
  <2>2. RestOK
    BY DEF TypeOK
  <2>3. reply' \in [Networks -> Codes \cup Errors \cup {0}] /\ awaited' \in [Networks -> Int]
    BY <1>4, <2>1, <2>2 DEF RestOK
  <2>4. QED
    BY <1>1, <2>2, <2>3 DEF RestOK, tableVars, historyVars
<1>7. QED
  BY <1>1, <1>3, <1>4, <1>5, <1>6 DEF TypeOK

\* A statement about a network: the table follows it, or it has failed, and the
\* task is to say so.
Carried(t) ==
    LET j == Head(queue[t]) IN
    /\ j.do \in Statements /\ j.net \in Networks
    /\ \E c \in Codes \cup Errors :
          /\ Swapped(t, Updated(j.net, c)) /\ Tells(c, table'[j.net])
          /\ c \in Errors \/ table'[j.net] = j.set
    /\ \A n \in Networks \ {j.net} : table'[n] = table[n]
    /\ UNCHANGED hubTable

\* A statement about hubs, of which nothing is said.
HubDone(t) ==
    LET j == Head(queue[t]) IN
    /\ j.do \in {"InsertHub", "insert_hub", "DeleteHub", "DeleteAllHubByNetwork"}
    /\ \/ Dropped(t)
       \/ /\ j.do = "InsertHub"
          /\ \E m : /\ Swapped(t, m)
                    /\ m.do = "insert_hub" /\ m.net = j.net /\ m.hub = j.hub
    /\ \A h \in Hubs : \/ hubTable'[h] \in {hubTable[h], NoNet}
                       \/ j.do = "insert_hub" /\ j.hub = h /\ hubTable'[h] = j.net
    /\ UNCHANGED table

\* The first of the queue of a database task, by its name.
LEMMA InsertFirst ==
  ASSUME TypeOK, queue["insert"] # <<>>
  PROVE  LET j == Head(queue["insert"]) IN
         \/ j.do \in {"InsertNetwork", "UpdateNetwork"}
              /\ j \in Changes({"InsertNetwork", "UpdateNetwork"})
         \/ j.do = "InsertHub" /\ j \in HubMsgs({"InsertHub"})
         \/ j.do = "insert_hub" /\ j \in HubMsgs({"insert_hub"})
         \/ j.do = "say" /\ j \in Sayings(Updates)
<1> DEFINE j == Head(queue["insert"])
<1>1. j \in Firsts("insert")
  BY QueueIs, Names DEF TypeOK
<1>2. j \in Inserts \/ j \in HubMsgs({"insert_hub"}) \/ j \in Sayings(Updates)
  BY <1>1, Queues
<1> HIDE DEF j
<1>3. QED
  BY <1>2, Kinds DEF j

LEMMA RemoveFirst ==
  ASSUME TypeOK, queue["remove"] # <<>>
  PROVE  LET j == Head(queue["remove"]) IN
         \/ j.do \in {"DeleteNetwork", "DeleteAllHubByNetwork"}
              /\ j \in Deletions({"DeleteNetwork", "DeleteAllHubByNetwork"})
         \/ j.do = "DeleteHub" /\ j \in Removals({"DeleteHub"})
         \/ j.do = "say" /\ j \in Sayings(Updates)
<1> DEFINE j == Head(queue["remove"])
<1>1. j \in Firsts("remove")
  BY QueueIs, Names DEF TypeOK
<1>2. j \in Removes \/ j \in Sayings(Updates)
  BY <1>1, Queues
<1> HIDE DEF j
<1>3. QED
  BY <1>2, Kinds DEF j

\* A task that carries out a statement about a network, in the terms of its code.
LEMMA CarriedIs ==
  ASSUME TypeOK, NEW t \in {"insert", "remove"}, queue[t] # <<>>,
         Head(queue[t]).do \in Statements, Head(queue[t]).net \in Networks,
         NEW c \in Codes \cup Errors, Then(t, <<Updated(Head(queue[t]).net, c)>>),
         table' \in [Networks -> Values], Tells(c, table'[Head(queue[t]).net]),
         c \in Errors \/ table'[Head(queue[t]).net] = Head(queue[t]).set,
         \A n \in Networks \ {Head(queue[t]).net} : table'[n] = table[n],
         UNCHANGED <<networks, hubs, hubTable, awaited, reply, historyVars>>,
         count' \in [{"changes", "requests", "mishaps"} -> Nat]
  PROVE  TypeOK' /\ Others({t}) /\ Carried(t)
<1> DEFINE j == Head(queue[t])
           m == Updated(j.net, c)
<1>1. m \in Firsts(t)
  <2>1. m \in Sayings(Updates)
    BY UpdatedIs
  <2>2. Sayings(Updates) \subseteq Firsts(t)
    <3>1. CASE t = "insert"
      BY <3>1, Queues
    <3>2. CASE t = "remove"
      BY <3>2, Queues
    <3>3. QED
      BY <3>1, <3>2
  <2>3. QED
    BY <2>1, <2>2
<1>2. queue' = Later(t, <<m>>)
  BY DEF Then
<1>3. t \in Readers
  BY Names
<1>4. Swapped(t, m) /\ QueueOK' /\ Others({t})
  <2> HIDE DEF m
  <2>1. QED
    BY <1>1, <1>2, <1>3, SwapTyped DEF TypeOK
<1>5. RestOK'
  BY DEF TypeOK, RestOK, historyVars
<1>6. Carried(t)
  BY <1>4 DEF Carried
<1>7. QED
  BY <1>4, <1>5, <1>6 DEF TypeOK

\* The same of a statement about hubs.
LEMMA HubDoneIs ==
  ASSUME TypeOK, NEW t \in {"insert", "remove"}, queue[t] # <<>>,
         Head(queue[t]).do \in {"InsertHub", "insert_hub", "DeleteHub", "DeleteAllHubByNetwork"},
         Then(t, <<>>), hubTable' \in [Hubs -> Networks \cup {NoNet}],
         \A h \in Hubs : \/ hubTable'[h] \in {hubTable[h], NoNet}
                         \/ /\ Head(queue[t]).do = "insert_hub" /\ Head(queue[t]).hub = h
                            /\ hubTable'[h] = Head(queue[t]).net,
         UNCHANGED <<networks, hubs, table, awaited, reply, historyVars>>,
         count' \in [{"changes", "requests", "mishaps"} -> Nat]
  PROVE  TypeOK' /\ Others({t}) /\ HubDone(t)
<1>1. t \in Readers /\ queue' = Later(t, <<>>)
  BY Names DEF Then
<1>2. QueueOK' /\ Dropped(t) /\ Others({t})
  BY <1>1, DropTyped DEF TypeOK
<1>3. RestOK'
  BY DEF TypeOK, RestOK, historyVars
<1>4. HubDone(t)
  BY <1>2 DEF HubDone
<1>5. QED
  BY <1>2, <1>3, <1>4 DEF TypeOK

LEMMA InsertTaskIs ==
  ASSUME TypeOK, RunsStatement("insert")
  PROVE  /\ TypeOK' /\ Others({"insert"}) /\ (Carried("insert") \/ HubDone("insert"))
         /\ UNCHANGED <<networks, hubs, awaited, reply, historyVars>>
<1> DEFINE j == Head(queue["insert"])
<1>1. /\ InsertsNetwork \/ UpdatesNetwork \/ CountsNetworksForHub \/ InsertsHub
      /\ UNCHANGED <<networks, hubs, awaited, reply, dismissed, crossed, count>>
  BY DEF RunsStatement
<1>2. UNCHANGED <<networks, hubs, awaited, reply, historyVars>>
  BY <1>1 DEF InsertsNetwork, UpdatesNetwork, CountsNetworksForHub, InsertsHub, historyVars
<1>3. /\ count' \in [{"changes", "requests", "mishaps"} -> Nat]
      /\ table \in [Networks -> Values] /\ hubTable \in [Hubs -> Networks \cup {NoNet}]
  BY <1>1 DEF TypeOK, RestOK
<1>4. CASE InsertsNetwork
  <2>1. /\ queue["insert"] # <<>> /\ j.do = "InsertNetwork"
        /\ table' = [table EXCEPT ![j.net] = j.set] /\ UNCHANGED hubTable
        /\ Then("insert", <<Updated(j.net, 100)>>)
    BY <1>4 DEF InsertsNetwork, NextIs
  <2>2. j \in Changes({"InsertNetwork", "UpdateNetwork"})
    BY <2>1, InsertFirst
  <2>3. j.net \in Networks /\ j.set \in Statuses /\ j.do \in Statements
    BY <2>1, <2>2 DEF Changes, Statements
  <2> HIDE DEF j
  <2>4. /\ table' \in [Networks -> Values] /\ table'[j.net] = j.set
        /\ \A n \in Networks \ {j.net} : table'[n] = table[n]
    BY <1>3, <2>1, <2>3 DEF Values
  <2>5. 100 \in Codes \cup Errors /\ Tells(100, table'[j.net])
    BY <2>3, <2>4, CodesAre DEF Tells, Statuses, Absent
  <2>6. QED
    BY <1>2, <1>3, <2>1, <2>3, <2>4, <2>5, CarriedIs DEF j
<1>5. CASE UpdatesNetwork
  <2> DEFINE c == IF j.set = "active" THEN 300 ELSE 400
  <2>1. /\ queue["insert"] # <<>> /\ j.do = "UpdateNetwork"
        /\ table' = [table EXCEPT ![j.net] = j.set] /\ UNCHANGED hubTable
        /\ Then("insert", <<Updated(j.net, c)>>)
    BY <1>5 DEF UpdatesNetwork, NextIs
  <2>2. j \in Changes({"InsertNetwork", "UpdateNetwork"})
    BY <2>1, InsertFirst
  <2>3. j.net \in Networks /\ j.set \in Statuses /\ j.do \in Statements
    BY <2>1, <2>2 DEF Changes, Statements
  <2> HIDE DEF j
  <2>4. /\ table' \in [Networks -> Values] /\ table'[j.net] = j.set
        /\ \A n \in Networks \ {j.net} : table'[n] = table[n]
    BY <1>3, <2>1, <2>3 DEF Values
  <2>5. c \in Codes \cup Errors /\ Tells(c, table'[j.net])
    BY <2>3, <2>4, CodesAre DEF Tells, Statuses, Absent
  <2> HIDE DEF c
  <2>6. QED
    BY <1>2, <1>3, <2>1, <2>3, <2>4, <2>5, CarriedIs DEF j
<1>6. CASE CountsNetworksForHub
  <2>1. /\ queue["insert"] # <<>> /\ j.do = "InsertHub" /\ UNCHANGED tableVars
        /\ \/ Then("insert", <<As(j, "insert_hub")>>)
           \/ Then("insert", <<>>)
    BY <1>6 DEF CountsNetworksForHub, NextIs
  <2>2. CASE Then("insert", <<>>)
    BY <1>2, <1>3, <2>1, <2>2, HubDoneIs DEF tableVars
  <2>3. CASE Then("insert", <<As(j, "insert_hub")>>)
    <3> DEFINE m == As(j, "insert_hub")
    <3>1. j \in HubMsgs({"InsertHub"})
      BY <2>1, InsertFirst
    <3> HIDE DEF j
    <3>2. m \in HubMsgs({"insert_hub"}) /\ m.do = "insert_hub" /\ m.net = j.net /\ m.hub = j.hub
      BY <3>1, HubRenamed
    <3>3. m \in Firsts("insert") /\ "insert" \in Readers
      BY <3>2, Queues, Names
    <3>4. queue' = Later("insert", <<m>>)
      BY <2>3 DEF Then
    <3> HIDE DEF m
    <3>5. QueueOK' /\ Swapped("insert", m) /\ Others({"insert"})
      BY <2>1, <3>3, <3>4, SwapTyped DEF TypeOK
    <3>6. RestOK'
      BY <1>1, <1>2, <2>1 DEF TypeOK, RestOK, tableVars, historyVars
    <3>7. HubDone("insert")
      BY <2>1, <3>2, <3>5 DEF HubDone, tableVars, j
    <3>8. QED
      BY <1>2, <3>5, <3>6, <3>7 DEF TypeOK
  <2>4. QED
    BY <2>1, <2>2, <2>3
<1>7. CASE InsertsHub
  <2>1. /\ queue["insert"] # <<>> /\ j.do = "insert_hub" /\ Then("insert", <<>>)
        /\ hubTable' = [hubTable EXCEPT ![j.hub] = j.net] /\ UNCHANGED table
    BY <1>7 DEF InsertsHub, NextIs
  <2>2. j \in HubMsgs({"insert_hub"})
    BY <2>1, InsertFirst
  <2>3. j.net \in Networks /\ j.hub \in Hubs
    BY <2>2 DEF HubMsgs
  <2> HIDE DEF j
  <2>4. hubTable' \in [Hubs -> Networks \cup {NoNet}]
    BY <1>3, <2>1, <2>3
  <2>5. \A h \in Hubs : \/ hubTable'[h] \in {hubTable[h], NoNet}
                        \/ j.do = "insert_hub" /\ j.hub = h /\ hubTable'[h] = j.net
    BY <1>3, <2>1
  <2>6. QED
    BY <1>2, <1>3, <2>1, <2>4, <2>5, HubDoneIs DEF j
<1>8. QED
  BY <1>1, <1>4, <1>5, <1>6, <1>7

LEMMA RemoveTaskIs ==
  ASSUME TypeOK, RunsStatement("remove")
  PROVE  /\ TypeOK' /\ Others({"remove"}) /\ (Carried("remove") \/ HubDone("remove"))
         /\ UNCHANGED <<networks, hubs, awaited, reply, historyVars>>
<1> DEFINE j == Head(queue["remove"])
<1>1. /\ DeletesNetwork \/ DeletesHubsOfNetwork
      /\ UNCHANGED <<networks, hubs, awaited, reply, dismissed, crossed, count>>
  BY DEF RunsStatement
<1>2. UNCHANGED <<networks, hubs, awaited, reply, historyVars>>
  BY <1>1 DEF DeletesNetwork, DeletesHubsOfNetwork, historyVars
<1>3. /\ count' \in [{"changes", "requests", "mishaps"} -> Nat]
      /\ table \in [Networks -> Values] /\ hubTable \in [Hubs -> Networks \cup {NoNet}]
  BY <1>1 DEF TypeOK, RestOK
<1>4. CASE DeletesNetwork
  <2>1. /\ queue["remove"] # <<>> /\ j.do = "DeleteNetwork"
        /\ table' = [table EXCEPT ![j.net] = Absent] /\ UNCHANGED hubTable
        /\ Then("remove", <<Updated(j.net, 200)>>)
    BY <1>4 DEF DeletesNetwork, NextIs
  <2>2. j \in Deletions({"DeleteNetwork", "DeleteAllHubByNetwork"})
    BY <2>1, RemoveFirst
  <2>3. j.net \in Networks /\ j.set = Absent /\ j.do \in Statements
    BY <2>1, <2>2 DEF Deletions, Statements
  <2> HIDE DEF j
  <2>4. /\ table' \in [Networks -> Values] /\ table'[j.net] = j.set
        /\ \A n \in Networks \ {j.net} : table'[n] = table[n]
    BY <1>3, <2>1, <2>3 DEF Values
  <2>5. 200 \in Codes \cup Errors /\ Tells(200, table'[j.net])
    BY <2>3, <2>4, CodesAre DEF Tells
  <2>6. QED
    BY <1>2, <1>3, <2>1, <2>3, <2>4, <2>5, CarriedIs DEF j
<1>5. CASE DeletesHubsOfNetwork
  <2>1. /\ queue["remove"] # <<>> /\ j.do = "DeleteAllHubByNetwork" /\ Then("remove", <<>>)
        /\ hubTable' = [h \in Hubs |-> IF hubTable[h] = j.net THEN NoNet ELSE hubTable[h]]
        /\ UNCHANGED table
    BY <1>5 DEF DeletesHubsOfNetwork, NextIs
  <2>2. /\ hubTable' \in [Hubs -> Networks \cup {NoNet}]
        /\ \A h \in Hubs : hubTable'[h] \in {hubTable[h], NoNet}
    BY <1>3, <2>1
  <2>3. QED
    BY <1>2, <1>3, <2>1, <2>2, HubDoneIs
<1>6. QED
  BY <1>1, <1>4, <1>5

\* A failed statement about a network is told to the server, one about hubs is
\* only logged.
LEMMA FailedIs ==
  ASSUME TypeOK, NEW t \in {"insert", "remove"}, StatementFails(t)
  PROVE  /\ TypeOK' /\ Others({t}) /\ (Carried(t) \/ HubDone(t))
         /\ UNCHANGED <<networks, hubs, awaited, reply, historyVars>>
<1> DEFINE j == Head(queue[t])
<1>1. /\ queue[t] # <<>> /\ j.do # "say" /\ Then(t, AfterError(j))
      /\ UNCHANGED count \/ Counts("mishaps")
      /\ astray' = IF j.do \in {"GetTotalOfNetworks", "get_all_network"}
                   THEN astray \cup StoredNetworks ELSE astray
      /\ unread' = IF j.do \in {"GetTotalOfNetworks", "get_all_hubs"}
                   THEN StoredHubs ELSE unread
      /\ UNCHANGED <<networks, hubs, tableVars, awaited, reply, dismissed, crossed>>
  BY DEF StatementFails, NextIs
<1>2. \/ /\ j.do \in Statements
         /\ j \in Changes({"InsertNetwork", "UpdateNetwork"})
              \cup Deletions({"DeleteNetwork", "DeleteAllHubByNetwork"})
      \/ j.do \in {"InsertHub", "insert_hub", "DeleteHub", "DeleteAllHubByNetwork"}
  <2>1. CASE t = "insert"
    BY <1>1, <2>1, InsertFirst DEF Statements
  <2>2. CASE t = "remove"
    BY <1>1, <2>2, RemoveFirst DEF Statements
  <2>3. QED
    BY <2>1, <2>2
<1> HIDE DEF j
<1>3. UNCHANGED <<networks, hubs, awaited, reply, historyVars>>
  BY <1>1, <1>2 DEF historyVars, Statements
<1>4. /\ count' \in [{"changes", "requests", "mishaps"} -> Nat]
      /\ table' \in [Networks -> Values] /\ hubTable' \in [Hubs -> Networks \cup {NoNet}]
      /\ UNCHANGED table /\ UNCHANGED hubTable
  BY <1>1 DEF TypeOK, RestOK, tableVars, Counts
<1>5. CASE j.do \in Statements
  <2> DEFINE c == IF j.do = "InsertNetwork" THEN 101
                  ELSE IF j.do = "DeleteNetwork" THEN 201
                  ELSE IF j.set = "active" THEN 301 ELSE 401
  <2>1. AfterError(j) = <<Updated(j.net, c)>>
    BY <1>5 DEF AfterError, Statements
  <2>2. j.net \in Networks
    BY <1>2, <1>5 DEF Changes, Deletions, Statements
  <2>3. c \in Errors /\ c \in Codes \cup Errors /\ Tells(c, table'[j.net])
    BY CodesAre DEF Tells
  <2> HIDE DEF c
  <2>4. QED
    BY <1>1, <1>3, <1>4, <1>5, <2>1, <2>2, <2>3, CarriedIs DEF j
<1>6. CASE j.do \notin Statements
  <2>1. AfterError(j) = <<>>
    BY <1>6 DEF AfterError, Statements
  <2>2. QED
    BY <1>1, <1>2, <1>3, <1>4, <1>6, <2>1, HubDoneIs DEF j
<1>7. QED
  BY <1>5, <1>6

LEMMA TaskIs ==
  ASSUME TypeOK, NEW t \in {"insert", "remove"}, RunsStatement(t) \/ StatementFails(t)
  PROVE  /\ TypeOK' /\ Others({t}) /\ (Carried(t) \/ HubDone(t))
         /\ UNCHANGED <<networks, hubs, awaited, reply, historyVars>>
BY InsertTaskIs, RemoveTaskIs, FailedIs
-----------------------------------------------------------------------------
(* The steps of the get task.                                              *)

\* The first of its queue.
LEMMA GetFirst ==
  ASSUME TypeOK, queue["get"] # <<>>
  PROVE  /\ Head(queue["get"]) \in GetJobs
         /\ Head(queue["get"]).do = "say" => Head(queue["get"]).what \in Batches
<1> DEFINE j == Head(queue["get"])
<1>1. j \in GetJobs
  BY QueueIs, Queues, Names DEF TypeOK
<1> HIDE DEF j
<1>2. j.do = "say" => j.what \in Batches
  BY <1>1, Kinds
<1>3. QED
  BY <1>1, <1>2 DEF j

LEMMA SaysBatchIs ==
  ASSUME TypeOK, Says("get")
  PROVE  /\ TypeOK'
         /\ Dropped("get") /\ Head(queue["get"]).do = "say"
         /\ Appended("batch", Head(queue["get"]).what) /\ Others({"get", "batch"})
         /\ UNCHANGED <<networks, hubs, tableVars, awaited, reply, historyVars>>
<1> DEFINE m == Head(queue["get"]).what
<1>1. /\ queue["get"] # <<>> /\ Head(queue["get"]).do = "say"
      /\ \/ m.do = "NetworksUpdated"
         \/ queue' = Push(Later("get", <<>>), "batch", m) /\ UNCHANGED <<reply, awaited>>
      /\ UNCHANGED <<networks, hubs, tableVars, historyVars, count>>
  BY DEF Says, NextIs
<1>2. m \in Batches
  BY <1>1, GetFirst
<1> HIDE DEF m
<1>3. m.do # "NetworksUpdated" /\ m \in Waits("batch")
  BY <1>2, Kinds, Queues
<1>4. queue' = Push(Pop(queue, "get"), "batch", m) /\ UNCHANGED <<reply, awaited>>
  BY <1>1, <1>3, LaterNone, Names DEF TypeOK
<1>5. QueueOK' /\ Dropped("get") /\ Appended("batch", m) /\ Others({"get", "batch"})
  BY <1>1, <1>3, <1>4, MoveTyped, Names DEF TypeOK
<1>6. RestOK'
  BY <1>1, <1>4 DEF TypeOK, RestOK, tableVars, historyVars
<1>7. QED
  BY <1>1, <1>4, <1>5, <1>6 DEF TypeOK, m

\* With networks in the table both reads follow.
LEMMA CountsIs ==
  ASSUME TypeOK, RunsStatement("get"), CountsNetworks
  PROVE  /\ TypeOK'
         /\ queue["get"] # <<>> /\ Head(queue["get"]).do = "GetTotalOfNetworks"
         /\ Others({"get"})
         /\ \/ /\ SomeNetwork /\ UNCHANGED unread
               /\ \E a, b : /\ a.do = "get_all_network" /\ b.do = "get_all_hubs"
                            /\ Elements(queue'["get"]) = {a, b} \cup Elements(Tail(queue["get"]))
            \/ ~SomeNetwork /\ unread' = StoredHubs /\ Dropped("get")
         /\ UNCHANGED <<networks, hubs, tableVars, awaited, reply, dismissed, astray, crossed>>
<1> DEFINE a == [do |-> "get_all_network"]
           b == [do |-> "get_all_hubs"]
<1>1. /\ queue["get"] # <<>> /\ Head(queue["get"]).do = "GetTotalOfNetworks"
      /\ \/ SomeNetwork /\ Then("get", <<a, b>>)
         \/ ~SomeNetwork /\ Then("get", <<>>)
      /\ unread' = IF SomeNetwork THEN unread ELSE StoredHubs
      /\ UNCHANGED <<networks, hubs, tableVars, awaited, reply, dismissed, astray, crossed, count>>
  BY DEF RunsStatement, CountsNetworks, NextIs
<1>2. "get" \in Readers /\ Waits("get") = GetJobs /\ Firsts("get") = GetJobs
  BY Names, Queues
<1>3. RestOK'
  <2>1. StoredHubs \in SUBSET Hubs
    BY DEF StoredHubs
  <2>2. QED
    BY <1>1, <2>1 DEF TypeOK, RestOK, tableVars
<1>4. CASE SomeNetwork
  <2>1. /\ queue' = [x \in Readers |-> queue'[x]]
        /\ queue'["get"] = <<a, b>> \o Tail(queue["get"]) /\ Others({"get"})
    BY <1>1, <1>2, <1>4 DEF TypeOK, QueueOK, Then, Later, Others
  <2>2. a \in GetJobs /\ b \in GetJobs /\ a.do = "get_all_network" /\ b.do = "get_all_hubs"
    BY DEF GetJobs, Plain
  <2> DEFINE t == Tail(queue["get"])
  <2>3. t \in Seq(GetJobs)
    BY <1>1, <1>2 DEF TypeOK, QueueOK
  <2> HIDE DEF t, a, b
  <2>4. <<a, b>> \o t = <<a>> \o (<<b>> \o t)
    <3>1. <<a, b>> = <<a>> \o <<b>> /\ <<a>> \in Seq(GetJobs) /\ <<b>> \in Seq(GetJobs)
      <4>1. /\ <<a>> \in Seq(GetJobs) /\ <<b>> \in Seq(GetJobs) /\ <<a, b>> \in Seq(GetJobs)
            /\ Len(<<a>>) = 1 /\ Len(<<b>>) = 1 /\ Len(<<a, b>>) = 2
        BY <2>2
      <4>2. <<a>> \o <<b>> \in Seq(GetJobs) /\ Len(<<a>> \o <<b>>) = 2
        BY <4>1
      <4>3. (<<a>> \o <<b>>)[1] = a /\ (<<a>> \o <<b>>)[2] = b
        BY <4>1
      <4>4. \A i \in 1..Len(<<a, b>>) : <<a, b>>[i] = (<<a>> \o <<b>>)[i]
        BY <4>1, <4>3
      <4>5. QED
        BY <4>1, <4>2, <4>4, SeqEqual
    <3>2. (<<a>> \o <<b>>) \o t = <<a>> \o (<<b>> \o t)
      BY <2>3, <3>1, ConcatAssociative
    <3>3. QED
      BY <3>1, <3>2
  <2> DEFINE u == <<b>> \o t
  <2>5. u \in Seq(GetJobs) /\ Elements(u) = {b} \cup Elements(t)
    BY <2>2, <2>3, Cons, ElementsCons
  <2> HIDE DEF u
  <2>6. /\ <<a>> \o u \in Seq(GetJobs) /\ Tail(<<a>> \o u) = u
        /\ Elements(<<a>> \o u) = {a} \cup Elements(u)
    BY <2>2, <2>5, Cons, ElementsCons
  <2>7. queue'["get"] = <<a>> \o u
    BY <2>1, <2>4 DEF u, t
  <2>8. QueueOK'
    <3>1. queue'["get"] \in Seq(Firsts("get")) /\ Tail(queue'["get"]) \in Seq(Waits("get"))
      BY <1>2, <2>5, <2>6, <2>7
    <3>2. \A r \in Readers \ {"get"} : queue'[r] = queue[r]
      BY <2>1 DEF Others
    <3>3. QED
      BY <2>1, <3>1, <3>2 DEF TypeOK, QueueOK
  <2>9. Elements(queue'["get"]) = {a, b} \cup Elements(Tail(queue["get"]))
    BY <2>5, <2>6, <2>7 DEF t
  <2>10. \E x, y : /\ x.do = "get_all_network" /\ y.do = "get_all_hubs"
                   /\ Elements(queue'["get"]) = {x, y} \cup Elements(Tail(queue["get"]))
    BY <2>2, <2>9
  <2>11. QED
    BY <1>1, <1>3, <1>4, <2>1, <2>8, <2>10 DEF TypeOK
<1>5. CASE ~SomeNetwork
  <2>1. queue' = Later("get", <<>>)
    BY <1>1, <1>5 DEF Then
  <2>2. QueueOK' /\ Dropped("get") /\ Others({"get"})
    BY <1>1, <1>2, <2>1, DropTyped DEF TypeOK
  <2>3. QED
    BY <1>1, <1>3, <1>5, <2>2 DEF TypeOK
<1>6. QED
  BY <1>4, <1>5

LEMMA ReadsNetworksIs ==
  ASSUME TypeOK, RunsStatement("get"), ReadsNetworks
  PROVE  /\ TypeOK'
         /\ queue["get"] # <<>> /\ Head(queue["get"]).do = "get_all_network"
         /\ Others({"get"})
         /\ \E m : /\ Swapped("get", m)
                   /\ SaysBatch(m, "BatchNetwork") /\ m.what.rows = table
         /\ UNCHANGED <<networks, hubs, tableVars, awaited, reply, historyVars>>
<1> DEFINE m == Say([do |-> "BatchNetwork", rows |-> table])
<1>1. /\ queue["get"] # <<>> /\ Head(queue["get"]).do = "get_all_network"
      /\ queue' = Later("get", <<m>>)
      /\ UNCHANGED <<networks, hubs, tableVars, awaited, reply, historyVars, count>>
  BY DEF RunsStatement, ReadsNetworks, NextIs, Then, historyVars
<1>2. "get" \in Readers /\ Firsts("get") = GetJobs
  BY Names, Queues
<1>3. table \in [Networks -> Values]
  BY DEF TypeOK, RestOK
<1>4. m \in GetJobs /\ SaysBatch(m, "BatchNetwork") /\ m.what.rows = table
  BY <1>3 DEF GetJobs, Sayings, Batches, NetworkBatches, Say, SaysBatch
<1> HIDE DEF m
<1>5. QueueOK' /\ Swapped("get", m) /\ Others({"get"})
  BY <1>1, <1>2, <1>4, SwapTyped DEF TypeOK
<1>6. RestOK'
  BY <1>1 DEF TypeOK, RestOK, tableVars, historyVars
<1>7. QED
  BY <1>1, <1>4, <1>5, <1>6 DEF TypeOK

LEMMA ReadsHubsIs ==
  ASSUME TypeOK, RunsStatement("get"), ReadsHubs
  PROVE  /\ TypeOK'
         /\ queue["get"] # <<>> /\ Head(queue["get"]).do = "get_all_hubs"
         /\ Others({"get"})
         /\ \/ Dropped("get") /\ \A h \in Hubs : hubTable[h] = NoNet
            \/ \E m : /\ Swapped("get", m)
                      /\ SaysBatch(m, "BatchHub") /\ m.what.rows = hubTable
         /\ UNCHANGED <<networks, hubs, tableVars, awaited, reply, historyVars>>
<1> DEFINE m == Say([do |-> "BatchHub", rows |-> hubTable])
<1>1. /\ queue["get"] # <<>> /\ Head(queue["get"]).do = "get_all_hubs"
      /\ \/ (\A h \in Hubs : hubTable[h] = NoNet) /\ queue' = Later("get", <<>>)
         \/ queue' = Later("get", <<m>>)
      /\ UNCHANGED <<networks, hubs, tableVars, awaited, reply, historyVars, count>>
  BY DEF RunsStatement, ReadsHubs, NextIs, Then, historyVars
<1>2. "get" \in Readers /\ Firsts("get") = GetJobs
  BY Names, Queues
<1>3. hubTable \in [Hubs -> Networks \cup {NoNet}]
  BY DEF TypeOK, RestOK
<1>4. m \in GetJobs /\ SaysBatch(m, "BatchHub") /\ m.what.rows = hubTable
  BY <1>3 DEF GetJobs, Sayings, Batches, HubBatches, Say, SaysBatch
<1> HIDE DEF m
<1>5. RestOK'
  BY <1>1 DEF TypeOK, RestOK, tableVars, historyVars
<1>6. CASE queue' = Later("get", <<m>>)
  <2>1. QueueOK' /\ Swapped("get", m) /\ Others({"get"})
    BY <1>1, <1>2, <1>4, <1>6, SwapTyped DEF TypeOK
  <2>2. QED
    BY <1>1, <1>4, <1>5, <2>1 DEF TypeOK
<1>7. CASE queue' = Later("get", <<>>) /\ \A h \in Hubs : hubTable[h] = NoNet
  <2>1. QueueOK' /\ Dropped("get") /\ Others({"get"})
    BY <1>1, <1>2, <1>7, DropTyped DEF TypeOK
  <2>2. QED
    BY <1>1, <1>5, <1>7, <2>1 DEF TypeOK
<1>8. QED
  BY <1>1, <1>6, <1>7

\* A read that fails leaves what it was to read out of the cache.
LEMMA ReadFailsIs ==
  ASSUME TypeOK, StatementFails("get")
  PROVE  /\ TypeOK'
         /\ Dropped("get") /\ Others({"get"})
         /\ LET j == Head(queue["get"]) IN
            /\ j.do \in {"GetTotalOfNetworks", "get_all_network", "get_all_hubs"}
            /\ astray' = IF j.do \in {"GetTotalOfNetworks", "get_all_network"}
                         THEN astray \cup StoredNetworks ELSE astray
            /\ unread' = IF j.do \in {"GetTotalOfNetworks", "get_all_hubs"}
                         THEN StoredHubs ELSE unread
         /\ UNCHANGED <<networks, hubs, tableVars, awaited, reply, dismissed, crossed>>
<1> DEFINE j == Head(queue["get"])
<1>1. /\ queue["get"] # <<>> /\ j.do # "say" /\ Then("get", AfterError(j))
      /\ UNCHANGED count \/ Counts("mishaps")
      /\ astray' = IF j.do \in {"GetTotalOfNetworks", "get_all_network"}
                   THEN astray \cup StoredNetworks ELSE astray
      /\ unread' = IF j.do \in {"GetTotalOfNetworks", "get_all_hubs"}
                   THEN StoredHubs ELSE unread
      /\ UNCHANGED <<networks, hubs, tableVars, awaited, reply, dismissed, crossed>>
  BY DEF StatementFails, NextIs
<1>2. j \in GetJobs
  BY <1>1, GetFirst
<1> HIDE DEF j
<1>3. j.do \in {"GetTotalOfNetworks", "get_all_network", "get_all_hubs"}
  BY <1>1, <1>2, Kinds
<1>4. AfterError(j) = <<>>
  BY <1>3 DEF AfterError
<1>5. QueueOK' /\ Dropped("get") /\ Others({"get"})
  BY <1>1, <1>4, DropTyped, Names DEF TypeOK, Then
<1>6. RestOK'
  <2>1. count' \in [{"changes", "requests", "mishaps"} -> Nat]
    BY <1>1 DEF TypeOK, RestOK, Counts
  <2>2. StoredHubs \in SUBSET Hubs /\ StoredNetworks \in SUBSET Networks
    BY DEF StoredHubs, StoredNetworks
  <2>3. QED
    BY <1>1, <2>1, <2>2 DEF TypeOK, RestOK, tableVars
<1>7. QED
  BY <1>1, <1>3, <1>5, <1>6 DEF TypeOK, j
-----------------------------------------------------------------------------
(* The start.                                                              *)

\* A gateway that has just started, whatever the tables hold.
Fresh ==
    /\ networks = Started.networks /\ hubs = Started.hubs /\ queue = Started.queue
    /\ awaited = Started.awaited /\ reply = Started.reply
    /\ dismissed = {} /\ unread = {} /\ astray = {} /\ crossed = {}
    /\ table \in [Networks -> Values] /\ hubTable \in [Hubs -> Networks \cup {NoNet}]
    /\ count \in [{"changes", "requests", "mishaps"} -> Nat]

LEMMA FreshIs ==
  ASSUME Fresh
  PROVE  /\ TypeOK
         /\ networks = [n \in Networks |-> Absent] /\ reply = [n \in Networks |-> 0]
         /\ \A r \in Readers \ {"get"} : queue[r] = <<>> /\ Elements(queue[r]) = {}
         /\ Elements(queue["get"]) = {[do |-> "GetTotalOfNetworks"]}
<1>1. /\ networks = [n \in Networks |-> Absent] /\ hubs = [n \in Networks |-> {}]
      /\ queue = [r \in Readers |->
                     IF r = "get" THEN <<[do |-> "GetTotalOfNetworks"]>> ELSE <<>>]
      /\ awaited = [n \in Networks |-> 0] /\ reply = [n \in Networks |-> 0]
  BY DEF Fresh, Started
<1> DEFINE m == [do |-> "GetTotalOfNetworks"]
<1>2. m \in GetJobs
  BY DEF GetJobs, Plain
<1> HIDE DEF m
<1>3. queue["get"] = <<m>> /\ \A r \in Readers \ {"get"} : queue[r] = <<>>
  BY <1>1, Names DEF m
<1>4. /\ <<m>> \in Seq(Firsts("get")) /\ Tail(<<m>>) \in Seq(Waits("get"))
  BY <1>2, Queues, Names
<1>5. QueueOK
  BY <1>1, <1>3, <1>4 DEF QueueOK
<1>6. RestOK
  BY <1>1 DEF Fresh, RestOK, Values
<1>7. Elements(<<m>>) = {m}
  BY DEF Elements
<1>8. QED
  BY <1>1, <1>3, <1>5, <1>6, <1>7, ElementsNone DEF TypeOK, m

LEMMA InitFresh == Init => Fresh
BY DEF Init, Fresh, Values

LEMMA RestartsFresh ==
  ASSUME TypeOK, Restarts
  PROVE  Fresh'
<1>1. count' \in [{"changes", "requests", "mishaps"} -> Nat]
  BY DEF TypeOK, RestOK, Restarts, Counts
<1>2. QED
  BY <1>1 DEF TypeOK, RestOK, Restarts, Fresh, tableVars

\* Every step, by what it does.
LEMMA StepsAre ==
  ASSUME TypeOK, [Next]_vars
  PROVE  \/ \E n \in Networks, s \in Values : AdminTakesNetwork(n, s)
         \/ \E n \in Networks, h \in Hubs : AdminTakesDeleteHub(n, h)
         \/ \E n \in Networks, h \in Hubs : AdminTakesRequest(n, h)
         \/ AdminTakesBatch
         \/ DbaTakesNetwork
         \/ DbaTakesHub
         \/ \E t \in {"insert", "remove"} : Says(t)
         \/ \E t \in {"insert", "remove"} : RunsStatement(t) \/ StatementFails(t)
         \/ Says("get")
         \/ RunsStatement("get") /\ CountsNetworks
         \/ RunsStatement("get") /\ ReadsNetworks
         \/ RunsStatement("get") /\ ReadsHubs
         \/ StatementFails("get")
         \/ Restarts
         \/ UNCHANGED vars
<1>1. CASE Next
  <2>1. CASE \E t \in Tasks : Says(t) \/ RunsStatement(t) \/ StatementFails(t)
    <3>1. PICK t \in Tasks : Says(t) \/ RunsStatement(t) \/ StatementFails(t)
      BY <2>1
    <3>2. CASE t \in {"insert", "remove"}
      BY <3>1, <3>2
    <3>3. CASE t = "get"
      <4>1. RunsStatement("get") => CountsNetworks \/ ReadsNetworks \/ ReadsHubs
        BY DEF RunsStatement
      <4>2. QED
        BY <3>1, <3>3, <4>1
    <3>4. QED
      BY <3>2, <3>3, Names
  <2>2. CASE ~\E t \in Tasks : Says(t) \/ RunsStatement(t) \/ StatementFails(t)
    BY <1>1, <2>2 DEF Next, Values
  <2>3. QED
    BY <2>1, <2>2
<1>2. CASE UNCHANGED vars
  BY <1>2
<1>3. QED
  BY <1>1, <1>2

LEMMA FreshTyped == Fresh => TypeOK
BY FreshIs

LEMMA RestartsTyped ==
  ASSUME TypeOK, Restarts
  PROVE  TypeOK'
<1>1. Fresh'
  BY RestartsFresh
<1>2. QED
  BY <1>1, FreshTyped, PTL

LEMMA StepTyped ==
  ASSUME TypeOK, [Next]_vars
  PROVE  TypeOK'
<1>1. CASE UNCHANGED vars
  BY <1>1 DEF TypeOK, QueueOK, RestOK, vars, tableVars, historyVars
<1>2. QED
  BY StepsAre, ChangeIs, DeleteHubIs, RequestIs, BatchIs, DbaNetworkIs, DbaHubIs,
     SaysOutcomeIs, TaskIs, SaysBatchIs, CountsIs, ReadsNetworksIs, ReadsHubsIs,
     ReadFailsIs, RestartsTyped, <1>1

\* The types, of which the queues say what each channel may carry and that a
\* task goes through one command at a time.
THEOREM TypeCorrect == Spec => []TypeOK
<1>1. Init => TypeOK
  BY InitFresh, FreshTyped
<1>2. TypeOK /\ [Next]_vars => TypeOK'
  BY StepTyped
<1>3. QED
  BY <1>1, <1>2, PTL DEF Spec
-----------------------------------------------------------------------------
(* The hubs.                                                               *)

\* A hub that is inserted is a hub of the program.
LEMMA HubsTyped ==
  ASSUME TypeOK
  PROVE  /\ \A m \in Elements(queue["hubs"]) :
              m.do = "Insert" => m.net \in Networks /\ m.hub \in Hubs
         /\ \A m \in Elements(queue["insert"]) :
              m.do \in {"InsertHub", "insert_hub"} => m.net \in Networks /\ m.hub \in Hubs
<1>1. /\ Elements(queue["hubs"]) \subseteq HubChanges
      /\ Elements(queue["insert"]) \subseteq
           Inserts \cup HubMsgs({"insert_hub"}) \cup Sayings(Updates)
  BY QueueIs, Queues, Names DEF TypeOK
<1>2. ASSUME NEW m \in HubChanges, m.do = "Insert"
      PROVE  m.net \in Networks /\ m.hub \in Hubs
  BY <1>2, Kinds DEF HubMsgs
<1>3. ASSUME NEW m \in Inserts \cup HubMsgs({"insert_hub"}) \cup Sayings(Updates),
             m.do \in {"InsertHub", "insert_hub"}
      PROVE  m.net \in Networks /\ m.hub \in Hubs
  <2>1. m \in HubMsgs({"InsertHub"}) \/ m \in HubMsgs({"insert_hub"})
    BY <1>3, Kinds
  <2>2. QED
    BY <2>1 DEF HubMsgs
<1>4. QED
  BY <1>1, <1>2, <1>3

\* What a step has to respect.
LEMMA HubInvKept ==
  ASSUME TypeOK, HubInv,
         \A n \in Networks, h \in Hubs : Known(n, h) => Known(n, h)',
         \A m \in Elements(queue'["hubs"]) \ Elements(queue["hubs"]) :
           m.do = "Insert" => Known(m.net, m.hub)',
         \A m \in Elements(queue'["insert"]) \ Elements(queue["insert"]) :
           m.do \in {"InsertHub", "insert_hub"} => Known(m.net, m.hub)',
         \A h \in Hubs \ unread', n \in Networks :
           hubTable'[h] = n =>
             \/ Known(n, h)'
             \/ /\ h \notin unread /\ hubTable[h] = n
                /\ BringsHub(n, h) => BringsHub(n, h)' \/ Known(n, h)'
  PROVE  HubInv'
<1>1. Entered'
  <2>1. \A m \in Elements(queue'["hubs"]) : m.do = "Insert" => Known(m.net, m.hub)'
    BY HubsTyped DEF HubInv, Entered
  <2>2. \A m \in Elements(queue'["insert"]) :
          m.do \in {"InsertHub", "insert_hub"} => Known(m.net, m.hub)'
    BY HubsTyped DEF HubInv, Entered
  <2>3. QED
    BY <2>1, <2>2 DEF Entered, Known
<1>2. ASSUME NEW h \in Hubs \ unread', NEW n \in Networks, hubTable'[h] = n
      PROVE  Known(n, h)' \/ BringsHub(n, h)'
  BY <1>2 DEF HubInv
<1>3. QED
  BY <1>1, <1>2 DEF HubInv

\* Steps that change nothing of the hubs.
LEMMA HubInvStays ==
  ASSUME TypeOK, HubInv, UNCHANGED <<hubs, hubTable, dismissed, unread>>,
         Elements(queue'["hubs"]) \subseteq Elements(queue["hubs"]),
         \A m \in Elements(queue'["insert"]) \ Elements(queue["insert"]) :
           m.do \notin {"InsertHub", "insert_hub"},
         \A n \in Networks, h \in Hubs : BringsHub(n, h) => BringsHub(n, h)'
  PROVE  HubInv'
<1>1. \A n, h : Known(n, h) <=> Known(n, h)'
  BY DEF Known
<1>2. QED
  BY <1>1, HubInvKept

LEMMA HubTyped ==
  ASSUME TypeOK
  PROVE  /\ hubs \in [Networks -> SUBSET Hubs]
         /\ hubTable \in [Hubs -> Networks \cup {NoNet}]
         /\ \A h \in Hubs, n \in Networks : hubTable[h] = n => h \in StoredHubs
BY NamesAssumption DEF TypeOK, RestOK, StoredHubs

LEMMA FreshHubs == Fresh => HubInv
<1> SUFFICES ASSUME Fresh PROVE HubInv
  OBVIOUS
<1>1. /\ Elements(queue["hubs"]) = {} /\ Elements(queue["insert"]) = {}
      /\ Elements(queue["get"]) = {[do |-> "GetTotalOfNetworks"]}
  BY FreshIs, Names
<1>2. \A n, h : BringsHub(n, h)
  BY <1>1 DEF BringsHub
<1>3. QED
  BY <1>1, <1>2 DEF HubInv, Entered

LEMMA HubsStep ==
  ASSUME TypeOK, HubInv, [Next]_vars
  PROVE  HubInv'
<1>1. ASSUME NEW n \in Networks, NEW s \in Values, AdminTakesNetwork(n, s)
      PROVE  HubInv'
  <2>1. \A r \in {"hubs", "insert", "get", "batch"} : queue'[r] = queue[r]
    BY <1>1, ChangeIs, Names DEF Others
  <2>2. UNCHANGED <<hubs, hubTable, dismissed, unread>>
    BY <1>1, ChangeIs DEF tableVars
  <2>3. QED
    BY <2>1, <2>2, HubInvStays DEF BringsHub
<1>2. ASSUME NEW n \in Networks, NEW h \in Hubs, AdminTakesDeleteHub(n, h)
      PROVE  HubInv'
  <2>1. PICK m \in HubChanges :
          Appended("hubs", m) /\ Others({"hubs"}) /\ m.do = "Delete"
    BY <1>2, DeleteHubIs
  <2>2. /\ \A r \in {"insert", "get", "batch"} : queue'[r] = queue[r]
        /\ Elements(queue'["hubs"]) = Elements(queue["hubs"]) \cup {m}
    BY <2>1, Names DEF Others, Appended
  <2>3. /\ hubs' = [hubs EXCEPT ![n] = @ \ {h}] /\ dismissed' = dismissed \cup {<<n, h>>}
        /\ UNCHANGED <<hubTable, unread>>
    BY <1>2, DeleteHubIs DEF tableVars
  <2>4. \A x \in Networks, y \in Hubs : Known(x, y) => Known(x, y)'
    BY <2>3, HubTyped DEF Known
  <2>5. \A x \in Networks, y \in Hubs : BringsHub(x, y) => BringsHub(x, y)'
    BY <2>2 DEF BringsHub
  <2>6. QED
    BY <2>1, <2>2, <2>3, <2>4, <2>5, HubInvKept
<1>3. ASSUME NEW n \in Networks, NEW h \in Hubs, AdminTakesRequest(n, h)
      PROVE  HubInv'
  <2>1. PICK m \in HubChanges : /\ Appended("hubs", m) /\ Others({"hubs"})
                                /\ m.do = "Insert" /\ m.net = n /\ m.hub = h
    BY <1>3, RequestIs
  <2>2. /\ \A r \in {"insert", "get", "batch"} : queue'[r] = queue[r]
        /\ Elements(queue'["hubs"]) = Elements(queue["hubs"]) \cup {m}
    BY <2>1, Names DEF Others, Appended
  <2>3. /\ hubs' = [hubs EXCEPT ![n] = @ \cup {h}] /\ dismissed' = dismissed \ {<<n, h>>}
        /\ UNCHANGED <<hubTable, unread>>
    BY <1>3, RequestIs DEF tableVars
  <2>4. /\ \A x \in Networks, y \in Hubs : Known(x, y) => Known(x, y)'
        /\ Known(n, h)'
    BY <2>3, HubTyped DEF Known
  <2>5. \A x \in Networks, y \in Hubs : BringsHub(x, y) => BringsHub(x, y)'
    BY <2>2 DEF BringsHub
  <2>6. QED
    BY <2>1, <2>2, <2>3, <2>4, <2>5, HubInvKept
<1>4. ASSUME AdminTakesBatch
      PROVE  HubInv'
  <2> DEFINE b == Head(queue["batch"])
  <2>1. /\ \A r \in {"hubs", "insert", "get"} : queue'[r] = queue[r]
        /\ Elements(queue["batch"]) = {b} \cup Elements(queue'["batch"])
        /\ UNCHANGED <<hubTable, dismissed, unread>>
    BY <1>4, BatchIs, Names DEF Others, Dropped, tableVars, historyVars
  <2>2. \/ b.do = "BatchNetwork" /\ UNCHANGED hubs
        \/ b.do = "BatchHub" /\ hubs' = [n \in Networks |-> hubs[n] \cup {h \in Hubs : b.rows[h] = n}]
    BY <1>4, BatchIs
  <2> HIDE DEF b
  <2>3. \A x \in Networks, y \in Hubs : Known(x, y) => Known(x, y)'
    BY <2>1, <2>2, HubTyped DEF Known
  <2>4. ASSUME NEW x \in Networks, NEW y \in Hubs, BringsHub(x, y)
        PROVE  BringsHub(x, y)' \/ Known(x, y)'
    <3>1. CASE b.do = "BatchHub" /\ b.rows[y] = x
      BY <2>1, <2>2, <3>1 DEF Known
    <3>2. CASE ~(b.do = "BatchHub" /\ b.rows[y] = x)
      BY <2>1, <2>4, <3>2 DEF BringsHub
    <3>3. QED
      BY <3>1, <3>2
  <2>5. QED
    BY <2>1, <2>3, <2>4, HubInvKept
<1>5. CASE DbaTakesNetwork
  <2> DEFINE to == IF Head(queue["network"]).do = "Delete" THEN "remove" ELSE "insert"
  <2>1. PICK m : NetworkPassed(to, m)
    BY <1>5, DbaNetworkIs
  <2>2. Others({"network", to}) /\ UNCHANGED <<hubs, hubTable, dismissed, unread>>
    BY <1>5, DbaNetworkIs DEF tableVars, historyVars
  <2>3. to \in {"insert", "remove"}
    OBVIOUS
  <2> HIDE DEF to
  <2>4. \A r \in {"hubs", "get", "batch"} : queue'[r] = queue[r]
    BY <2>2, <2>3, Names DEF Others
  <2>5. \A x \in Elements(queue'["insert"]) \ Elements(queue["insert"]) :
          x.do \notin {"InsertHub", "insert_hub"}
    <3>1. CASE to = "insert"
      BY <2>1, <3>1 DEF NetworkPassed, Statements
    <3>2. CASE to = "remove"
      BY <2>2, <3>2, Names DEF Others
    <3>3. QED
      BY <2>3, <3>1, <3>2
  <2>6. QED
    BY <2>2, <2>4, <2>5, HubInvStays DEF BringsHub
<1>6. CASE DbaTakesHub
  <2> DEFINE h == Head(queue["hubs"])
  <2>1. /\ UNCHANGED <<hubs, hubTable, dismissed, unread>>
        /\ Elements(queue["hubs"]) = {h} \cup Elements(queue'["hubs"])
    BY <1>6, DbaHubIs DEF tableVars, historyVars, Dropped
  <2>2. \A n, y : Known(n, y) <=> Known(n, y)'
    BY <2>1 DEF Known
  <2>3. /\ \A r \in {"get", "batch"} : queue'[r] = queue[r]
        /\ \A x \in Elements(queue'["insert"]) \ Elements(queue["insert"]) :
             h.do = "Insert" /\ x.net = h.net /\ x.hub = h.hub
    <3>1. CASE \E m : /\ Appended("insert", m) /\ Others({"hubs", "insert"})
                      /\ h.do = "Insert" /\ m.do = "InsertHub"
                      /\ m.net = h.net /\ m.hub = h.hub
      BY <3>1, Names DEF Others, Appended
    <3>2. CASE \E m : /\ Appended("remove", m) /\ Others({"hubs", "remove"})
                      /\ m.do = "DeleteHub"
      BY <3>2, Names DEF Others, Appended
    <3>3. QED
      BY <1>6, <3>1, <3>2, DbaHubIs
  <2> HIDE DEF h
  <2>4. h.do = "Insert" => Known(h.net, h.hub)
    BY <2>1 DEF HubInv, Entered
  <2>5. \A x \in Networks, y \in Hubs : BringsHub(x, y) => BringsHub(x, y)'
    BY <2>3 DEF BringsHub
  <2>6. QED
    BY <2>1, <2>2, <2>3, <2>4, <2>5, HubInvKept
<1>7. ASSUME NEW t \in {"insert", "remove"}, Says(t)
      PROVE  HubInv'
  <2>1. /\ UNCHANGED <<hubs, hubTable, dismissed, unread>>
        /\ Elements(queue'["insert"]) \subseteq Elements(queue["insert"])
        /\ \A r \in {"hubs", "get", "batch"} : queue'[r] = queue[r]
    BY <1>7, SaysOutcomeIs, Names DEF tableVars, historyVars, Dropped, Others
  <2>2. QED
    BY <2>1, HubInvStays DEF BringsHub
<1>8. ASSUME NEW t \in {"insert", "remove"}, RunsStatement(t) \/ StatementFails(t)
      PROVE  HubInv'
  <2> DEFINE j == Head(queue[t])
  <2>1. /\ UNCHANGED <<hubs, dismissed, unread>> /\ Others({t})
        /\ Carried(t) \/ HubDone(t)
    BY <1>8, TaskIs DEF historyVars
  <2>2. /\ \A r \in {"hubs", "get", "batch"} : queue'[r] = queue[r]
        /\ t = "remove" => queue'["insert"] = queue["insert"]
    BY <2>1, Names DEF Others
  <2>3. \A n, y : Known(n, y) <=> Known(n, y)'
    BY <2>1 DEF Known
  <2>4. CASE Carried(t)
    <3>1. PICK m : Swapped(t, m) /\ m.do = "say" /\ UNCHANGED hubTable
      BY <2>4, UpdatedIs DEF Carried
    <3>2. \A x \in Elements(queue'["insert"]) \ Elements(queue["insert"]) : x.do = "say"
      BY <2>2, <3>1 DEF Swapped
    <3>3. QED
      BY <2>1, <2>2, <3>1, <3>2, HubInvStays DEF BringsHub
  <2>5. CASE HubDone(t)
    <3>1. /\ \A h \in Hubs : \/ hubTable'[h] \in {hubTable[h], NoNet}
                             \/ j.do = "insert_hub" /\ j.hub = h /\ hubTable'[h] = j.net
          /\ \/ Dropped(t)
             \/ /\ j.do = "InsertHub"
                /\ \E m : /\ Swapped(t, m)
                          /\ m.do = "insert_hub" /\ m.net = j.net /\ m.hub = j.hub
      BY <2>5 DEF HubDone
    <3>2. j \in Elements(queue[t])
      BY <3>1 DEF Dropped, Swapped
    <3>3. t = "remove" => j.do # "insert_hub"
      <4>1. queue[t] # <<>>
        BY <3>1 DEF Dropped, Swapped
      <4>2. QED
        BY <4>1, RemoveFirst
    <3>4. t = "insert" /\ j.do \in {"InsertHub", "insert_hub"} => Known(j.net, j.hub)
      BY <3>2 DEF HubInv, Entered
    <3>5. \A x \in Elements(queue'["insert"]) \ Elements(queue["insert"]) :
            t = "insert" /\ j.do = "InsertHub" /\ x.net = j.net /\ x.hub = j.hub
      <4>1. CASE t = "insert"
        BY <3>1, <4>1 DEF Dropped, Swapped
      <4>2. CASE t = "remove"
        BY <2>2, <4>2
      <4>3. QED
        BY <4>1, <4>2
    <3> HIDE DEF j
    <3>6. \A h \in Hubs \ unread', n \in Networks :
            hubTable'[h] = n => Known(n, h)' \/ (h \notin unread /\ hubTable[h] = n)
      BY <2>1, <2>3, <3>1, <3>3, <3>4, NamesAssumption
    <3>7. \A x \in Networks, y \in Hubs : BringsHub(x, y) => BringsHub(x, y)'
      BY <2>2 DEF BringsHub
    <3>8. QED
      BY <2>2, <2>3, <3>4, <3>5, <3>6, <3>7, HubInvKept
  <2>6. QED
    BY <2>1, <2>4, <2>5
<1>9. CASE Says("get")
  <2> DEFINE m == Head(queue["get"])
  <2>1. /\ UNCHANGED <<hubs, hubTable, dismissed, unread>>
        /\ \A r \in {"hubs", "insert"} : queue'[r] = queue[r]
        /\ m.do = "say"
        /\ Elements(queue["get"]) = {m} \cup Elements(queue'["get"])
        /\ Elements(queue'["batch"]) = Elements(queue["batch"]) \cup {m.what}
    BY <1>9, SaysBatchIs, Names DEF tableVars, historyVars, Dropped, Appended, Others
  <2> HIDE DEF m
  <2>2. \A x \in Networks, y \in Hubs : BringsHub(x, y) => BringsHub(x, y)'
    BY <2>1 DEF BringsHub, SaysBatch
  <2>3. QED
    BY <2>1, <2>2, HubInvStays
<1>10. CASE RunsStatement("get") /\ CountsNetworks
  <2>1. /\ UNCHANGED <<hubs, hubTable, dismissed>>
        /\ \A r \in {"hubs", "insert", "batch"} : queue'[r] = queue[r]
    BY <1>10, CountsIs, Names DEF tableVars, Others
  <2>2. CASE unread' = StoredHubs
    <3>1. \A n, y : Known(n, y) <=> Known(n, y)'
      BY <2>1 DEF Known
    <3>2. \A h \in Hubs \ unread', n \in Networks : hubTable'[h] # n
      BY <2>1, <2>2, HubTyped
    <3>3. QED
      BY <2>1, <3>1, <3>2, HubInvKept
  <2>3. CASE /\ UNCHANGED unread
             /\ \E a, b : /\ a.do = "get_all_network" /\ b.do = "get_all_hubs"
                          /\ Elements(queue'["get"]) = {a, b} \cup Elements(Tail(queue["get"]))
    <3>1. \A x, y : BringsHub(x, y)'
      BY <2>3 DEF BringsHub
    <3>2. QED
      BY <2>1, <2>3, <3>1, HubInvStays
  <2>4. QED
    BY <1>10, <2>2, <2>3, CountsIs
<1>11. CASE RunsStatement("get") /\ ReadsNetworks
  <2>1. /\ UNCHANGED <<hubs, hubTable, dismissed, unread>>
        /\ \A r \in {"hubs", "insert", "batch"} : queue'[r] = queue[r]
        /\ Head(queue["get"]).do = "get_all_network"
        /\ \E m : Swapped("get", m)
    BY <1>11, ReadsNetworksIs, Names DEF tableVars, historyVars, Others
  <2>2. \A x \in Elements(queue["get"]) :
          x.do = "get_all_network" \/ x \in Elements(queue'["get"])
    BY <2>1 DEF Swapped
  <2>3. \A x \in Networks, y \in Hubs : BringsHub(x, y) => BringsHub(x, y)'
    BY <2>1, <2>2 DEF BringsHub, SaysBatch
  <2>4. QED
    BY <2>1, <2>3, HubInvStays
<1>12. CASE RunsStatement("get") /\ ReadsHubs
  <2>1. /\ UNCHANGED <<hubs, hubTable, dismissed, unread>>
        /\ \A r \in {"hubs", "insert", "batch"} : queue'[r] = queue[r]
    BY <1>12, ReadsHubsIs, Names DEF tableVars, historyVars, Others
  <2>2. \A n, y : Known(n, y) <=> Known(n, y)'
    BY <2>1 DEF Known
  <2>3. CASE \A h \in Hubs : hubTable[h] = NoNet
    <3>1. \A h \in Hubs, n \in Networks : hubTable'[h] # n
      BY <2>1, <2>3, NamesAssumption
    <3>2. QED
      BY <2>1, <2>2, <3>1, HubInvKept
  <2>4. CASE \E m : /\ Swapped("get", m)
                    /\ SaysBatch(m, "BatchHub") /\ m.what.rows = hubTable
    <3>1. PICK m : m \in Elements(queue'["get"]) /\ SaysBatch(m, "BatchHub") /\ m.what.rows = hubTable
      BY <2>4 DEF Swapped
    <3>2. \A h \in Hubs, n \in Networks : hubTable'[h] = n => BringsHub(n, h)'
      BY <2>1, <3>1 DEF BringsHub
    <3>3. QED
      BY <2>1, <2>2, <3>2, HubInvKept
  <2>5. QED
    BY <1>12, <2>3, <2>4, ReadsHubsIs
<1>13. CASE StatementFails("get")
  <2> DEFINE j == Head(queue["get"])
  <2>1. /\ UNCHANGED <<hubs, hubTable, dismissed>>
        /\ \A r \in {"hubs", "insert", "batch"} : queue'[r] = queue[r]
        /\ j.do \in {"GetTotalOfNetworks", "get_all_network", "get_all_hubs"}
        /\ unread' = IF j.do \in {"GetTotalOfNetworks", "get_all_hubs"}
                     THEN StoredHubs ELSE unread
        /\ Elements(queue["get"]) = {j} \cup Elements(queue'["get"])
    BY <1>13, ReadFailsIs, Names DEF tableVars, Others, Dropped
  <2> HIDE DEF j
  <2>2. CASE unread' = StoredHubs
    <3>1. \A n, y : Known(n, y) <=> Known(n, y)'
      BY <2>1 DEF Known
    <3>2. \A h \in Hubs \ unread', n \in Networks : hubTable'[h] # n
      BY <2>1, <2>2, HubTyped
    <3>3. QED
      BY <2>1, <3>1, <3>2, HubInvKept
  <2>3. CASE j.do = "get_all_network"
    <3>1. \A x \in Networks, y \in Hubs : BringsHub(x, y) => BringsHub(x, y)'
      BY <2>1, <2>3 DEF BringsHub, SaysBatch
    <3>2. QED
      BY <2>1, <2>3, <3>1, HubInvStays
  <2>4. QED
    BY <2>1, <2>2, <2>3
<1>14. CASE Restarts
  <2>1. Fresh'
    BY <1>14, RestartsFresh
  <2>2. QED
    BY <2>1, FreshHubs, PTL
<1>15. CASE UNCHANGED vars
  BY <1>15 DEF vars, tableVars, historyVars, HubInv, Entered, Known, BringsHub
<1>16. QED
  BY <1>1, <1>2, <1>3, <1>4, <1>5, <1>6, <1>7, <1>8, <1>9, <1>10, <1>11, <1>12, <1>13,
     <1>14, <1>15, StepsAre

\* A hub the database knows is one the quorums count, from the end of the start
\* on: nothing of it is on its way then.
LEMMA HubsCounted ==
  ASSUME TypeOK, HubInv
  PROVE  StoredHubsAreCounted
<1> SUFFICES ASSUME ~Loading, NEW h \in Hubs \ unread, NEW n \in Networks,
                    hubTable[h] = n, <<n, h>> \notin dismissed
             PROVE  h \in hubs[n]
  BY DEF StoredHubsAreCounted
<1>1. ~BringsHub(n, h)
  BY ElementsNone DEF Loading, BringsHub
<1>2. QED
  BY <1>1 DEF HubInv, Known

\* Stored hubs are in the cache, for all networks and hubs, whatever the order of
\* requests, changes of networks, failed statements - those of the start included -
\* and restarts.
THEOREM StoredHubsAreCountedHolds == Spec => []StoredHubsAreCounted
<1>1. Init => TypeOK /\ HubInv
  BY InitFresh, FreshTyped, FreshHubs
<1>2. TypeOK /\ HubInv /\ [Next]_vars => TypeOK' /\ HubInv'
  BY StepTyped, HubsStep
<1>3. TypeOK /\ HubInv => StoredHubsAreCounted
  BY HubsCounted
<1>4. QED
  BY <1>1, <1>2, <1>3, PTL DEF Spec
-----------------------------------------------------------------------------
(* The networks.                                                           *)

NetInv == OrderInv /\ StartInv /\ CacheInv

\* What is in the three queues: what a task says is the first of its queue.
LEMMA NetworkQueues ==
  ASSUME TypeOK
  PROVE  /\ \A m \in Elements(queue["network"]) :
              /\ m.do \in {"Insert", "Update", "Delete"}
              /\ \A n : Carries(m, n) <=> m.net = n
         /\ \A t \in {"insert", "remove"} : \A m \in Elements(queue[t]) :
              \A n : Carries(m, n) <=> OfNetwork(m, n)
         /\ \A t \in {"insert", "remove"} :
              queue[t] # <<>> => \A m \in Elements(Tail(queue[t])) : m.do # "say"
<1>1. ASSUME NEW m \in Elements(queue["network"])
      PROVE  /\ m.do \in {"Insert", "Update", "Delete"}
             /\ \A n : Carries(m, n) <=> m.net = n
  <2>1. m \in NetworkMsgs
    BY QueueIs, Queues, Names DEF TypeOK
  <2>2. QED
    BY <2>1, Kinds, CarriesIs
<1>2. ASSUME NEW t \in {"insert", "remove"}, NEW m \in Elements(queue[t])
      PROVE  \A n : Carries(m, n) <=> OfNetwork(m, n)
  <2>1. m \in Firsts(t)
    BY QueueIs, Names DEF TypeOK
  <2>2. \/ m \in Inserts \/ m \in Removes
        \/ m \in HubMsgs({"insert_hub"}) \/ m \in Sayings(Updates)
    BY <2>1, Queues
  <2>3. m.do \notin {"Insert", "Update", "Delete"}
    BY <2>2, Kinds
  <2>4. QED
    BY <2>3, CarriesIs
<1>3. ASSUME NEW t \in {"insert", "remove"}, queue[t] # <<>>, NEW m \in Elements(Tail(queue[t]))
      PROVE  m.do # "say"
  <2>1. m \in Waits(t)
    BY <1>3, QueueIs, Names DEF TypeOK
  <2>2. m \in Inserts \/ m \in Removes
    BY <2>1, Queues
  <2>3. QED
    BY <2>2, Kinds
<1>4. QED
  BY <1>1, <1>2, <1>3

\* A network changes while one of the three queues has something of it.
ChangesAreThere ==
    \A n : /\ Changing(n) <=> \/ Has(queue["network"], n)
                              \/ Has(queue["insert"], n) \/ Has(queue["remove"], n)
           /\ Has(queue["insert"], n) => Sets(n)
           /\ Has(queue["remove"], n) => Deletes(n)
LEMMA ChangingIs == TypeOK => ChangesAreThere
BY NetworkQueues DEF ChangesAreThere, Changing, Sets, Deletes, Has

\* Unless it is crossed, one queue of the two has something of it, and what is
\* behind goes to the same.
LEMMA OneSide ==
  ASSUME TypeOK, NEW n, Apart(n), NEW t \in {"insert", "remove"}, NEW u \in {"insert", "remove"},
         t # u
  PROVE  /\ Has(queue[t], n) => ~Has(queue[u], n)
         /\ queue["network"] # <<>> /\ Head(queue["network"]).net = n =>
              ~Has(queue[IF Head(queue["network"]).do = "Delete" THEN "insert" ELSE "remove"], n)
<1>1. Has(queue[t], n) => ~Has(queue[u], n)
  BY ChangingIs DEF ChangesAreThere, Apart
<1>2. ASSUME queue["network"] # <<>>, Head(queue["network"]).net = n
      PROVE  ~Has(queue[IF Head(queue["network"]).do = "Delete" THEN "insert" ELSE "remove"], n)
  <2> DEFINE h == Head(queue["network"])
  <2>1. h \in Elements(queue["network"])
    BY <1>2, QueueIs, Names DEF TypeOK
  <2>2. IF h.do = "Delete" THEN Deletes(n) ELSE Sets(n)
    BY <1>2, <2>1 DEF Sets, Deletes
  <2>3. QED
    BY <2>2, ChangingIs DEF ChangesAreThere, Apart
<1>3. QED
  BY <1>1, <1>2

\* With nothing under way about it the newest fits.
LEMMA NothingFits ==
  ASSUME NEW n, TypeOK', ~Changing(n)', networks'[n] = table'[n] \/ Loading'
  PROVE  NewestFits(n)'
<1>1. \A r \in {"network", "insert", "remove"} : ~Has(queue'[r], n)
  <2>1. ChangesAreThere'
    BY ChangingIs, PTL
  <2>2. QED
    BY <2>1 DEF ChangesAreThere
<1>2. \A r \in {"network", "insert", "remove"} : Newest(queue'[r], n) = {}
  BY <1>1, NewestIn DEF Has
<1>3. QED
  BY <1>2 DEF NewestFits

\* A network of which nothing happens during the start.
LEMMA StartKept ==
  ASSUME NEW n, Start(n), Changing(n)' => Changing(n),
         queue'["get"] = queue["get"], queue'["batch"] = queue["batch"],
         (networks'[n] = networks[n] /\ table'[n] = table[n]) \/ Changing(n)
  PROVE  Start(n)'
BY DEF Start, Loading, Awaits, RowIsCurrent, BringsNetworks

\* Steps that change nothing of the networks.
LEMMA NetStays ==
  ASSUME TypeOK, NetInv, UNCHANGED <<networks, table, reply, astray, crossed>>,
         queue'["network"] = queue["network"],
         queue'["get"] = queue["get"], queue'["batch"] = queue["batch"],
         \A t \in {"insert", "remove"} : \A n :
           /\ Newest(queue'[t], n) \subseteq Newest(queue[t], n)
           /\ \A m : OfNetwork(m, n) =>
                (m \in Elements(queue'[t]) <=> m \in Elements(queue[t]))
  PROVE  NetInv'
<1>1. \A n : /\ Sets(n)' <=> Sets(n)
             /\ Deletes(n)' <=> Deletes(n)
  BY DEF Sets, Deletes
<1>2. \A n : /\ Changing(n)' <=> Changing(n)
             /\ Apart(n)' <=> Apart(n)
  BY <1>1 DEF Changing, Apart
<1>3. \A m, n : m.do = "say" /\ m.what.net = n =>
        \A t \in {"insert", "remove"} :
          m \in Elements(queue'[t]) <=> m \in Elements(queue[t])
  BY DEF OfNetwork
<1>4. \A n : Told(n) => Told(n)'
  BY <1>3 DEF Told, Answering
<1>5. \A n : Start(n) => Start(n)'
  BY <1>2, StartKept
<1>6. \A n : NewestFits(n) => NewestFits(n)'
  BY <1>2 DEF NewestFits, Fits, Has, Loading
<1>7. QED
  BY <1>2, <1>4, <1>5, <1>6 DEF NetInv, OrderInv, StartInv, CacheInv

LEMMA FreshNetworks == Fresh => NetInv
<1> SUFFICES ASSUME Fresh PROVE NetInv
  OBVIOUS
<1>1. /\ \A r \in {"network", "insert", "remove", "batch"} : Elements(queue[r]) = {}
      /\ Elements(queue["get"]) = {[do |-> "GetTotalOfNetworks"]}
      /\ \A n \in Networks : networks[n] = Absent /\ reply[n] = 0
      /\ TypeOK
  BY FreshIs, Names
<1>2. Loading
  BY <1>1, ElementsNone DEF Loading
<1>3. ASSUME NEW n
      PROVE  ~Sets(n) /\ ~Deletes(n) /\ ~Changing(n) /\ ~Answering(n)
  BY <1>1 DEF Sets, Deletes, Changing, Answering
<1>4. ASSUME NEW n \in Networks
      PROVE  Apart(n) /\ Told(n)
  <2>1. Tells(0, table[n])
    BY DEF Tells
  <2>2. QED
    BY <1>1, <1>3, <2>1 DEF Apart, Told
<1>5. ASSUME NEW n \in Networks
      PROVE  Start(n)
  <2>1. BringsNetworks
    BY <1>1 DEF BringsNetworks
  <2>2. RowIsCurrent(n)
    BY <1>1 DEF RowIsCurrent, SaysBatch
  <2>3. QED
    BY <1>1, <1>3, <2>1, <2>2 DEF Start, Awaits
<1>6. ASSUME NEW n \in Networks
      PROVE  NewestFits(n)
  <2>1. \A r \in {"network", "insert", "remove"} : Newest(queue[r], n) = {}
    BY <1>1, NewestIn
  <2>2. QED
    BY <1>2, <2>1 DEF NewestFits
<1>7. QED
  BY <1>4, <1>5, <1>6 DEF NetInv, OrderInv, StartInv, CacheInv

\* A change is passed on: the newest there is, and it fits.
LEMMA NetChange ==
  ASSUME TypeOK, NetInv, NEW k \in Networks, NEW s \in Values, AdminTakesNetwork(k, s)
  PROVE  NetInv'
<1> DEFINE action == NetworkAction(k, s)
<1>1. PICK m \in NetworkMsgs : /\ Appended("network", m) /\ Others({"network"})
                               /\ m.net = k /\ m.set = s /\ m.do = action
  BY ChangeIs
<1>2. /\ networks' = [networks EXCEPT ![k] = s] /\ UNCHANGED <<table, reply>>
      /\ astray' = IF Loading THEN astray \cup {k} ELSE astray \ {k}
      /\ crossed' = IF IF action = "Delete" THEN Sets(k) ELSE Deletes(k)
                    THEN crossed \cup {k} ELSE crossed
      /\ networks \in [Networks -> Values]
  BY ChangeIs DEF Notes, tableVars, TypeOK, RestOK
<1> HIDE DEF action
<1>3. /\ \A r \in {"insert", "remove", "get", "batch"} : queue'[r] = queue[r]
      /\ Elements(queue'["network"]) = Elements(queue["network"]) \cup {m}
      /\ \A n : Newest(queue'["network"], n) = IF Carries(m, n) THEN {m}
                                               ELSE Newest(queue["network"], n)
      /\ \A n : Carries(m, n) <=> m.net = n
  BY <1>1, CarriesIs, Names DEF Others, Appended
<1>4. /\ networks'[k] = s /\ \A n \in Networks \ {k} : networks'[n] = networks[n]
      /\ Loading' <=> Loading
      /\ \A n : Answering(n)' <=> Answering(n)
  BY <1>2, <1>3 DEF Loading, Answering
<1>5. ASSUME NEW n \in Networks \ {k}
      PROVE  (Sets(n)' <=> Sets(n)) /\ (Deletes(n)' <=> Deletes(n))
               /\ (Changing(n)' <=> Changing(n))
  <2>1. (Sets(n)' <=> Sets(n)) /\ (Deletes(n)' <=> Deletes(n))
    BY <1>1, <1>3 DEF Sets, Deletes
  <2>2. QED
    BY <2>1 DEF Changing
<1>6. \A n : Told(n) => Told(n)'
  BY <1>2, <1>3, <1>4 DEF Told
<1>7. ASSUME NEW n \in Networks \ crossed'
      PROVE  Apart(n)' /\ Told(n)'
  <2>1. n \in Networks \ crossed /\ Apart(n) /\ Told(n)
    BY <1>2 DEF NetInv, OrderInv
  <2>2. CASE n # k
    BY <1>5, <1>6, <2>1, <2>2 DEF Apart
  <2>3. CASE n = k
    <3>1. CASE action = "Delete"
      <4>1. ~Sets(k) /\ (Sets(k)' => Sets(k))
        BY <1>1, <1>2, <1>3, <2>3, <3>1 DEF Sets
      <4>2. QED
        BY <1>6, <2>1, <2>3, <4>1 DEF Apart
    <3>2. CASE action # "Delete"
      <4>1. ~Deletes(k) /\ (Deletes(k)' => Deletes(k))
        BY <1>1, <1>2, <1>3, <2>3, <3>2 DEF Deletes
      <4>2. QED
        BY <1>6, <2>1, <2>3, <4>1 DEF Apart
    <3>3. QED
      BY <3>1, <3>2
  <2>4. QED
    BY <2>2, <2>3
<1>8. ASSUME NEW n \in Networks \ astray'
      PROVE  Start(n)'
  <2>1. CASE n # k
    <3>1. Start(n)
      BY <1>2, <2>1 DEF NetInv, StartInv
    <3>2. QED
      BY <1>2, <1>3, <1>4, <1>5, <2>1, <3>1, StartKept
  <2>2. CASE n = k
    <3>1. ~Loading'
      BY <1>2, <1>4, <2>2
    <3>2. QED
      BY <3>1 DEF Start
  <2>3. QED
    BY <2>1, <2>2
<1>9. ASSUME NEW n \in Networks \ (crossed' \cup astray')
      PROVE  NewestFits(n)'
  <2>1. CASE n # k
    <3>1. NewestFits(n)
      BY <1>2, <2>1 DEF NetInv, CacheInv
    <3>2. ~Carries(m, n) /\ networks'[n] = networks[n]
      BY <1>1, <1>3, <1>4, <2>1
    <3>3. Has(queue'["network"], n) <=> Has(queue["network"], n)
      BY <1>3, <3>2 DEF Has
    <3>4. \A x : Fits(x, n)' <=> Fits(x, n)
      BY <1>2, <3>2 DEF Fits
    <3>5. QED
      BY <1>2, <1>3, <1>4, <1>5, <2>1, <3>1, <3>2, <3>3, <3>4 DEF NewestFits
  <2>2. CASE n = k
    <3>1. Carries(m, n) /\ m.do # "say"
      BY <1>1, <1>3, <2>2, Kinds
    <3>2. Fits(m, n)'
      BY <1>1, <1>4, <2>2, <3>1 DEF Fits
    <3>3. Has(queue'["network"], n)
      BY <1>3, <3>1 DEF Has
    <3>4. Changing(n)'
      BY <1>1, <1>3, <2>2 DEF Changing, Sets, Deletes
    <3>5. QED
      BY <1>3, <3>1, <3>2, <3>3, <3>4 DEF NewestFits
  <2>3. QED
    BY <2>1, <2>2
<1>10. QED
  BY <1>7, <1>8, <1>9 DEF NetInv, OrderInv, StartInv, CacheInv

\* A change goes to its task.
LEMMA NetPassed ==
  ASSUME TypeOK, NetInv, DbaTakesNetwork
  PROVE  NetInv'
<1> DEFINE h == Head(queue["network"])
           to == IF h.do = "Delete" THEN "remove" ELSE "insert"
           other == IF h.do = "Delete" THEN "insert" ELSE "remove"
<1>1. PICK m : NetworkPassed(to, m)
  BY DbaNetworkIs
<1>2. /\ Dropped("network") /\ Others({"network", to})
      /\ UNCHANGED <<networks, table, reply, astray, crossed>>
  BY DbaNetworkIs DEF tableVars, historyVars
<1>3. queue["network"] # <<>> /\ h \in Elements(queue["network"])
  BY <1>2 DEF Dropped
<1>4. PICK x : /\ x.do = "DeleteAllHubByNetwork"
               /\ Elements(queue'[to]) \in {Elements(queue[to]) \cup {m},
                                            Elements(queue[to]) \cup {m, x}}
  BY <1>1 DEF NetworkPassed
<1>5. /\ m.do \in Statements /\ m.net = h.net /\ m.set = h.set
      /\ \A n : Newest(queue'[to], n) = IF Carries(m, n) THEN {m} ELSE Newest(queue[to], n)
  BY <1>1 DEF NetworkPassed
<1>6. /\ h.do \in {"Insert", "Update", "Delete"}
      /\ \A n : Carries(h, n) <=> h.net = n
      /\ \A n : Carries(m, n) <=> h.net = n
      /\ \A n : OfNetwork(m, n) <=> h.net = n
      /\ \A n : ~OfNetwork(x, n)
      /\ m.do # "say"
  BY <1>3, <1>4, <1>5, NetworkQueues, CarriesIs DEF Statements, OfNetwork
<1>7. /\ Elements(queue["network"]) = {h} \cup Elements(queue'["network"])
      /\ \A n : /\ Newest(queue'["network"], n) \subseteq Newest(queue["network"], n)
                /\ Carries(h, n) /\ ~Has(queue'["network"], n) => h \in Newest(queue["network"], n)
  BY <1>2 DEF Dropped
<1>8. /\ to \in {"insert", "remove"} /\ other \in {"insert", "remove"} /\ to # other
      /\ to = "remove" <=> h.do = "Delete"
  OBVIOUS
<1> HIDE DEF to
<1>9. /\ queue'[other] = queue[other]
      /\ queue'["get"] = queue["get"] /\ queue'["batch"] = queue["batch"]
  BY <1>2, <1>8, Names DEF Others
<1>10. \A n : ~Has(queue[other], n) \/ ~Apart(n) \/ h.net # n
  BY <1>3, <1>8, OneSide
<1> HIDE DEF h, other
<1>11. /\ Elements(queue["insert"]) \subseteq Elements(queue'["insert"])
       /\ Elements(queue["remove"]) \subseteq Elements(queue'["remove"])
       /\ \A y \in Elements(queue'["insert"]) : y \in Elements(queue["insert"]) \/ (y \in {m, x} /\ to = "insert")
       /\ \A y \in Elements(queue'["remove"]) : y \in Elements(queue["remove"]) \/ (y \in {m, x} /\ to = "remove")
       /\ m \in Elements(queue'[to])
  BY <1>4, <1>8, <1>9
<1>12. ASSUME NEW n
       PROVE  /\ Sets(n)' => Sets(n)
              /\ Deletes(n)' => Deletes(n)
              /\ Changing(n)' <=> Changing(n)
  <2>1. Sets(n)' => Sets(n)
    BY <1>3, <1>6, <1>7, <1>8, <1>11 DEF Sets
  <2>2. Deletes(n)' => Deletes(n)
    BY <1>3, <1>6, <1>7, <1>8, <1>11 DEF Deletes
  <2>3. Changing(n) => Changing(n)'
    <3>1. CASE h.net = n
      <4>1. OfNetwork(m, n)
        BY <1>6, <3>1
      <4>2. QED
        BY <1>8, <1>11, <4>1 DEF Changing, Sets, Deletes
    <3>2. CASE h.net # n
      BY <1>7, <1>11, <3>2 DEF Changing, Sets, Deletes
    <3>3. QED
      BY <3>1, <3>2
  <2>4. QED
    BY <2>1, <2>2, <2>3 DEF Changing
<1>13. \A n : Apart(n) => Apart(n)'
  BY <1>12 DEF Apart
<1>14. \A y : y.do = "say" =>
          /\ y \in Elements(queue'["insert"]) <=> y \in Elements(queue["insert"])
          /\ y \in Elements(queue'["remove"]) <=> y \in Elements(queue["remove"])
  BY <1>4, <1>6, <1>11
<1>15. \A n : Told(n) => Told(n)'
  BY <1>2, <1>14 DEF Told, Answering
<1>16. \A n : Start(n) => Start(n)'
  BY <1>2, <1>9, <1>12, StartKept
<1>17. ASSUME NEW n, NewestFits(n), Apart(n)
       PROVE  NewestFits(n)'
  <2>1. \A y : Fits(y, n)' <=> Fits(y, n)
    BY <1>2 DEF Fits
  <2>2. \A y \in Newest(queue'["network"], n) : Fits(y, n)'
    BY <1>7, <1>17, <2>1 DEF NewestFits
  <2>3. ASSUME ~Has(queue'["network"], n),
               NEW y \in Newest(queue'["insert"], n) \cup Newest(queue'["remove"], n)
        PROVE  Fits(y, n)
    <3>1. y \in Newest(queue'[to], n) \/ y \in Newest(queue[other], n)
      BY <1>8, <1>9, <2>3
    <3>2. CASE h.net = n
      <4>1. h \in Newest(queue["network"], n)
        BY <1>6, <1>7, <2>3, <3>2
      <4>2. Fits(h, n)
        BY <1>17, <4>1 DEF NewestFits
      <4>3. Newest(queue[other], n) = {}
        BY <1>10, <1>17, <3>2, NewestIn DEF Has
      <4>4. y = m
        BY <1>5, <1>6, <3>1, <3>2, <4>3
      <4>5. QED
        BY <1>5, <1>6, <4>2, <4>4 DEF Fits
    <3>3. CASE h.net # n
      <4>1. ~Has(queue["network"], n)
        BY <1>6, <1>7, <2>3, <3>3 DEF Has
      <4>2. y \in Newest(queue["insert"], n) \cup Newest(queue["remove"], n)
        BY <1>5, <1>6, <1>8, <3>1, <3>3
      <4>3. QED
        BY <1>17, <4>1, <4>2 DEF NewestFits
    <3>4. QED
      BY <3>2, <3>3
  <2>4. ~Loading' /\ ~Changing(n)' => networks'[n] = table'[n] \/ reply'[n] \in Errors
    BY <1>2, <1>9, <1>12, <1>17 DEF NewestFits, Loading
  <2>5. QED
    BY <2>1, <2>2, <2>3, <2>4 DEF NewestFits
<1>18. QED
  BY <1>2, <1>13, <1>15, <1>16, <1>17 DEF NetInv, OrderInv, StartInv, CacheInv

\* The outcome goes to the server.
LEMMA NetSays ==
  ASSUME TypeOK, NetInv, NEW t \in {"insert", "remove"}, Says(t)
  PROVE  NetInv'
<1> DEFINE h == Head(queue[t])
           k == h.what.net
           u == IF t = "insert" THEN "remove" ELSE "insert"
<1>1. /\ Dropped(t) /\ Others({t}) /\ h.do = "say" /\ h.what \in Updates
      /\ reply' = [reply EXCEPT ![k] = h.what.code]
      /\ UNCHANGED <<networks, table, astray, crossed>>
      /\ reply \in [Networks -> Codes \cup Errors \cup {0}]
  BY SaysOutcomeIs DEF tableVars, historyVars, TypeOK, RestOK
<1>2. /\ queue[t] # <<>> /\ queue'[t] = Tail(queue[t])
      /\ Elements(queue[t]) = {h} \cup Elements(queue'[t])
      /\ \A n : /\ Newest(queue'[t], n) \subseteq Newest(queue[t], n)
                /\ Carries(h, n) /\ ~Has(queue'[t], n) => h \in Newest(queue[t], n)
  BY <1>1 DEF Dropped
<1>3. \A x \in Elements(queue'[t]) : x.do # "say"
  BY <1>2, NetworkQueues
<1>4. /\ k \in Networks
      /\ \A n : (Carries(h, n) <=> k = n) /\ (OfNetwork(h, n) <=> k = n)
  BY <1>1, CarriesIs DEF Updates, OfNetwork
<1>5. /\ reply'[k] = h.what.code /\ \A n \in Networks \ {k} : reply'[n] = reply[n]
  BY <1>1, <1>4
<1>6. /\ u \in {"insert", "remove"} /\ u # t /\ {"insert", "remove"} = {t, u}
      /\ queue'[u] = queue[u] /\ queue'["network"] = queue["network"]
      /\ queue'["get"] = queue["get"] /\ queue'["batch"] = queue["batch"]
  BY <1>1, Names DEF Others
<1> HIDE DEF h, k, u
<1>7. \A n : /\ Sets(n)' => Sets(n)
             /\ Deletes(n)' => Deletes(n)
             /\ Changing(n)' => Changing(n)
  BY <1>2, <1>6 DEF Sets, Deletes, Changing
<1>8. ASSUME NEW n \in Networks, n # k
      PROVE  Changing(n) => Changing(n)'
  BY <1>2, <1>4, <1>6, <1>8 DEF Sets, Deletes, Changing
<1>9. \A n : Apart(n) => Apart(n)'
  BY <1>7 DEF Apart
<1>10. ASSUME NEW n \in Networks, Apart(n), Told(n)
       PROVE  Told(n)'
  <2>1. CASE n = k
    <3>1. h \in Elements(queue[t])
      BY <1>2
    <3>2. Has(queue[t], n)
      BY <1>4, <2>1, <3>1 DEF Has
    <3>3. ~Has(queue[u], n)
      BY <1>6, <1>10, <3>2, OneSide
    <3>4. \A x \in Elements(queue[u]) : ~(x.do = "say" /\ x.what.net = n)
      BY <3>3 DEF Has, Carries, OfNetwork
    <3>5. \A x \in Elements(queue'["insert"]) \cup Elements(queue'["remove"]) :
             ~(x.do = "say" /\ x.what.net = n)
      BY <1>3, <1>6, <3>4
    <3>6. Tells(h.what.code, table[n])
      <4>1. h \in Elements(queue["insert"]) \cup Elements(queue["remove"])
        BY <3>1
      <4>2. h.what.net = n
        BY <2>1 DEF k
      <4>3. QED
        BY <1>1, <1>10, <4>1, <4>2 DEF Told
    <3>7. QED
      BY <1>1, <1>5, <2>1, <3>5, <3>6 DEF Told
  <2>2. CASE n # k
    <3>1. \A x : x.do = "say" /\ x.what.net = n =>
            (x \in Elements(queue'["insert"]) \cup Elements(queue'["remove"])
               <=> x \in Elements(queue["insert"]) \cup Elements(queue["remove"]))
      BY <1>2, <1>6, <2>2 DEF k
    <3>2. Answering(n)' <=> Answering(n)
      BY <3>1 DEF Answering
    <3>3. QED
      BY <1>1, <1>5, <1>10, <2>2, <3>1, <3>2 DEF Told
  <2>3. QED
    BY <2>1, <2>2
<1>11. \A n : Start(n) => Start(n)'
  BY <1>1, <1>6, <1>7, StartKept
<1>12. ASSUME NEW n \in Networks, NewestFits(n)
       PROVE  NewestFits(n)'
  <2>1. \A y : Fits(y, n)' <=> Fits(y, n)
    BY <1>1 DEF Fits
  <2>2. \A y \in Newest(queue'["network"], n) : Fits(y, n)'
    BY <1>6, <1>12, <2>1 DEF NewestFits
  <2>3. ~Has(queue'["network"], n) =>
          \A y \in Newest(queue'["insert"], n) \cup Newest(queue'["remove"], n) : Fits(y, n)'
    BY <1>2, <1>6, <1>12, <2>1 DEF NewestFits
  <2>4. ASSUME ~Loading', ~Changing(n)'
        PROVE  networks'[n] = table'[n] \/ reply'[n] \in Errors
    <3>1. ~Loading
      BY <1>6, <2>4 DEF Loading
    <3>2. CASE n # k
      BY <1>1, <1>5, <1>8, <1>12, <2>4, <3>1, <3>2 DEF NewestFits
    <3>3. CASE n = k
      <4>1. ChangesAreThere'
        <5>1. TypeOK'
          BY SaysOutcomeIs
        <5>2. QED
          BY <5>1, ChangingIs, PTL
      <4>2. ~Has(queue'["network"], n) /\ ~Has(queue'["insert"], n) /\ ~Has(queue'["remove"], n)
        BY <2>4, <4>1 DEF ChangesAreThere
      <4>3. h \in Newest(queue[t], n)
        BY <1>2, <1>4, <3>3, <4>2
      <4>4. Fits(h, n)
        BY <1>6, <1>12, <4>2, <4>3 DEF NewestFits
      <4>5. QED
        BY <1>1, <1>5, <3>3, <4>4 DEF Fits
    <3>4. QED
      BY <3>2, <3>3
  <2>5. QED
    BY <2>2, <2>3, <2>4 DEF NewestFits
<1>13. QED
  BY <1>1, <1>9, <1>10, <1>11, <1>12 DEF NetInv, OrderInv, StartInv, CacheInv

\* A task carries a change out, or fails to: there is no other task at work for
\* this network.
LEMMA NetCarried ==
  ASSUME TypeOK, NetInv, NEW t \in {"insert", "remove"}, Carried(t), Others({t}),
         UNCHANGED <<networks, reply, astray, crossed>>
  PROVE  NetInv'
<1> DEFINE j == Head(queue[t])
           k == j.net
           u == IF t = "insert" THEN "remove" ELSE "insert"
<1>1. /\ j.do \in Statements /\ k \in Networks
      /\ \A n \in Networks \ {k} : table'[n] = table[n]
  BY DEF Carried
<1>2. PICK c \in Codes \cup Errors : /\ Swapped(t, Updated(k, c)) /\ Tells(c, table'[k])
                                     /\ c \in Errors \/ table'[k] = j.set
  BY DEF Carried
<1> DEFINE m == Updated(k, c)
<1>3. m.do = "say" /\ m.what.net = k /\ m.what.code = c
  BY <1>1, UpdatedIs
<1>4. /\ queue[t] # <<>>
      /\ Elements(queue'[t]) = {m} \cup Elements(Tail(queue[t]))
      /\ Elements(queue[t]) = {j} \cup Elements(Tail(queue[t]))
      /\ \A n :
           /\ Newest(queue'[t], n) \subseteq
                Newest(queue[t], n) \cup
                  (IF Carries(m, n) /\ ~Has(Tail(queue[t]), n) THEN {m} ELSE {})
           /\ Carries(j, n) /\ ~Has(Tail(queue[t]), n) => j \in Newest(queue[t], n)
  BY <1>2 DEF Swapped
<1> HIDE DEF m
<1>5. \A x \in Elements(Tail(queue[t])) : x.do # "say"
  BY <1>4, NetworkQueues
<1>6. /\ j.do # "say"
      /\ \A n : (Carries(j, n) <=> k = n) /\ (OfNetwork(j, n) <=> k = n)
      /\ \A n : (Carries(m, n) <=> k = n) /\ (OfNetwork(m, n) <=> k = n)
  BY <1>1, <1>3, CarriesIs DEF Statements, OfNetwork
<1>7. /\ u \in {"insert", "remove"} /\ u # t /\ {"insert", "remove"} = {t, u}
      /\ queue'[u] = queue[u] /\ queue'["network"] = queue["network"]
      /\ queue'["get"] = queue["get"] /\ queue'["batch"] = queue["batch"]
  BY Names DEF Others
<1> HIDE DEF j, k, u
<1>8. \A n : /\ Sets(n)' <=> Sets(n)
             /\ Deletes(n)' <=> Deletes(n)
             /\ Changing(n)' <=> Changing(n)
  <2>1. \A n : (\E x \in Elements(queue'[t]) : OfNetwork(x, n))
                 <=> (\E x \in Elements(queue[t]) : OfNetwork(x, n))
    BY <1>4, <1>6
  <2>2. \A n : (Sets(n)' <=> Sets(n)) /\ (Deletes(n)' <=> Deletes(n))
    <3>1. CASE t = "insert"
      BY <1>7, <2>1, <3>1 DEF Sets, Deletes
    <3>2. CASE t = "remove"
      BY <1>7, <2>1, <3>2 DEF Sets, Deletes
    <3>3. QED
      BY <3>1, <3>2
  <2>3. QED
    BY <2>2 DEF Changing
<1>9. \A n : Apart(n) => Apart(n)'
  BY <1>8 DEF Apart
<1>10. Has(queue[t], k) /\ Changing(k)
  <2>1. Has(queue[t], k)
    BY <1>4, <1>6 DEF Has
  <2>2. QED
    BY <2>1, ChangingIs DEF ChangesAreThere
<1>11. Apart(k) => ~Has(queue[u], k)
  BY <1>7, <1>10, OneSide
<1>12. ASSUME NEW n \in Networks, Apart(n), Told(n)
       PROVE  Told(n)'
  <2>1. CASE n = k
    <3>1. \A x \in Elements(queue[u]) : ~(x.do = "say" /\ x.what.net = n)
      BY <1>11, <1>12, <2>1 DEF Has, Carries, OfNetwork
    <3>2. \A x \in Elements(queue'["insert"]) \cup Elements(queue'["remove"]) :
            x.do = "say" /\ x.what.net = n => x = m
      BY <1>4, <1>5, <1>7, <3>1
    <3>3. Answering(n)'
      <4>1. m \in Elements(queue'["insert"]) \cup Elements(queue'["remove"])
        BY <1>4
      <4>2. QED
        BY <1>3, <2>1, <4>1 DEF Answering
    <3>4. QED
      BY <1>2, <1>3, <2>1, <3>2, <3>3 DEF Told
  <2>2. CASE n # k
    <3>1. \A x : x.do = "say" /\ x.what.net = n =>
            (x \in Elements(queue'["insert"]) \cup Elements(queue'["remove"])
               <=> x \in Elements(queue["insert"]) \cup Elements(queue["remove"]))
      BY <1>3, <1>4, <1>6, <1>7, <2>2
    <3>2. Answering(n)' <=> Answering(n)
      BY <3>1 DEF Answering
    <3>3. QED
      BY <1>1, <1>12, <2>2, <3>1, <3>2 DEF Told
  <2>3. QED
    BY <2>1, <2>2
<1>13. ASSUME NEW n \in Networks, Start(n)
       PROVE  Start(n)'
  <2>1. (networks'[n] = networks[n] /\ table'[n] = table[n]) \/ Changing(n)
    BY <1>1, <1>10
  <2>2. QED
    BY <1>7, <1>8, <1>13, <2>1, StartKept
<1>14. ASSUME NEW n \in Networks, NewestFits(n), Apart(n)
       PROVE  NewestFits(n)'
  <2>1. CASE n # k
    <3>1. \A y : Fits(y, n)' <=> Fits(y, n)
      BY <1>1, <2>1 DEF Fits
    <3>2. Newest(queue'[t], n) \subseteq Newest(queue[t], n)
      BY <1>4, <1>6, <2>1
    <3>3. Newest(queue'["insert"], n) \cup Newest(queue'["remove"], n)
            \subseteq Newest(queue["insert"], n) \cup Newest(queue["remove"], n)
      BY <1>7, <3>2
    <3>4. ~Loading' /\ ~Changing(n)' => networks'[n] = table'[n] \/ reply'[n] \in Errors
      BY <1>1, <1>7, <1>8, <1>14, <2>1 DEF NewestFits, Loading
    <3>5. QED
      BY <1>7, <1>14, <3>1, <3>3, <3>4 DEF NewestFits
  <2>2. CASE n = k
    <3>1. \A y : y.do # "say" => (Fits(y, n)' <=> Fits(y, n))
      BY DEF Fits
    <3>2. \A y \in Newest(queue["network"], n) : y.do # "say"
      BY NewestIn, NetworkQueues
    <3>3. Newest(queue'[u], n) = {}
      BY <1>7, <1>11, <1>14, <2>2, NewestIn DEF Has
    <3>4. ASSUME ~Has(queue'["network"], n), NEW y \in Newest(queue'[t], n)
          PROVE  Fits(y, n)'
      <4>1. y \in {m} \cup Elements(Tail(queue[t]))
        BY <1>4, NewestIn
      <4>2. CASE y = m
        <5>1. m \notin Newest(queue[t], n)
          BY <1>3, <1>4, <1>5, <1>6, NewestIn
        <5>2. ~Has(Tail(queue[t]), n)
          BY <1>4, <3>4, <4>2, <5>1
        <5>3. j \in Newest(queue[t], n)
          BY <1>4, <1>6, <2>2, <5>2
        <5>4. Fits(j, n)
          <6>1. j \in Newest(queue["insert"], n) \cup Newest(queue["remove"], n)
            BY <5>3
          <6>2. QED
            BY <1>7, <1>14, <3>4, <6>1 DEF NewestFits
        <5>5. j.set = networks[n]
          BY <1>6, <5>4 DEF Fits
        <5>6. QED
          BY <1>2, <1>3, <2>2, <4>2, <5>5 DEF Fits
      <4>3. CASE y # m
        <5>1. y \in Newest(queue[t], n) /\ y.do # "say"
          BY <1>4, <1>5, <3>4, <4>1, <4>3
        <5>2. y \in Newest(queue["insert"], n) \cup Newest(queue["remove"], n)
          BY <5>1
        <5>3. Fits(y, n)
          BY <1>7, <1>14, <3>4, <5>2 DEF NewestFits
        <5>4. QED
          BY <3>1, <5>1, <5>3
      <4>4. QED
        BY <4>2, <4>3
    <3>5. Changing(n)'
      BY <1>8, <1>10, <2>2
    <3>6. \A y \in Newest(queue'["network"], n) : Fits(y, n)'
      BY <1>7, <1>14, <3>1, <3>2 DEF NewestFits
    <3>7. ~Has(queue'["network"], n) =>
            \A y \in Newest(queue'["insert"], n) \cup Newest(queue'["remove"], n) : Fits(y, n)'
      BY <1>7, <3>3, <3>4
    <3>8. QED
      BY <3>5, <3>6, <3>7 DEF NewestFits
  <2>3. QED
    BY <2>1, <2>2
<1>15. QED
  BY <1>9, <1>12, <1>13, <1>14 DEF NetInv, OrderInv, StartInv, CacheInv

\* A step of the start, for the networks whose row it does not lose.
LEMMA NetLoads ==
  ASSUME TypeOK, NetInv, TypeOK', Loading,
         \A r \in {"network", "insert", "remove"} : queue'[r] = queue[r],
         UNCHANGED <<table, reply, crossed>>, astray \subseteq astray',
         \A n \in Networks \ astray' :
           Awaits(n) /\ RowIsCurrent(n) => Awaits(n)' /\ RowIsCurrent(n)'
  PROVE  NetInv'
<1>1. \A n : /\ Sets(n)' <=> Sets(n)
             /\ Deletes(n)' <=> Deletes(n)
             /\ Changing(n)' <=> Changing(n)
             /\ Answering(n)' <=> Answering(n)
  BY DEF Sets, Deletes, Changing, Answering
<1>2. \A n : (Apart(n) => Apart(n)') /\ (Told(n) => Told(n)')
  BY <1>1 DEF Apart, Told
<1>3. ASSUME NEW n \in Networks \ astray'
      PROVE  ~Changing(n)' /\ Awaits(n)' /\ RowIsCurrent(n)'
  <2>1. Start(n)
    BY DEF NetInv, StartInv
  <2>2. QED
    BY <1>1, <2>1 DEF Start
<1>4. BringsNetworks' => Loading'
  BY ElementsNone DEF BringsNetworks, Loading
<1>5. ASSUME NEW n \in Networks \ astray'
      PROVE  NewestFits(n)'
  <2>1. networks'[n] = table'[n] \/ Loading'
    BY <1>3, <1>4 DEF Awaits
  <2>2. QED
    BY <1>3, <2>1, NothingFits
<1>6. OrderInv'
  BY <1>2 DEF NetInv, OrderInv
<1>7. StartInv'
  BY <1>3 DEF StartInv, Start
<1>8. CacheInv'
  BY <1>5 DEF CacheInv
<1>9. QED
  BY <1>6, <1>7, <1>8 DEF NetInv

LEMMA NetBatch ==
  ASSUME TypeOK, NetInv, AdminTakesBatch
  PROVE  NetInv'
<1> DEFINE b == Head(queue["batch"])
<1>1. /\ TypeOK' /\ \A r \in {"network", "insert", "remove", "get"} : queue'[r] = queue[r]
      /\ queue["batch"] # <<>>
      /\ Elements(queue["batch"]) = {b} \cup Elements(queue'["batch"])
      /\ UNCHANGED <<table, reply, crossed, astray>>
  BY BatchIs, Names DEF Others, Dropped, tableVars, historyVars
<1>2. \/ /\ b.do = "BatchNetwork"
         /\ networks' = [n \in Networks |->
               IF b.rows[n] # Absent THEN b.rows[n] ELSE networks[n]]
      \/ b.do = "BatchHub" /\ UNCHANGED networks
  BY BatchIs
<1>3. Loading
  BY <1>1 DEF Loading
<1> HIDE DEF b
<1>4. ASSUME NEW n \in Networks \ astray', Awaits(n), RowIsCurrent(n)
      PROVE  Awaits(n)' /\ RowIsCurrent(n)'
  <2>1. RowIsCurrent(n)'
    BY <1>1, <1>4 DEF RowIsCurrent
  <2>2. CASE b.do = "BatchNetwork"
    <3>1. b.rows[n] = table[n]
      BY <1>1, <1>4, <2>2 DEF RowIsCurrent
    <3>2. networks'[n] = table'[n]
      BY <1>1, <1>2, <1>4, <2>2, <3>1 DEF Awaits
    <3>3. QED
      BY <2>1, <3>2 DEF Awaits
  <2>3. CASE b.do = "BatchHub"
    <3>1. BringsNetworks => BringsNetworks'
      BY <1>1, <2>3 DEF BringsNetworks
    <3>2. QED
      BY <1>1, <1>2, <1>4, <2>1, <2>3, <3>1 DEF Awaits
  <2>4. QED
    BY <1>2, <2>2, <2>3
<1>5. QED
  BY <1>1, <1>3, <1>4, NetLoads

LEMMA NetSaysBatch ==
  ASSUME TypeOK, NetInv, Says("get")
  PROVE  NetInv'
<1> DEFINE m == Head(queue["get"])
<1>1. /\ TypeOK' /\ \A r \in {"network", "insert", "remove"} : queue'[r] = queue[r]
      /\ queue["get"] # <<>> /\ m.do = "say"
      /\ Elements(queue["get"]) = {m} \cup Elements(queue'["get"])
      /\ Elements(queue'["batch"]) = Elements(queue["batch"]) \cup {m.what}
      /\ UNCHANGED <<networks, table, reply, crossed, astray>>
  BY SaysBatchIs, Names DEF Others, Dropped, Appended, tableVars, historyVars
<1>2. Loading
  BY <1>1 DEF Loading
<1> HIDE DEF m
<1>3. ASSUME NEW n, Awaits(n), RowIsCurrent(n)
      PROVE  Awaits(n)' /\ RowIsCurrent(n)'
  <2>1. RowIsCurrent(n)'
    BY <1>1, <1>3 DEF RowIsCurrent, SaysBatch
  <2>2. BringsNetworks => BringsNetworks'
    BY <1>1 DEF BringsNetworks, SaysBatch
  <2>3. QED
    BY <1>1, <1>3, <2>1, <2>2 DEF Awaits
<1>4. QED
  BY <1>1, <1>2, <1>3, NetLoads

LEMMA NetCounts ==
  ASSUME TypeOK, NetInv, RunsStatement("get"), CountsNetworks
  PROVE  NetInv'
<1>1. /\ TypeOK' /\ \A r \in {"network", "insert", "remove", "batch"} : queue'[r] = queue[r]
      /\ queue["get"] # <<>> /\ Head(queue["get"]).do = "GetTotalOfNetworks"
      /\ UNCHANGED <<networks, table, reply, crossed, astray>>
  BY CountsIs, Names DEF Others, tableVars
<1>2. Loading
  BY <1>1 DEF Loading
<1>3. Elements(queue["get"]) = {Head(queue["get"])} \cup Elements(Tail(queue["get"]))
  BY <1>1, QueueIs, Names DEF TypeOK
<1>4. ASSUME NEW n \in Networks \ astray', Awaits(n), RowIsCurrent(n)
      PROVE  Awaits(n)' /\ RowIsCurrent(n)'
  <2>1. CASE SomeNetwork /\ \E a, b : /\ a.do = "get_all_network" /\ b.do = "get_all_hubs"
                       /\ Elements(queue'["get"]) = {a, b} \cup Elements(Tail(queue["get"]))
    <3>1. BringsNetworks'
      BY <2>1 DEF BringsNetworks
    <3>2. RowIsCurrent(n)'
      BY <1>1, <1>3, <1>4, <2>1 DEF RowIsCurrent, SaysBatch
    <3>3. QED
      BY <1>1, <1>4, <3>1, <3>2 DEF Awaits
  <2>2. CASE ~SomeNetwork /\ Dropped("get")
    <3>1. table[n] = Absent
      BY <2>2 DEF SomeNetwork, StoredNetworks
    <3>2. RowIsCurrent(n)'
      BY <1>1, <1>4, <2>2 DEF RowIsCurrent, Dropped
    <3>3. QED
      BY <1>1, <1>4, <3>1, <3>2 DEF Awaits
  <2>3. QED
    BY <2>1, <2>2, CountsIs
<1>5. QED
  BY <1>1, <1>2, <1>4, NetLoads

LEMMA NetReads ==
  ASSUME TypeOK, NetInv, RunsStatement("get"), ReadsNetworks \/ ReadsHubs
  PROVE  NetInv'
<1>1. CASE ReadsNetworks
  <2>1. /\ TypeOK' /\ \A r \in {"network", "insert", "remove", "batch"} : queue'[r] = queue[r]
        /\ queue["get"] # <<>>
        /\ UNCHANGED <<networks, table, reply, crossed, astray>>
    BY <1>1, ReadsNetworksIs, Names DEF Others, tableVars, historyVars
  <2>2. Loading
    BY <2>1 DEF Loading
  <2>3. PICK m : /\ Swapped("get", m)
                 /\ SaysBatch(m, "BatchNetwork") /\ m.what.rows = table
    BY <1>1, ReadsNetworksIs
  <2>4. /\ Elements(queue'["get"]) = {m} \cup Elements(Tail(queue["get"]))
        /\ Elements(Tail(queue["get"])) \subseteq Elements(queue["get"])
    BY <2>3 DEF Swapped
  <2>5. ASSUME NEW n, Awaits(n), RowIsCurrent(n)
        PROVE  Awaits(n)' /\ RowIsCurrent(n)'
    <3>1. RowIsCurrent(n)'
      BY <2>1, <2>3, <2>4, <2>5 DEF RowIsCurrent
    <3>2. BringsNetworks'
      BY <2>3, <2>4 DEF BringsNetworks
    <3>3. QED
      BY <2>1, <2>5, <3>1, <3>2 DEF Awaits
  <2>6. QED
    BY <2>1, <2>2, <2>5, NetLoads
<1>2. CASE ReadsHubs
  <2>1. /\ TypeOK' /\ \A r \in {"network", "insert", "remove", "batch"} : queue'[r] = queue[r]
        /\ queue["get"] # <<>> /\ Head(queue["get"]).do = "get_all_hubs"
        /\ UNCHANGED <<networks, table, reply, crossed, astray>>
    BY <1>2, ReadsHubsIs, Names DEF Others, tableVars, historyVars
  <2>2. Loading
    BY <2>1 DEF Loading
  <2>3. /\ \A x \in Elements(queue'["get"]) :
             x \in Elements(queue["get"]) \/ SaysBatch(x, "BatchHub")
        /\ \A x \in Elements(queue["get"]) :
             x.do = "get_all_hubs" \/ x \in Elements(queue'["get"])
    <3>1. CASE Dropped("get")
      BY <2>1, <3>1 DEF Dropped
    <3>2. CASE \E m : Swapped("get", m) /\ SaysBatch(m, "BatchHub")
      BY <2>1, <3>2 DEF Swapped
    <3>3. QED
      BY <1>2, <3>1, <3>2, ReadsHubsIs
  <2>4. ASSUME NEW n, Awaits(n), RowIsCurrent(n)
        PROVE  Awaits(n)' /\ RowIsCurrent(n)'
    <3>1. RowIsCurrent(n)'
      BY <2>1, <2>3, <2>4 DEF RowIsCurrent, SaysBatch
    <3>2. BringsNetworks => BringsNetworks'
      BY <2>1, <2>3 DEF BringsNetworks, SaysBatch
    <3>3. QED
      BY <2>1, <2>4, <3>1, <3>2 DEF Awaits
  <2>5. QED
    BY <2>1, <2>2, <2>4, NetLoads
<1>3. QED
  BY <1>1, <1>2

LEMMA NetReadFails ==
  ASSUME TypeOK, NetInv, StatementFails("get")
  PROVE  NetInv'
<1> DEFINE j == Head(queue["get"])
<1>1. /\ TypeOK' /\ \A r \in {"network", "insert", "remove", "batch"} : queue'[r] = queue[r]
      /\ queue["get"] # <<>>
      /\ Elements(queue["get"]) = {j} \cup Elements(queue'["get"])
      /\ j.do \in {"GetTotalOfNetworks", "get_all_network", "get_all_hubs"}
      /\ astray' = IF j.do \in {"GetTotalOfNetworks", "get_all_network"}
                   THEN astray \cup StoredNetworks ELSE astray
      /\ UNCHANGED <<networks, table, reply, crossed>>
  BY ReadFailsIs, Names DEF Others, Dropped, tableVars
<1>2. Loading /\ astray \subseteq astray'
  BY <1>1 DEF Loading
<1> HIDE DEF j
<1>3. ASSUME NEW n \in Networks \ astray', Awaits(n), RowIsCurrent(n)
      PROVE  Awaits(n)' /\ RowIsCurrent(n)'
  <2>1. RowIsCurrent(n)'
    BY <1>1, <1>3 DEF RowIsCurrent
  <2>2. CASE j.do = "get_all_hubs"
    <3>1. BringsNetworks => BringsNetworks'
      BY <1>1, <2>2 DEF BringsNetworks, SaysBatch
    <3>2. QED
      BY <1>1, <1>3, <2>1, <3>1 DEF Awaits
  <2>3. CASE j.do # "get_all_hubs"
    <3>1. table[n] = Absent
      BY <1>1, <1>3, <2>3 DEF StoredNetworks
    <3>2. QED
      BY <1>1, <1>3, <2>1, <3>1 DEF Awaits
  <2>4. QED
    BY <2>2, <2>3
<1>4. QED
  BY <1>1, <1>2, <1>3, NetLoads

\* The steps that have to do with hubs only.
LEMMA NetHubDone ==
  ASSUME TypeOK, NetInv, NEW t \in {"insert", "remove"}, HubDone(t), Others({t}),
         UNCHANGED <<networks, reply, astray, crossed>>
  PROVE  NetInv'
<1> DEFINE j == Head(queue[t])
<1>1. /\ j.do \in {"InsertHub", "insert_hub", "DeleteHub", "DeleteAllHubByNetwork"}
      /\ Dropped(t) \/ \E m : Swapped(t, m) /\ m.do = "insert_hub"
      /\ UNCHANGED table
  BY DEF HubDone
<1>2. \A r \in Readers \ {t} : queue'[r] = queue[r]
  BY DEF Others
<1> HIDE DEF j
<1>3. \A n : ~OfNetwork(j, n)
  BY <1>1 DEF OfNetwork
<1>4. ASSUME NEW n
      PROVE  /\ Newest(queue'[t], n) \subseteq Newest(queue[t], n)
             /\ \A m : OfNetwork(m, n) =>
                  (m \in Elements(queue'[t]) <=> m \in Elements(queue[t]))
  <2>1. CASE Dropped(t)
    BY <1>3, <2>1 DEF Dropped, j
  <2>2. CASE \E m : Swapped(t, m) /\ m.do = "insert_hub"
    <3>1. PICK m : Swapped(t, m) /\ m.do = "insert_hub"
      BY <2>2
    <3>2. ~Carries(m, n) /\ ~OfNetwork(m, n)
      BY <3>1, CarriesIs DEF OfNetwork
    <3>3. QED
      BY <1>3, <3>1, <3>2 DEF Swapped, j
  <2>3. QED
    BY <1>1, <2>1, <2>2
<1>5. \A r \in {"insert", "remove"} : \A n :
        /\ Newest(queue'[r], n) \subseteq Newest(queue[r], n)
        /\ \A m : OfNetwork(m, n) =>
             (m \in Elements(queue'[r]) <=> m \in Elements(queue[r]))
  <2>1. ASSUME NEW r \in {"insert", "remove"}, NEW n
        PROVE  /\ Newest(queue'[r], n) \subseteq Newest(queue[r], n)
               /\ \A m : OfNetwork(m, n) =>
                    (m \in Elements(queue'[r]) <=> m \in Elements(queue[r]))
    <3>1. CASE r = t
      BY <1>4, <3>1
    <3>2. CASE r # t
      <4>1. queue'[r] = queue[r]
        BY <1>2, <3>2, Names
      <4>2. QED
        BY <4>1
    <3>3. QED
      BY <3>1, <3>2
  <2>2. QED
    BY <2>1
<1>6. QED
  BY <1>1, <1>2, <1>5, NetStays, Names

LEMMA NetDbaHub ==
  ASSUME TypeOK, NetInv, DbaTakesHub
  PROVE  NetInv'
<1>1. UNCHANGED <<networks, table, reply, astray, crossed>>
  BY DbaHubIs DEF tableVars, historyVars
<1> PICK to \in {"insert", "remove"} :
      \E x : Appended(to, x) /\ Others({"hubs", to}) /\ x.do \in {"InsertHub", "DeleteHub"}
  BY DbaHubIs
<1>2. PICK m :
        /\ Appended(to, m) /\ Others({"hubs", to}) /\ m.do \in {"InsertHub", "DeleteHub"}
  OBVIOUS
<1>3. \A n : ~Carries(m, n) /\ ~OfNetwork(m, n)
  BY <1>2, CarriesIs DEF OfNetwork
<1>4. \A r \in Readers \ {"hubs", to} : queue'[r] = queue[r]
  BY <1>2 DEF Others
<1>5. ASSUME NEW r \in {"insert", "remove"}, NEW n
      PROVE  /\ Newest(queue'[r], n) \subseteq Newest(queue[r], n)
             /\ \A x : OfNetwork(x, n) =>
                  (x \in Elements(queue'[r]) <=> x \in Elements(queue[r]))
  <2>1. CASE r = to
    BY <1>2, <1>3, <2>1 DEF Appended
  <2>2. CASE r # to
    <3>1. queue'[r] = queue[r]
      BY <1>4, <2>2, Names
    <3>2. QED
      BY <3>1
  <2>3. QED
    BY <2>1, <2>2
<1>6. QED
  BY <1>1, <1>4, <1>5, NetStays, Names

LEMMA NetStep ==
  ASSUME TypeOK, NetInv, [Next]_vars
  PROVE  NetInv'
<1>1. ASSUME NEW n \in Networks, NEW h \in Hubs,
             AdminTakesDeleteHub(n, h) \/ AdminTakesRequest(n, h)
      PROVE  NetInv'
  <2>1. \E m \in HubChanges : Appended("hubs", m) /\ Others({"hubs"})
    BY <1>1, DeleteHubIs, RequestIs
  <2>2. \A r \in {"network", "insert", "remove", "get", "batch"} : queue'[r] = queue[r]
    BY <2>1, Names DEF Others
  <2>3. UNCHANGED <<networks, table, reply, astray, crossed>>
    BY <1>1, DeleteHubIs, RequestIs DEF tableVars
  <2>4. QED
    BY <2>2, <2>3, NetStays
<1>2. ASSUME NEW t \in {"insert", "remove"}, RunsStatement(t) \/ StatementFails(t)
      PROVE  NetInv'
  <2>1. /\ Others({t}) /\ (Carried(t) \/ HubDone(t))
        /\ UNCHANGED <<networks, reply, astray, crossed>>
    BY <1>2, TaskIs DEF historyVars
  <2>2. QED
    BY <2>1, NetCarried, NetHubDone
<1>3. CASE Restarts
  <2>1. Fresh'
    BY <1>3, RestartsFresh
  <2>2. QED
    BY <2>1, FreshNetworks, PTL
<1>4. CASE UNCHANGED vars
  <2>1. /\ UNCHANGED <<networks, table, reply, astray, crossed>> /\ queue' = queue
    BY <1>4 DEF vars, tableVars, historyVars
  <2>2. QED
    BY <2>1, NetStays
<1>5. QED
  BY <1>1, <1>2, <1>3, <1>4, StepsAre, NetChange, NetBatch, NetPassed, NetDbaHub, NetSays,
     NetSaysBatch, NetCounts, NetReads, NetReadFails

LEMMA NetInvHolds == Spec => [](TypeOK /\ NetInv)
<1>1. Init => TypeOK /\ NetInv
  BY InitFresh, FreshTyped, FreshNetworks
<1>2. TypeOK /\ NetInv /\ [Next]_vars => TypeOK' /\ NetInv'
  BY StepTyped, NetStep
<1>3. QED
  BY <1>1, <1>2, PTL DEF Spec

\* Cache and database hold the same of a network of which nothing is under way,
\* for all networks, at whatever pace the changes come, with failed statements -
\* those of the start included - and restarts.
THEOREM NetworksAgreeHolds == Spec => []NetworksAgree
<1>1. TypeOK /\ NetInv => NetworksAgree
  BY DEF NetInv, CacheInv, NewestFits, NetworksAgree
<1>2. QED
  BY <1>1, NetInvHolds, PTL

\* The last the server was told of a network is what its row says, for all
\* networks, with any number of changes under way.
THEOREM RepliesTellTheTableHolds == Spec => []RepliesTellTheTable
<1>1. TypeOK /\ NetInv => RepliesTellTheTable
  <2>1. SUFFICES ASSUME TypeOK, NetInv, NEW n \in Networks \ crossed, ~Answering(n)
                 PROVE  CASE reply[n] = 100 -> table[n] # Absent
                          [] reply[n] = 200 -> table[n] = Absent
                          [] reply[n] = 300 -> table[n] = "active"
                          [] reply[n] = 400 -> table[n] = "inactive"
                          [] OTHER -> TRUE
    BY DEF RepliesTellTheTable
  <2>2. Tells(reply[n], table[n])
    BY <2>1 DEF NetInv, OrderInv, Told
  <2>3. QED
    BY <2>2 DEF Tells
<1>2. QED
  BY <1>1, NetInvHolds, PTL
=============================================================================
