------------------------- MODULE StoreForwardProofs -------------------------
(***************************************************************************)
(* Proofs about store and forward, for every number of tables, every size  *)
(* of batch and every number of messages, notices, errors and restarts.    *)
(*                                                                         *)
(* A row moves along one of two ways.  From its end to its start:          *)
(*                                                                         *)
(*   live    uploaded live, live, fromHub                                  *)
(*   stored  uploaded in a batch, commands, popped, db, buf, inserts,      *)
(*           fromHub                                                       *)
(*                                                                         *)
(* The argument is the same for all steps: in each table the rows of a     *)
(* stage are older than those of the stages behind it, and a step moves    *)
(* the oldest rows of one stage to the next.                               *)
(***************************************************************************)
EXTENDS StoreForward, SequenceTheorems, TLAPS

Row      == [id : Nat, table : Tables]
RowOf(t) == [id : Nat, table : {t}]

StatusMsgs == [kind : Statuses, rows : {{}}]
LiveMsgs   == [kind : {"Live"}, rows : {{r} : r \in Row}]
BatchMsgs  == [kind : {"Batch"}, rows : SUBSET Row]
Msgs       == StatusMsgs \cup LiveMsgs \cup BatchMsgs

TypeOK ==
    /\ hb \in Statuses /\ grpc \in Statuses
    /\ changes \in Nat /\ mishaps \in Nat /\ arrived \in Nat
    /\ fromHub \in Seq(StatusMsgs \cup LiveMsgs) /\ fromHubSays \in Statuses
    /\ commands \in Seq(StatusMsgs \cup BatchMsgs) /\ toServerSays \in Statuses
    /\ live \in Seq(LiveMsgs) /\ sent \in Seq(LiveMsgs \cup BatchMsgs)
    /\ inserts \in Seq(LiveMsgs)
    /\ buf \in [Tables -> Seq(Row)] /\ \A t \in Tables : buf[t] \in Seq(RowOf(t))
    /\ db  \in [Tables -> Seq(Row)] /\ \A t \in Tables : db[t]  \in Seq(RowOf(t))
    /\ writing \in 0..NTables
    /\ notices \in Seq(Statuses) /\ data \in Statuses
    /\ popping \in 0..NTables + 1 /\ popped \in SUBSET Row

\* In each table, the rows of A are older than those of B.
Before(A, B) == \A r \in A, s \in B : r.table = s.table => r.id < s.id

\* The rows in the messages of a kind.
RowsOf(q, k) == {r \in Row : \E i \in DOMAIN q : q[i].kind = k /\ r \in q[i].rows}

\* The messages of a kind hold rows in the order of their arrival.
Ordered(q) ==
    \A i, j \in DOMAIN q :
        i < j /\ q[i].kind = q[j].kind => Before(q[i].rows, q[j].rows)

Ascending(s) == \A i, j \in DOMAIN s : i < j => s[i].id < s[j].id

\* The rows of the tables d from the table w on.
RowsFrom(d, w) == {r \in Row : r.table >= w /\ r \in ToSet(d[r.table])}

StoredWay == <<RowsOf(sent, "Batch"), RowsOf(commands, "Batch"), popped,
               RowsFrom(db, 0), RowsFrom(buf, writing), RowsOf(inserts, "Live"),
               RowsOf(fromHub, "Live")>>
LiveWay   == <<RowsOf(sent, "Live"), RowsOf(live, "Live"),
               RowsOf(fromHub, "Live")>>

Chain(n, W)    == \A i, j \in 1..n : i < j => Before(W[i], W[j])
Numbered(n, W) == \A i \in 1..n : \A r \in W[i] : r.id <= arrived
Apart          == \A i \in 1..2, j \in 1..6 : LiveWay[i] \cap StoredWay[j] = {}

Ways   == /\ Chain(7, StoredWay) /\ Chain(3, LiveWay) /\ Apart
          /\ Numbered(7, StoredWay) /\ Numbered(3, LiveWay)
Queues == /\ Ordered(fromHub) /\ Ordered(live) /\ Ordered(commands)
          /\ Ordered(inserts) /\ Ordered(sent)
          /\ \A t \in Tables : Ascending(buf[t]) /\ Ascending(db[t])

WayInv == TypeOK /\ Ways /\ Queues
-----------------------------------------------------------------------------
(* Type correctness.                                                       *)

LEMMA Empty == NoRows \in [Tables -> Seq(Row)]
               /\ \A t \in Tables : NoRows[t] = <<>> /\ NoRows[t] \in Seq(RowOf(t))
BY DEF NoRows

LEMMA RowsOfTable == \A t \in Tables : \A s \in Seq(RowOf(t)) : s \in Seq(Row)
<1> SUFFICES ASSUME NEW t \in Tables, NEW s \in Seq(RowOf(t))
             PROVE  s \in Seq(Row)
  OBVIOUS
<1>1. \A r \in RowOf(t) : r \in Row
  BY DEF Row, RowOf
<1>2. \A i \in 1..Len(s) : s[i] \in RowOf(t)
  OBVIOUS
<1>3. QED
  BY <1>1, <1>2

\* The rows of a table are rows of that table.
LEMMA TableRows ==
  ASSUME NEW t \in Tables, NEW s \in Seq(RowOf(t))
  PROVE  \A r \in ToSet(s) : r \in Row /\ r.table = t
<1>1. \A i \in DOMAIN s : s[i] \in RowOf(t)
  OBVIOUS
<1>2. \A r \in RowOf(t) : r \in Row /\ r.table = t
  BY DEF RowOf, Row
<1>3. QED
  BY <1>1, <1>2 DEF ToSet

\* A row added to a table: the contents grow by it and stay in order.
LEMMA AppendRow ==
  ASSUME NEW t \in Tables, NEW s \in Seq(RowOf(t)), NEW r \in RowOf(t)
  PROVE  /\ Append(s, r) \in Seq(RowOf(t))
         /\ ToSet(Append(s, r)) = ToSet(s) \cup {r}
         /\ Ascending(s) /\ Before(ToSet(s), {r}) => Ascending(Append(s, r))
<1>1. Append(s, r) \in Seq(RowOf(t)) /\ DOMAIN Append(s, r) = 1..(Len(s) + 1)
  OBVIOUS
<1>2. \A i \in 1..(Len(s) + 1) :
        Append(s, r)[i] = IF i = Len(s) + 1 THEN r ELSE s[i]
  OBVIOUS
<1>3. DOMAIN s = 1..Len(s) /\ Len(s) \in Nat /\ \A i \in DOMAIN s : s[i] \in RowOf(t)
  OBVIOUS
<1>4. ToSet(Append(s, r)) = ToSet(s) \cup {r}
  BY <1>1, <1>2, <1>3 DEF ToSet
<1>5. ASSUME Ascending(s), Before(ToSet(s), {r})
      PROVE  Ascending(Append(s, r))
  <2>1. \A i \in DOMAIN s : s[i].id < r.id
    BY <1>3, <1>5 DEF Before, ToSet, RowOf
  <2>2. SUFFICES ASSUME NEW i \in 1..(Len(s) + 1), NEW j \in 1..(Len(s) + 1), i < j
                 PROVE  Append(s, r)[i].id < Append(s, r)[j].id
    BY <1>1 DEF Ascending
  <2>3. QED
    BY <2>1, <2>2, <1>2, <1>3, <1>5 DEF Ascending
<1>6. QED
  BY <1>1, <1>4, <1>5

\* One table put behind another.
LEMMA ConcatTables ==
  ASSUME NEW t \in Tables, NEW a \in Seq(RowOf(t)), NEW b \in Seq(RowOf(t))
  PROVE  /\ a \o b \in Seq(RowOf(t))
         /\ ToSet(a \o b) = ToSet(a) \cup ToSet(b)
         /\ Ascending(a) /\ Ascending(b) /\ Before(ToSet(a), ToSet(b))
              => Ascending(a \o b)
<1> DEFINE c == a \o b
           m == Len(a)
           n == Len(b)
<1>1. /\ c \in Seq(RowOf(t)) /\ Len(c) = m + n
      /\ \A i \in 1..(m + n) : c[i] = IF i <= m THEN a[i] ELSE b[i - m]
  BY ConcatProperties
<1>2. /\ DOMAIN a = 1..m /\ DOMAIN b = 1..n /\ DOMAIN c = 1..(m + n)
      /\ m \in Nat /\ n \in Nat
      /\ \A i \in 1..m : a[i] \in RowOf(t)
      /\ \A i \in 1..n : b[i] \in RowOf(t)
  BY <1>1
<1> HIDE DEF c, m, n
<1>3. \A i \in 1..m : i \in 1..(m + n) /\ c[i] = a[i]
  BY <1>1, <1>2
<1>4. \A i \in 1..n : m + i \in 1..(m + n) /\ c[m + i] = b[i]
  BY <1>1, <1>2
<1>5. \A i \in 1..(m + n) : i \in 1..m \/ \E j \in 1..n : i = m + j
  <2> SUFFICES ASSUME NEW i \in 1..(m + n), i \notin 1..m
               PROVE  \E j \in 1..n : i = m + j
    OBVIOUS
  <2>1. i - m \in 1..n /\ i = m + (i - m)
    BY <1>2
  <2>2. QED
    BY <2>1
<1>6. ToSet(c) = ToSet(a) \cup ToSet(b)
  <2>1. \A x : x \in ToSet(a) => x \in ToSet(c)
    BY <1>2, <1>3 DEF ToSet
  <2>2. \A x : x \in ToSet(b) => x \in ToSet(c)
    BY <1>2, <1>4 DEF ToSet
  <2>3. \A i \in 1..(m + n) : c[i] \in ToSet(a) \cup ToSet(b)
    <3>1. \A i \in 1..m : c[i] \in ToSet(a)
      BY <1>2, <1>3 DEF ToSet
    <3>2. \A i \in 1..n : c[m + i] \in ToSet(b)
      BY <1>2, <1>4 DEF ToSet
    <3>3. QED
      BY <3>1, <3>2, <1>5
  <2>4. \A x \in ToSet(c) : x \in ToSet(a) \cup ToSet(b)
    BY <2>3, <1>2 DEF ToSet
  <2>5. QED
    BY <2>1, <2>2, <2>4
<1>7. ASSUME Ascending(a), Ascending(b), Before(ToSet(a), ToSet(b))
      PROVE  Ascending(c)
  <2>1. \A i \in 1..m, j \in 1..n : a[i].id < b[j].id
    BY <1>2, <1>7 DEF Before, ToSet, RowOf
  <2>2. SUFFICES ASSUME NEW i \in 1..(m + n), NEW j \in 1..(m + n), i < j
                 PROVE  c[i].id < c[j].id
    BY <1>2 DEF Ascending
  <2>3. CASE i \in 1..m /\ j \in 1..m
    BY <2>2, <2>3, <1>2, <1>3, <1>7 DEF Ascending
  <2>4. CASE i \in 1..m /\ \E k \in 1..n : j = m + k
    BY <2>1, <2>4, <1>3, <1>4
  <2>5. CASE \E k \in 1..n : i = m + k
    <3>1. PICK k \in 1..n : i = m + k
      BY <2>5
    <3>2. PICK l \in 1..n : j = m + l
      BY <2>2, <1>2, <1>5, <3>1
    <3>3. k < l
      BY <2>2, <3>1, <3>2, <1>2
    <3>4. QED
      BY <3>1, <3>2, <3>3, <1>2, <1>4, <1>7 DEF Ascending
  <2>6. QED
    BY <2>3, <2>4, <2>5, <1>5
<1>8. QED
  BY <1>1, <1>6, <1>7 DEF c

\* The first n rows of a table and the rest.
LEMMA SplitTable ==
  ASSUME NEW t \in Tables, NEW s \in Seq(RowOf(t)), NEW n \in 0..Len(s)
  PROVE  /\ SubSeq(s, 1, n) \in Seq(RowOf(t))
         /\ SubSeq(s, n + 1, Len(s)) \in Seq(RowOf(t))
         /\ ToSet(s) = ToSet(SubSeq(s, 1, n)) \cup ToSet(SubSeq(s, n + 1, Len(s)))
         /\ Ascending(s) =>
              /\ Ascending(SubSeq(s, n + 1, Len(s)))
              /\ Before(ToSet(SubSeq(s, 1, n)), ToSet(SubSeq(s, n + 1, Len(s))))
<1> DEFINE l == Len(s)
           a == SubSeq(s, 1, n)
           b == SubSeq(s, n + 1, l)
<1>1. /\ DOMAIN s = 1..l /\ l \in Nat /\ n \in Nat /\ n <= l
      /\ \A i \in 1..l : s[i] \in RowOf(t)
  OBVIOUS
<1>2. a \in Seq(RowOf(t)) /\ DOMAIN a = 1..n /\ \A i \in 1..n : a[i] = s[i]
  <2>1. /\ a \in Seq(RowOf(t)) /\ Len(a) = IF 1 <= n THEN n - 1 + 1 ELSE 0
        /\ \A i \in 1..n - 1 + 1 : a[i] = s[1 + i - 1]
    BY <1>1, SubSeqProperties
  <2>2. QED
    BY <1>1, <2>1
<1>3. /\ b \in Seq(RowOf(t)) /\ DOMAIN b = 1..(l - n)
      /\ \A i \in 1..(l - n) : b[i] = s[n + i]
  <2>1. /\ b \in Seq(RowOf(t))
        /\ Len(b) = IF n + 1 <= l THEN l - (n + 1) + 1 ELSE 0
        /\ \A i \in 1..l - (n + 1) + 1 : b[i] = s[(n + 1) + i - 1]
    BY <1>1, SubSeqProperties
  <2>2. QED
    BY <1>1, <2>1
<1> HIDE DEF a, b, l
<1>4. \A i \in 1..l : i \in 1..n \/ \E j \in 1..(l - n) : i = n + j
  <2> SUFFICES ASSUME NEW i \in 1..l, i \notin 1..n
               PROVE  \E j \in 1..(l - n) : i = n + j
    OBVIOUS
  <2>1. i - n \in 1..(l - n) /\ i = n + (i - n)
    BY <1>1
  <2>2. QED
    BY <2>1
<1>5. (\A i \in 1..n : i \in 1..l) /\ \A j \in 1..(l - n) : n + j \in 1..l
  BY <1>1
<1>6. ToSet(s) = ToSet(a) \cup ToSet(b)
  <2>1. \A x : x \in ToSet(a) => x \in ToSet(s)
    BY <1>1, <1>2, <1>5 DEF ToSet
  <2>2. \A x : x \in ToSet(b) => x \in ToSet(s)
    BY <1>1, <1>3, <1>5 DEF ToSet
  <2>3. \A i \in 1..l : s[i] \in ToSet(a) \cup ToSet(b)
    BY <1>1, <1>2, <1>3, <1>4 DEF ToSet
  <2>4. \A x \in ToSet(s) : x \in ToSet(a) \cup ToSet(b)
    BY <2>3, <1>1 DEF ToSet
  <2>5. QED
    BY <2>1, <2>2, <2>4
<1>7. ASSUME Ascending(s)
      PROVE  Ascending(b) /\ Before(ToSet(a), ToSet(b))
  <2>1. \A i, j \in 1..(l - n) : i < j => s[n + i].id < s[n + j].id
    BY <1>1, <1>5, <1>7 DEF Ascending
  <2>2. Ascending(b)
    BY <2>1, <1>3 DEF Ascending
  <2>3. \A i \in 1..n, j \in 1..(l - n) : s[i].id < s[n + j].id
    BY <1>1, <1>5, <1>7 DEF Ascending
  <2>4. \A i \in DOMAIN a, j \in DOMAIN b : a[i].id < b[j].id
    BY <2>3, <1>2, <1>3
  <2>5. QED
    BY <2>2, <2>4 DEF Before, ToSet
<1>8. QED
  BY <1>2, <1>3, <1>6, <1>7 DEF a, b, l
-----------------------------------------------------------------------------
(* Messages and the queues that hold them.                                 *)

LEMMA Messages ==
  /\ \A s \in Statuses : Status(s) \in StatusMsgs
  /\ \A r \in Row : Message("Live", {r}) \in LiveMsgs
  /\ \A P \in SUBSET Row : Message("Batch", P) \in BatchMsgs
  /\ \A m \in StatusMsgs : m.kind \in Statuses /\ m.rows = {}
  /\ \A m \in LiveMsgs : m.kind = "Live" /\ \E r \in Row : m.rows = {r}
  /\ \A m \in BatchMsgs : m.kind = "Batch" /\ m.rows \subseteq Row
  /\ \A m \in Msgs : m.rows \subseteq Row
  /\ "Live" \notin Statuses /\ "Batch" \notin Statuses
<1>1. /\ \A s \in Statuses : Status(s) \in StatusMsgs
      /\ \A r \in Row : Message("Live", {r}) \in LiveMsgs
      /\ \A P \in SUBSET Row : Message("Batch", P) \in BatchMsgs
  BY DEF Status, Message, StatusMsgs, LiveMsgs, BatchMsgs
<1>2. /\ \A m \in StatusMsgs : m.kind \in Statuses /\ m.rows = {}
      /\ \A m \in LiveMsgs : m.kind = "Live" /\ \E r \in Row : m.rows = {r}
      /\ \A m \in BatchMsgs : m.kind = "Batch" /\ m.rows \subseteq Row
  BY DEF StatusMsgs, LiveMsgs, BatchMsgs
<1>3. "Live" \notin Statuses /\ "Batch" \notin Statuses
  BY DEF Statuses
<1>4. \A m \in Msgs : m.rows \subseteq Row
  BY <1>2 DEF Msgs
<1>5. QED
  BY <1>1, <1>2, <1>3, <1>4

\* The rows of m when it is of kind k.
Given(m, k) == IF m.kind = k THEN m.rows ELSE {}

\* A message put into a queue, whatever its kind.
LEMMA AppendMessage ==
  ASSUME NEW S \in SUBSET Msgs, NEW q \in Seq(S), NEW m \in S
  PROVE  /\ Append(q, m) \in Seq(S)
         /\ \A k : RowsOf(Append(q, m), k) = RowsOf(q, k) \cup Given(m, k)
         /\ Ordered(q) /\ Before(RowsOf(q, m.kind), m.rows)
              => Ordered(Append(q, m))
<1> DEFINE n == Len(q)
           p == Append(q, m)
<1>1. /\ n \in Nat /\ p \in Seq(S) /\ DOMAIN q = 1..n /\ DOMAIN p = 1..(n + 1)
      /\ p[n + 1] = m /\ \A i \in 1..n : p[i] = q[i] /\ q[i] \in S
  OBVIOUS
<1>2. \A x \in S : x.rows \subseteq Row
  BY Messages
<1> HIDE DEF n, p
<1>3. ASSUME NEW k
      PROVE  RowsOf(p, k) = RowsOf(q, k) \cup Given(m, k)
  <2>1. ASSUME NEW r \in RowsOf(p, k)
        PROVE  r \in RowsOf(q, k) \cup Given(m, k)
    <3>1. PICK i \in 1..(n + 1) : r \in Row /\ p[i].kind = k /\ r \in p[i].rows
      BY <1>1, <2>1 DEF RowsOf
    <3>2. CASE i = n + 1
      BY <3>1, <3>2, <1>1 DEF Given
    <3>3. CASE i \in 1..n
      BY <3>1, <3>3, <1>1 DEF RowsOf
    <3>4. QED
      BY <3>2, <3>3, <1>1
  <2>2. ASSUME NEW r \in RowsOf(q, k)
        PROVE  r \in RowsOf(p, k)
    BY <2>2, <1>1 DEF RowsOf
  <2>3. ASSUME NEW r \in Given(m, k)
        PROVE  r \in RowsOf(p, k)
    <3>1. m.kind = k /\ r \in m.rows /\ r \in Row
      BY <2>3, <1>2 DEF Given
    <3>2. n + 1 \in DOMAIN p
      BY <1>1
    <3>3. QED
      BY <3>1, <3>2, <1>1 DEF RowsOf
  <2>4. QED
    BY <2>1, <2>2, <2>3
<1>4. ASSUME Ordered(q), Before(RowsOf(q, m.kind), m.rows)
      PROVE  Ordered(p)
  <2>1. SUFFICES ASSUME NEW i \in 1..(n + 1), NEW j \in 1..(n + 1),
                        i < j, p[i].kind = p[j].kind
                 PROVE  Before(p[i].rows, p[j].rows)
    BY <1>1 DEF Ordered
  <2>2. i \in 1..n /\ p[i] = q[i] /\ q[i] \in S
    BY <2>1, <1>1
  <2>3. CASE j = n + 1
    <3>1. p[j] = m
      BY <2>3, <1>1
    <3>2. q[i].rows \subseteq RowsOf(q, m.kind)
      BY <3>1, <2>1, <2>2, <1>1, <1>2 DEF RowsOf
    <3>3. QED
      BY <3>1, <3>2, <2>2, <1>4 DEF Before
  <2>4. CASE j \in 1..n
    BY <2>1, <2>2, <2>4, <1>1, <1>4 DEF Ordered
  <2>5. QED
    BY <2>3, <2>4, <1>1
<1>5. QED
  BY <1>1, <1>3, <1>4 DEF p

\* A message taken out of a queue.
LEMMA TailMessage ==
  ASSUME NEW S \in SUBSET Msgs, NEW q \in Seq(S), q # <<>>
  PROVE  /\ Head(q) \in S /\ Tail(q) \in Seq(S)
         /\ \A k : RowsOf(q, k) = RowsOf(Tail(q), k) \cup Given(Head(q), k)
         /\ Ordered(q) =>
              /\ Ordered(Tail(q))
              /\ Before(Head(q).rows, RowsOf(Tail(q), Head(q).kind))
<1> DEFINE n == Len(q)
           h == Head(q)
           p == Tail(q)
<1>1. /\ n \in Nat /\ n > 0 /\ h \in S /\ p \in Seq(S)
      /\ DOMAIN q = 1..n /\ DOMAIN p = 1..(n - 1) /\ q[1] = h
      /\ \A i \in 1..(n - 1) : p[i] = q[i + 1]
      /\ \A i \in 1..n : q[i] \in S
  BY HeadTailProperties
<1>2. \A x \in S : x.rows \subseteq Row
  BY Messages
<1> HIDE DEF n, h, p
<1>3. \A i \in 2..n : i - 1 \in 1..(n - 1) /\ q[i] = p[i - 1]
  <2> SUFFICES ASSUME NEW i \in 2..n
               PROVE  i - 1 \in 1..(n - 1) /\ q[i] = p[i - 1]
    OBVIOUS
  <2>1. i - 1 \in 1..(n - 1) /\ (i - 1) + 1 = i
    BY <1>1
  <2>2. QED
    BY <2>1, <1>1
<1>4. ASSUME NEW k
      PROVE  RowsOf(q, k) = RowsOf(p, k) \cup Given(h, k)
  <2>1. ASSUME NEW r \in RowsOf(q, k)
        PROVE  r \in RowsOf(p, k) \cup Given(h, k)
    <3>1. PICK i \in 1..n : r \in Row /\ q[i].kind = k /\ r \in q[i].rows
      BY <1>1, <2>1 DEF RowsOf
    <3>2. CASE i = 1
      BY <3>1, <3>2, <1>1 DEF Given
    <3>3. CASE i \in 2..n
      BY <3>1, <3>3, <1>1, <1>3 DEF RowsOf
    <3>4. QED
      BY <3>2, <3>3, <1>1
  <2>2. ASSUME NEW r \in RowsOf(p, k)
        PROVE  r \in RowsOf(q, k)
    <3>1. PICK i \in 1..(n - 1) : r \in Row /\ p[i].kind = k /\ r \in p[i].rows
      BY <1>1, <2>2 DEF RowsOf
    <3>2. i + 1 \in DOMAIN q /\ q[i + 1] = p[i]
      BY <1>1
    <3>3. QED
      BY <3>1, <3>2 DEF RowsOf
  <2>3. ASSUME NEW r \in Given(h, k)
        PROVE  r \in RowsOf(q, k)
    <3>1. h.kind = k /\ r \in h.rows /\ r \in Row
      BY <2>3, <1>1, <1>2 DEF Given
    <3>2. 1 \in DOMAIN q
      BY <1>1
    <3>3. QED
      BY <3>1, <3>2, <1>1 DEF RowsOf
  <2>4. QED
    BY <2>1, <2>2, <2>3
<1>5. ASSUME Ordered(q)
      PROVE  Ordered(p) /\ Before(h.rows, RowsOf(p, h.kind))
  <2>1. ASSUME NEW i \in 1..(n - 1), NEW j \in 1..(n - 1),
               i < j, p[i].kind = p[j].kind
        PROVE  Before(p[i].rows, p[j].rows)
    <3>1. /\ i + 1 \in DOMAIN q /\ j + 1 \in DOMAIN q /\ i + 1 < j + 1
          /\ q[i + 1] = p[i] /\ q[j + 1] = p[j]
      BY <2>1, <1>1
    <3>2. QED
      BY <3>1, <2>1, <1>5 DEF Ordered
  <2>2. ASSUME NEW i \in 1..(n - 1), p[i].kind = h.kind
        PROVE  Before(h.rows, p[i].rows)
    <3>1. /\ 1 \in DOMAIN q /\ i + 1 \in DOMAIN q /\ 1 < i + 1
          /\ q[i + 1] = p[i] /\ q[1] = h
      BY <1>1
    <3>2. QED
      BY <3>1, <2>2, <1>5 DEF Ordered
  <2>3. Ordered(p)
    BY <2>1, <1>1 DEF Ordered
  <2>4. Before(h.rows, RowsOf(p, h.kind))
    BY <2>2, <1>1 DEF Before, RowsOf
  <2>5. QED
    BY <2>3, <2>4
<1>6. QED
  BY <1>1, <1>4, <1>5 DEF h, p
-----------------------------------------------------------------------------
(* Type correctness of the steps.                                          *)

LEMMA QueueTypes ==
  /\ LiveMsgs \subseteq Msgs /\ (StatusMsgs \cup LiveMsgs) \subseteq Msgs
  /\ (StatusMsgs \cup BatchMsgs) \subseteq Msgs
  /\ (LiveMsgs \cup BatchMsgs) \subseteq Msgs
BY DEF Msgs

\* The heads of the queues, by kind.
LEMMA Heads ==
  ASSUME TypeOK
  PROVE  /\ fromHub # <<>> => Head(fromHub) \in StatusMsgs \cup LiveMsgs
         /\ fromHub # <<>> /\ Head(fromHub).kind = "Live"
              => Head(fromHub) \in LiveMsgs
         /\ commands # <<>> => Head(commands) \in StatusMsgs \cup BatchMsgs
         /\ commands # <<>> /\ Head(commands).kind = "Batch"
              => Head(commands) \in BatchMsgs
         /\ live # <<>> => Head(live) \in LiveMsgs
         /\ inserts # <<>> => Head(inserts) \in LiveMsgs
<1>1. /\ fromHub # <<>> => Head(fromHub) \in StatusMsgs \cup LiveMsgs
      /\ commands # <<>> => Head(commands) \in StatusMsgs \cup BatchMsgs
      /\ live # <<>> => Head(live) \in LiveMsgs
      /\ inserts # <<>> => Head(inserts) \in LiveMsgs
  BY DEF TypeOK
<1>2. QED
  BY <1>1, Messages

\* InsertTakesTelemetry adds the row of one message to the buffer.
LEMMA TakesOneRow ==
  ASSUME TypeOK, InsertTakesTelemetry
  PROVE  \E r \in Row : /\ Head(inserts).rows = {r}
                       /\ buf' = [buf EXCEPT ![r.table] = Append(@, r)]
<1>1. PICK r \in Row : Head(inserts).rows = {r}
  BY Heads, Messages DEF InsertTakesTelemetry
<1>2. QED
  BY <1>1 DEF InsertTakesTelemetry

\* What a table is after a step: its rows all carry its number.
LEMMA TableUpdate ==
  ASSUME NEW d, d \in [Tables -> Seq(Row)], \A t \in Tables : d[t] \in Seq(RowOf(t)),
         NEW u \in Tables, NEW s \in Seq(RowOf(u)),
         NEW e, e = [d EXCEPT ![u] = s]
  PROVE  /\ e \in [Tables -> Seq(Row)] /\ \A t \in Tables : e[t] \in Seq(RowOf(t))
         /\ e[u] = s /\ \A t \in Tables \ {u} : e[t] = d[t]
<1>1. s \in Seq(Row)
  BY RowsOfTable
<1>2. QED
  BY <1>1

\* Every step keeps the types.
LEMMA TypeNext == TypeOK /\ [Next]_vars => TypeOK'
<1> SUFFICES ASSUME TypeOK, [Next]_vars
             PROVE  TypeOK'
  OBVIOUS
<1> USE DEF TypeOK, envVars, msgVars, dataVars
<1>1. CASE HeartbeatNotifies
  <2>1. PICK s \in Statuses : hb' = s /\ TellsMessageService(s)
                              /\ notices' = Append(notices, s)
    BY <1>1 DEF HeartbeatNotifies
  <2>2. Status(s) \in StatusMsgs
    BY Messages
  <2>3. QED
    BY <1>1, <2>1, <2>2 DEF HeartbeatNotifies, TellsMessageService
<1>2. CASE GrpcNotifies
  <2>1. PICK s \in Statuses : grpc' = s /\ TellsMessageService(s)
    BY <1>2 DEF GrpcNotifies
  <2>2. Status(s) \in StatusMsgs
    BY Messages
  <2>3. QED
    BY <1>2, <2>1, <2>2 DEF GrpcNotifies, TellsMessageService
<1>3. CASE HubSends
  <2>1. PICK t \in Tables :
          fromHub' = Append(fromHub,
                            Message("Live", {[id |-> arrived + 1, table |-> t]}))
    BY <1>3 DEF HubSends
  <2>2. [id |-> arrived + 1, table |-> t] \in Row
    BY DEF Row
  <2>3. PICK m \in LiveMsgs : fromHub' = Append(fromHub, m)
    BY <2>1, <2>2, Messages
  <2>4. fromHub' \in Seq(StatusMsgs \cup LiveMsgs)
    BY <2>3
  <2>5. QED
    BY <1>3, <2>4 DEF HubSends
<1>4. CASE FromHubTakesStatus
  BY <1>4 DEF FromHubTakesStatus
<1>5. CASE FromHubTakesTelemetry
  <2>1. Head(fromHub) \in LiveMsgs /\ Tail(fromHub) \in Seq(StatusMsgs \cup LiveMsgs)
    BY <1>5, Heads DEF FromHubTakesTelemetry
  <2>2. /\ live' = live \/ live' = Append(live, Head(fromHub))
        /\ inserts' = inserts \/ inserts' = Append(inserts, Head(fromHub))
    BY <1>5 DEF FromHubTakesTelemetry
  <2>3. /\ Append(live, Head(fromHub)) \in Seq(LiveMsgs)
        /\ Append(inserts, Head(fromHub)) \in Seq(LiveMsgs)
    BY <2>1, QueueTypes, AppendMessage
  <2>4. live' \in Seq(LiveMsgs) /\ inserts' \in Seq(LiveMsgs)
    BY <2>2, <2>3
  <2>5. QED
    BY <1>5, <2>1, <2>4 DEF FromHubTakesTelemetry
<1>6. CASE ToServerTakesStatus
  BY <1>6 DEF ToServerTakesStatus
<1>7. CASE ToServerTakesBatch
  <2>1. Head(commands) \in BatchMsgs /\ Tail(commands) \in Seq(StatusMsgs \cup BatchMsgs)
    BY <1>7, Heads DEF ToServerTakesBatch
  <2>2. sent' \in Seq(LiveMsgs \cup BatchMsgs)
    BY <1>7, <2>1 DEF ToServerTakesBatch, Uploads
  <2>3. QED
    BY <1>7, <2>1, <2>2 DEF ToServerTakesBatch
<1>8. CASE ToServerTakesLive
  <2>1. Head(live) \in LiveMsgs /\ Tail(live) \in Seq(LiveMsgs)
    BY <1>8, Heads DEF ToServerTakesLive
  <2>2. sent' \in Seq(LiveMsgs \cup BatchMsgs)
    BY <1>8, <2>1 DEF ToServerTakesLive, Uploads
  <2>3. QED
    BY <1>8, <2>1, <2>2 DEF ToServerTakesLive
<1>9. CASE InsertTakesTelemetry
  <2>1. PICK r \in Row : buf' = [buf EXCEPT ![r.table] = Append(@, r)]
    BY <1>9, TakesOneRow
  <2>2. r.table \in Tables /\ r \in RowOf(r.table)
    BY DEF Row, RowOf
  <2>3. Append(buf[r.table], r) \in Seq(RowOf(r.table))
    BY <2>2, AppendRow
  <2>4. /\ buf' \in [Tables -> Seq(Row)]
        /\ \A t \in Tables : buf'[t] \in Seq(RowOf(t))
    BY <2>1, <2>2, <2>3, TableUpdate
  <2>5. writing' \in 0..NTables /\ inserts' \in Seq(LiveMsgs)
    BY <1>9, SizesAssumption DEF InsertTakesTelemetry
  <2>6. QED
    BY <1>9, <2>4, <2>5 DEF InsertTakesTelemetry
<1>10. CASE FlushTick
  BY <1>10, SizesAssumption DEF FlushTick
<1>11. CASE WritesTable
  <2>1. writing \in Tables
    BY <1>11, SizesAssumption DEF WritesTable, Tables
  <2>2. db[writing] \o buf[writing] \in Seq(RowOf(writing))
    BY <2>1, ConcatTables
  <2>3. /\ db' \in [Tables -> Seq(Row)]
        /\ \A t \in Tables : db'[t] \in Seq(RowOf(t))
    BY <1>11, <2>1, <2>2, TableUpdate DEF WritesTable
  <2>4. writing' \in 0..NTables
    BY <1>11, SizesAssumption DEF WritesTable
  <2>5. /\ buf' \in [Tables -> Seq(Row)]
        /\ \A t \in Tables : buf'[t] \in Seq(RowOf(t))
    BY <1>11, Empty DEF WritesTable
  <2>6. QED
    BY <1>11, <2>3, <2>4, <2>5 DEF WritesTable
<1>12. CASE WriteFails
  BY <1>12, Empty, SizesAssumption DEF WriteFails
<1>13. CASE GetTakesNotice
  <2>1. data' \in Statuses /\ notices' \in Seq(Statuses)
    BY <1>13 DEF GetTakesNotice
  <2>2. popping' \in 0..NTables + 1
    BY <1>13, SizesAssumption DEF GetTakesNotice
  <2>3. QED
    BY <1>13, <2>1, <2>2 DEF GetTakesNotice
<1>14. CASE PopsTable
  <2> DEFINE s == db[popping]
             n == IF Len(s) < Limit THEN Len(s) ELSE Limit
             M == SubSeq(s, 1, n)
             R == SubSeq(s, n + 1, Len(s))
  <2>1. s \in Seq(RowOf(popping)) /\ n \in 0..Len(s) /\ popping \in Tables
    <3>1. popping \in Tables
      BY <1>14 DEF PopsTable
    <3>2. s \in Seq(RowOf(popping)) /\ Limit \in Nat
      BY <3>1, SizesAssumption
    <3> HIDE DEF s
    <3>3. Len(s) \in Nat
      BY <3>2
    <3>4. QED
      BY <3>1, <3>2, <3>3
  <2>2. R \in Seq(RowOf(popping)) /\ M \in Seq(RowOf(popping))
    BY <2>1, SplitTable
  <2>3. /\ db' = [db EXCEPT ![popping] = R] /\ popped' = popped \cup ToSet(M)
        /\ popping' = popping + 1
    BY <1>14 DEF PopsTable
  <2>4. UNCHANGED <<envVars, msgVars, inserts, buf, writing, notices, data>>
    BY <1>14 DEF PopsTable
  <2> HIDE DEF M, R, n, s
  <2>5. /\ db' \in [Tables -> Seq(Row)]
        /\ \A t \in Tables : db'[t] \in Seq(RowOf(t))
    BY <2>1, <2>2, <2>3, TableUpdate
  <2>6. \A r \in ToSet(M) : r \in Row
    BY <2>1, <2>2, TableRows
  <2>7. popping' \in 0..NTables + 1
    BY <2>1, <2>3, SizesAssumption DEF Tables
  <2>8. QED
    BY <2>3, <2>4, <2>5, <2>6, <2>7
<1>15. CASE PopFails
  BY <1>15, SizesAssumption DEF PopFails
<1>16. CASE BatchEnds
  <2>1. Message("Batch", popped) \in BatchMsgs
    BY Messages
  <2>2. \/ commands' = commands
        \/ commands' = Append(commands, Message("Batch", popped))
    BY <1>16 DEF BatchEnds
  <2>3. Append(commands, Message("Batch", popped)) \in Seq(StatusMsgs \cup BatchMsgs)
    BY <2>1, QueueTypes, AppendMessage
  <2>4. commands' \in Seq(StatusMsgs \cup BatchMsgs)
    BY <2>2, <2>3
  <2>5. popping' \in 0..NTables + 1
    BY <1>16, SizesAssumption DEF BatchEnds
  <2>6. QED
    BY <1>16, <2>4, <2>5 DEF BatchEnds
<1>17. CASE Restarts
  BY <1>17, Empty, SizesAssumption DEF Restarts, Statuses
<1>18. CASE UNCHANGED vars
  BY <1>18 DEF vars
<1>19. QED
  BY <1>1, <1>2, <1>3, <1>4, <1>5, <1>6, <1>7, <1>8, <1>9, <1>10, <1>11, <1>12,
     <1>13, <1>14, <1>15, <1>16, <1>17, <1>18 DEF Next

LEMMA TypeInit == Init => TypeOK
BY Empty, SizesAssumption DEF Init, TypeOK, Statuses

\* Every queue holds messages of its kinds, every table its own rows.
THEOREM TypeCorrect == Spec => []TypeOK
BY TypeInit, TypeNext, PTL DEF Spec
-----------------------------------------------------------------------------
(* What a step does to the two ways.                                       *)

\* The rows M, the oldest of stage k + 1, pass to stage k.
Passes(n, V, W, k, M) ==
    /\ \A i \in (1..n) \ {k, k + 1} : W[i] = V[i]
    /\ W[k] = V[k] \cup M /\ V[k + 1] = W[k + 1] \cup M
    /\ Before(M, W[k + 1])

Still ==
    /\ \A i \in 1..7 : StoredWay'[i] = StoredWay[i]
    /\ \A i \in 1..3 : LiveWay'[i] = LiveWay[i]
    /\ arrived' = arrived

StoredStep ==
    /\ \E k \in 1..6, M \in SUBSET Row : Passes(7, StoredWay, StoredWay', k, M)
    /\ \A i \in 1..2 : LiveWay'[i] = LiveWay[i]
    /\ arrived' = arrived

LiveStep ==
    /\ \E k \in 1..2, M \in SUBSET Row : Passes(3, LiveWay, LiveWay', k, M)
    /\ \A i \in 1..6 : StoredWay'[i] = StoredWay[i]
    /\ arrived' = arrived

Arrival ==
    /\ \E r \in Row : r.id = arrived + 1 /\ StoredWay'[7] = StoredWay[7] \cup {r}
    /\ \A i \in 1..6 : StoredWay'[i] = StoredWay[i]
    /\ \A i \in 1..2 : LiveWay'[i] = LiveWay[i]
    /\ arrived' = arrived + 1

Loss ==
    /\ \A i \in 1..7 : StoredWay'[i] \subseteq StoredWay[i]
    /\ \A i \in 1..3 : LiveWay'[i] \subseteq LiveWay[i]
    /\ arrived' = arrived
    /\ toServerSays = "ServerDisconnected" \/ mishaps' # mishaps

LEMMA Components ==
  /\ \A a, b, c, d, e, f, g :
       /\ <<a, b, c, d, e, f, g>>[1] = a /\ <<a, b, c, d, e, f, g>>[2] = b
       /\ <<a, b, c, d, e, f, g>>[3] = c /\ <<a, b, c, d, e, f, g>>[4] = d
       /\ <<a, b, c, d, e, f, g>>[5] = e /\ <<a, b, c, d, e, f, g>>[6] = f
       /\ <<a, b, c, d, e, f, g>>[7] = g
  /\ \A a, b, c : <<a, b, c>>[1] = a /\ <<a, b, c>>[2] = b /\ <<a, b, c>>[3] = c
OBVIOUS

LEMMA Stages ==
  /\ StoredWay[1] = RowsOf(sent, "Batch") /\ StoredWay[2] = RowsOf(commands, "Batch")
  /\ StoredWay[3] = popped /\ StoredWay[4] = RowsFrom(db, 0)
  /\ StoredWay[5] = RowsFrom(buf, writing) /\ StoredWay[6] = RowsOf(inserts, "Live")
  /\ StoredWay[7] = RowsOf(fromHub, "Live")
  /\ LiveWay[1] = RowsOf(sent, "Live") /\ LiveWay[2] = RowsOf(live, "Live")
  /\ LiveWay[3] = RowsOf(fromHub, "Live")
BY Components DEF StoredWay, LiveWay

LEMMA NextStages ==
  /\ StoredWay'[1] = RowsOf(sent', "Batch") /\ StoredWay'[2] = RowsOf(commands', "Batch")
  /\ StoredWay'[3] = popped' /\ StoredWay'[4] = RowsFrom(db', 0)
  /\ StoredWay'[5] = RowsFrom(buf', writing') /\ StoredWay'[6] = RowsOf(inserts', "Live")
  /\ StoredWay'[7] = RowsOf(fromHub', "Live")
  /\ LiveWay'[1] = RowsOf(sent', "Live") /\ LiveWay'[2] = RowsOf(live', "Live")
  /\ LiveWay'[3] = RowsOf(fromHub', "Live")
BY Components DEF StoredWay, LiveWay

LEMMA StagesAreRows ==
  ASSUME TypeOK
  PROVE  /\ \A i \in 1..7 : StoredWay[i] \subseteq Row
         /\ \A i \in 1..3 : LiveWay[i] \subseteq Row
<1>1. popped \subseteq Row
  BY DEF TypeOK
<1>2. \A q, k : RowsOf(q, k) \subseteq Row
  BY DEF RowsOf
<1>3. \A d, w : RowsFrom(d, w) \subseteq Row
  BY DEF RowsFrom
<1>4. /\ StoredWay[1] \subseteq Row /\ StoredWay[2] \subseteq Row
      /\ StoredWay[3] \subseteq Row /\ StoredWay[4] \subseteq Row
      /\ StoredWay[5] \subseteq Row /\ StoredWay[6] \subseteq Row
      /\ StoredWay[7] \subseteq Row
  BY <1>1, <1>2, <1>3, Stages, Zenon
<1>5. LiveWay[1] \subseteq Row /\ LiveWay[2] \subseteq Row /\ LiveWay[3] \subseteq Row
  BY <1>2, Stages, Zenon
<1>6. QED
  BY <1>4, <1>5

\* The rows of a queue of messages of one kind.
LEMMA LiveHead ==
  ASSUME NEW S \in SUBSET Msgs, NEW q \in Seq(S), q # <<>>, Ordered(q),
         NEW h, h = Head(q), NEW k, h.kind = k
  PROVE  /\ h \in S /\ h.rows \subseteq Row /\ Tail(q) \in Seq(S)
         /\ RowsOf(q, k) = RowsOf(Tail(q), k) \cup h.rows
         /\ Ordered(Tail(q)) /\ Before(h.rows, RowsOf(Tail(q), k))
         /\ \A l : l # k => RowsOf(q, l) = RowsOf(Tail(q), l)
<1>1. Given(h, k) = h.rows /\ \A l : l # k => Given(h, l) = {}
  BY DEF Given
<1>2. /\ h \in S /\ Tail(q) \in Seq(S)
      /\ Ordered(Tail(q)) /\ Before(h.rows, RowsOf(Tail(q), k))
  BY TailMessage
<1>3. \A l : RowsOf(q, l) = RowsOf(Tail(q), l) \cup Given(h, l)
  BY TailMessage
<1>4. RowsOf(q, k) = RowsOf(Tail(q), k) \cup h.rows
  BY <1>1, <1>3, Zenon
<1>5. ASSUME NEW l, l # k
      PROVE  RowsOf(q, l) = RowsOf(Tail(q), l)
  <2>1. Given(h, l) = {}
    BY <1>1, <1>5
  <2>2. RowsOf(q, l) = RowsOf(Tail(q), l) \cup Given(h, l)
    BY <1>3
  <2>3. QED
    BY <2>1, <2>2
<1>6. h.rows \subseteq Row
  BY <1>2, Messages
<1>7. QED
  BY <1>2, <1>4, <1>5, <1>6, Zenon

\* The same for a message put in behind older rows.
LEMMA NewLast ==
  ASSUME NEW S \in SUBSET Msgs, NEW q \in Seq(S), Ordered(q), NEW m \in S,
         NEW k, m.kind = k, Before(RowsOf(q, k), m.rows)
  PROVE  /\ Ordered(Append(q, m))
         /\ RowsOf(Append(q, m), k) = RowsOf(q, k) \cup m.rows
         /\ \A l : l # k => RowsOf(Append(q, m), l) = RowsOf(q, l)
<1>1. Given(m, k) = m.rows /\ \A l : l # k => Given(m, l) = {}
  BY DEF Given
<1>2. Ordered(Append(q, m))
  BY AppendMessage
<1>3. \A l : RowsOf(Append(q, m), l) = RowsOf(q, l) \cup Given(m, l)
  BY AppendMessage
<1>4. RowsOf(Append(q, m), k) = RowsOf(q, k) \cup m.rows
  BY <1>1, <1>3, Zenon
<1>5. ASSUME NEW l, l # k
      PROVE  RowsOf(Append(q, m), l) = RowsOf(q, l)
  <2>1. Given(m, l) = {}
    BY <1>1, <1>5
  <2>2. RowsOf(Append(q, m), l) = RowsOf(q, l) \cup Given(m, l)
    BY <1>3
  <2>3. QED
    BY <2>1, <2>2
<1>6. QED
  BY <1>2, <1>4, <1>5, Zenon

\* A status holds no rows.
LEMMA StatusLast ==
  ASSUME NEW S \in SUBSET Msgs, NEW q \in Seq(S), Ordered(q), NEW m \in S,
         m \in StatusMsgs
  PROVE  Ordered(Append(q, m)) /\ \A k : RowsOf(Append(q, m), k) = RowsOf(q, k)
<1>1. m.rows = {}
  BY Messages
<1>2. Before(RowsOf(q, m.kind), m.rows)
  BY <1>1 DEF Before
<1>3. \A k : Given(m, k) = {}
  BY <1>1 DEF Given
<1>4. Ordered(Append(q, m))
  BY <1>2, AppendMessage
<1>5. ASSUME NEW k
      PROVE  RowsOf(Append(q, m), k) = RowsOf(q, k)
  <2>1. RowsOf(Append(q, m), k) = RowsOf(q, k) \cup Given(m, k)
    BY AppendMessage
  <2>2. QED
    BY <1>3, <2>1
<1>6. QED
  BY <1>4, <1>5
-----------------------------------------------------------------------------
(* The steps, one by one.                                                  *)

LEMMA Arrives ==
  ASSUME WayInv, HubSends
  PROVE  Arrival /\ Queues'
<1>1. PICK t \in Tables :
        fromHub' = Append(fromHub,
                          Message("Live", {[id |-> arrived + 1, table |-> t]}))
  BY DEF HubSends
<1> DEFINE r == [id |-> arrived + 1, table |-> t]
           S == StatusMsgs \cup LiveMsgs
<1>2. r \in Row /\ r.id = arrived + 1
  BY DEF Row, WayInv, TypeOK
<1>3. PICK m \in S : /\ fromHub' = Append(fromHub, m)
                    /\ m.kind = "Live" /\ m.rows = {r}
  BY <1>1, <1>2, Messages DEF Message
<1>4. fromHub \in Seq(S) /\ S \in SUBSET Msgs /\ Ordered(fromHub)
  BY QueueTypes DEF WayInv, TypeOK, Queues
<1>5. Before(RowsOf(fromHub, "Live"), m.rows)
  <2>1. \A s \in RowsOf(fromHub, "Live") : s.id \in Nat /\ s.id <= arrived
    BY Stages DEF WayInv, Ways, Numbered, RowsOf, Row
  <2>2. QED
    BY <2>1, <1>2, <1>3 DEF Before, WayInv, TypeOK
<1> HIDE DEF r, S
<1>6. Ordered(fromHub') /\ RowsOf(fromHub', "Live") = RowsOf(fromHub, "Live") \cup {r}
  <2>1. /\ Ordered(Append(fromHub, m))
        /\ RowsOf(Append(fromHub, m), "Live") = RowsOf(fromHub, "Live") \cup m.rows
    <3>1. m.kind = "Live"
      BY <1>3
    <3>2. QED
      BY <1>4, <1>5, <3>1, NewLast
  <2>2. QED
    BY <2>1, <1>3
<1>7. UNCHANGED <<commands, live, sent, inserts, buf, writing, db, popped>>
      /\ arrived' = arrived + 1
  BY DEF HubSends, dataVars
<1>8. Queues'
  BY <1>6, <1>7 DEF Queues, WayInv
<1>9. StoredWay'[7] = StoredWay[7] \cup {r}
  BY <1>6, Stages, NextStages
<1>10. /\ \A i \in 1..6 : StoredWay'[i] = StoredWay[i]
       /\ \A i \in 1..2 : LiveWay'[i] = LiveWay[i]
  BY <1>7, Stages, NextStages
<1>11. QED
  BY <1>2, <1>7, <1>8, <1>9, <1>10 DEF Arrival

\* Both ways start at fromHub.
LEMMA PassesOn ==
  ASSUME WayInv, FromHubTakesTelemetry
  PROVE  (StoredStep \/ LiveStep) /\ Queues'
<1> DEFINE h == Head(fromHub)
           S == StatusMsgs \cup LiveMsgs
<1>1. /\ h \in LiveMsgs /\ h.kind = "Live" /\ h.rows \in SUBSET Row
      /\ fromHub' = Tail(fromHub)
  BY Heads, Messages DEF FromHubTakesTelemetry, WayInv
<1>2. /\ Ordered(fromHub') /\ Before(h.rows, RowsOf(fromHub', "Live"))
      /\ RowsOf(fromHub, "Live") = RowsOf(fromHub', "Live") \cup h.rows
  <2>1. fromHub \in Seq(S) /\ S \in SUBSET Msgs /\ Ordered(fromHub)
    BY QueueTypes DEF WayInv, TypeOK, Queues
  <2>2. fromHub # <<>>
    BY DEF FromHubTakesTelemetry
  <2> HIDE DEF S, h
  <2>3. QED
    BY <1>1, <2>1, <2>2, LiveHead DEF h
<1>3. UNCHANGED <<commands, sent, buf, writing, db, popped, arrived>>
  BY DEF FromHubTakesTelemetry, envVars
<1>4. LiveMsgs \in SUBSET Msgs /\ live \in Seq(LiveMsgs) /\ inserts \in Seq(LiveMsgs)
  BY QueueTypes DEF WayInv, TypeOK
<1> HIDE DEF h
<1>5. CASE live' = Append(live, h) /\ inserts' = inserts
  <2>1. Before(RowsOf(live, "Live"), h.rows)
    <3>1. Before(LiveWay[2], LiveWay[3])
      BY DEF WayInv, Ways, Chain
    <3>2. QED
      BY <3>1, <1>2, Stages DEF Before
  <2>2. Ordered(live') /\ RowsOf(live', "Live") = RowsOf(live, "Live") \cup h.rows
    BY <1>1, <1>4, <1>5, <2>1, NewLast DEF WayInv, Queues
  <2>3. Queues'
    BY <1>2, <1>3, <1>5, <2>2 DEF Queues, WayInv
  <2>4. /\ LiveWay'[1] = LiveWay[1] /\ LiveWay'[2] = LiveWay[2] \cup h.rows
        /\ LiveWay[3] = LiveWay'[3] \cup h.rows /\ Before(h.rows, LiveWay'[3])
    BY <1>2, <1>3, <2>2, Stages, NextStages
  <2>5. Passes(3, LiveWay, LiveWay', 2, h.rows)
    BY <2>4 DEF Passes
  <2>6. \A i \in 1..6 : StoredWay'[i] = StoredWay[i]
    BY <1>3, <1>5, Stages, NextStages
  <2>7. LiveStep
    BY <1>1, <1>3, <2>5, <2>6 DEF LiveStep
  <2>8. QED
    BY <2>3, <2>7
<1>6. CASE inserts' = Append(inserts, h) /\ live' = live
  <2>1. Before(RowsOf(inserts, "Live"), h.rows)
    <3>1. Before(StoredWay[6], StoredWay[7])
      BY DEF WayInv, Ways, Chain
    <3>2. QED
      BY <3>1, <1>2, Stages DEF Before
  <2>2. Ordered(inserts') /\ RowsOf(inserts', "Live") = RowsOf(inserts, "Live") \cup h.rows
    BY <1>1, <1>4, <1>6, <2>1, NewLast DEF WayInv, Queues
  <2>3. Queues'
    BY <1>2, <1>3, <1>6, <2>2 DEF Queues, WayInv
  <2>4. /\ \A i \in 1..5 : StoredWay'[i] = StoredWay[i]
        /\ StoredWay'[6] = StoredWay[6] \cup h.rows
        /\ StoredWay[7] = StoredWay'[7] \cup h.rows /\ Before(h.rows, StoredWay'[7])
    BY <1>2, <1>3, <2>2, Stages, NextStages
  <2>5. Passes(7, StoredWay, StoredWay', 6, h.rows)
    BY <2>4 DEF Passes
  <2>6. \A i \in 1..2 : LiveWay'[i] = LiveWay[i]
    BY <1>3, <1>6, Stages, NextStages
  <2>7. StoredStep
    BY <1>1, <1>3, <2>5, <2>6 DEF StoredStep
  <2>8. QED
    BY <2>3, <2>7
<1>7. QED
  BY <1>5, <1>6 DEF FromHubTakesTelemetry, h

\* A live upload leaves the gateway, or is dropped.
LEMMA LiveLeaves ==
  ASSUME WayInv, ToServerTakesLive
  PROVE  (LiveStep \/ Loss) /\ Queues'
<1> DEFINE h == Head(live)
           S == LiveMsgs \cup BatchMsgs
<1>1. /\ h \in LiveMsgs /\ h.kind = "Live" /\ h.rows \in SUBSET Row
      /\ live' = Tail(live) /\ live # <<>>
  BY Heads, Messages DEF ToServerTakesLive, WayInv
<1>2. live \in Seq(LiveMsgs) /\ LiveMsgs \in SUBSET Msgs /\ Ordered(live)
  BY QueueTypes DEF WayInv, TypeOK, Queues
<1>3. sent \in Seq(S) /\ S \in SUBSET Msgs /\ h \in S /\ Ordered(sent)
  BY <1>1, QueueTypes DEF WayInv, TypeOK, Queues
<1>4. UNCHANGED <<fromHub, commands, inserts, buf, writing, db, popped, arrived>>
  BY DEF ToServerTakesLive, dataVars, envVars
<1> HIDE DEF h, S
<1>5. /\ Ordered(live') /\ Before(h.rows, RowsOf(live', "Live"))
      /\ RowsOf(live, "Live") = RowsOf(live', "Live") \cup h.rows
  BY <1>1, <1>2, LiveHead DEF h
<1>6. LiveWay[2] = LiveWay'[2] \cup h.rows /\ Before(h.rows, LiveWay'[2])
  BY <1>5, Stages, NextStages
<1>7. CASE sent' = Append(sent, h)
  <2>1. Before(RowsOf(sent, "Live"), h.rows)
    <3>1. Before(LiveWay[1], LiveWay[2])
      BY DEF WayInv, Ways, Chain
    <3>2. QED
      BY <3>1, <1>5, Stages DEF Before
  <2>2. /\ Ordered(sent') /\ RowsOf(sent', "Live") = RowsOf(sent, "Live") \cup h.rows
        /\ RowsOf(sent', "Batch") = RowsOf(sent, "Batch")
    BY <1>1, <1>3, <1>7, <2>1, NewLast
  <2>3. Queues'
    BY <1>4, <1>5, <2>2 DEF Queues, WayInv
  <2>4. LiveWay'[1] = LiveWay[1] \cup h.rows /\ LiveWay'[3] = LiveWay[3]
    BY <1>4, <2>2, Stages, NextStages
  <2>5. Passes(3, LiveWay, LiveWay', 1, h.rows)
    BY <1>6, <2>4 DEF Passes
  <2>6. \A i \in 1..6 : StoredWay'[i] = StoredWay[i]
    BY <1>4, <2>2, Stages, NextStages
  <2>7. LiveStep
    BY <1>1, <1>4, <2>5, <2>6 DEF LiveStep
  <2>8. QED
    BY <2>3, <2>7
<1>8. CASE sent' = sent /\ toServerSays = "ServerDisconnected"
  <2>1. Queues'
    BY <1>4, <1>5, <1>8 DEF Queues, WayInv
  <2>2. \A i \in 1..7 : StoredWay'[i] = StoredWay[i]
    BY <1>4, <1>8, Stages, NextStages
  <2>3. LiveWay'[1] = LiveWay[1] /\ LiveWay'[3] = LiveWay[3]
    BY <1>4, <1>8, Stages, NextStages
  <2>4. \A i \in 1..3 : LiveWay'[i] \subseteq LiveWay[i]
    BY <2>3, <1>6
  <2>5. QED
    BY <1>4, <1>8, <2>1, <2>2, <2>4 DEF Loss
<1>9. toServerSays \in {"ServerConnected", "ServerDisconnected"}
  BY DEF WayInv, TypeOK, Statuses
<1>10. QED
  BY <1>7, <1>8, <1>9 DEF ToServerTakesLive, Uploads, h

\* So does a batch.
LEMMA BatchLeaves ==
  ASSUME WayInv, ToServerTakesBatch
  PROVE  (StoredStep \/ Loss) /\ Queues'
<1> DEFINE h == Head(commands)
           S == LiveMsgs \cup BatchMsgs
           C == StatusMsgs \cup BatchMsgs
<1>1. /\ h \in BatchMsgs /\ h.kind = "Batch" /\ h.rows \in SUBSET Row
      /\ commands' = Tail(commands) /\ commands # <<>>
  BY Heads, Messages DEF ToServerTakesBatch, WayInv
<1>2. commands \in Seq(C) /\ C \in SUBSET Msgs /\ Ordered(commands)
  BY QueueTypes DEF WayInv, TypeOK, Queues
<1>3. sent \in Seq(S) /\ S \in SUBSET Msgs /\ h \in S /\ Ordered(sent)
  BY <1>1, QueueTypes DEF WayInv, TypeOK, Queues
<1>4. UNCHANGED <<fromHub, live, inserts, buf, writing, db, popped, arrived>>
  BY DEF ToServerTakesBatch, dataVars, envVars
<1> HIDE DEF h, S, C
<1>5. /\ Ordered(commands') /\ Before(h.rows, RowsOf(commands', "Batch"))
      /\ RowsOf(commands, "Batch") = RowsOf(commands', "Batch") \cup h.rows
  BY <1>1, <1>2, LiveHead DEF h
<1>6. StoredWay[2] = StoredWay'[2] \cup h.rows /\ Before(h.rows, StoredWay'[2])
  BY <1>5, Stages, NextStages
<1>7. /\ \A i \in 3..7 : StoredWay'[i] = StoredWay[i]
      /\ \A i \in 2..3 : LiveWay'[i] = LiveWay[i]
  BY <1>4, Stages, NextStages
<1>8. CASE sent' = Append(sent, h)
  <2>1. Before(RowsOf(sent, "Batch"), h.rows)
    <3>1. Before(StoredWay[1], StoredWay[2])
      BY DEF WayInv, Ways, Chain
    <3>2. QED
      BY <3>1, <1>5, Stages DEF Before
  <2>2. /\ Ordered(sent') /\ RowsOf(sent', "Batch") = RowsOf(sent, "Batch") \cup h.rows
        /\ RowsOf(sent', "Live") = RowsOf(sent, "Live")
    BY <1>1, <1>3, <1>8, <2>1, NewLast
  <2>3. Queues'
    BY <1>4, <1>5, <2>2 DEF Queues, WayInv
  <2>4. StoredWay'[1] = StoredWay[1] \cup h.rows /\ LiveWay'[1] = LiveWay[1]
    BY <2>2, Stages, NextStages
  <2>5. Passes(7, StoredWay, StoredWay', 1, h.rows)
    BY <1>6, <1>7, <2>4 DEF Passes
  <2>6. StoredStep
    BY <1>1, <1>4, <1>7, <2>4, <2>5 DEF StoredStep
  <2>7. QED
    BY <2>3, <2>6
<1>9. CASE sent' = sent /\ toServerSays = "ServerDisconnected"
  <2>1. Queues'
    BY <1>4, <1>5, <1>9 DEF Queues, WayInv
  <2>2. StoredWay'[1] = StoredWay[1] /\ LiveWay'[1] = LiveWay[1]
    BY <1>9, Stages, NextStages
  <2>3. /\ \A i \in 1..7 : StoredWay'[i] \subseteq StoredWay[i]
        /\ \A i \in 1..3 : LiveWay'[i] \subseteq LiveWay[i]
    BY <1>6, <1>7, <2>2
  <2>4. QED
    BY <1>4, <1>9, <2>1, <2>3 DEF Loss
<1>10. toServerSays \in {"ServerConnected", "ServerDisconnected"}
  BY DEF WayInv, TypeOK, Statuses
<1>11. QED
  BY <1>8, <1>9, <1>10 DEF ToServerTakesBatch, Uploads, h

\* The batch that get_all_tables has gathered is sent.
LEMMA BatchIsSent ==
  ASSUME WayInv, BatchEnds
  PROVE  (StoredStep \/ Still) /\ Queues'
<1> DEFINE m == Message("Batch", popped)
           C == StatusMsgs \cup BatchMsgs
<1>1. /\ m \in BatchMsgs /\ m.kind = "Batch" /\ m.rows = popped
      /\ popped \in SUBSET Row
  BY Messages DEF Message, WayInv, TypeOK
<1>2. commands \in Seq(C) /\ C \in SUBSET Msgs /\ Ordered(commands) /\ m \in C
  BY <1>1, QueueTypes DEF WayInv, TypeOK, Queues
<1>3. UNCHANGED <<fromHub, live, sent, inserts, buf, writing, db, arrived>>
      /\ popped' = {}
  BY DEF BatchEnds, envVars
<1> HIDE DEF m, C
<1>4. CASE popped = {} /\ commands' = commands
  <2>1. Queues'
    BY <1>3, <1>4 DEF Queues, WayInv
  <2>2. Still
    BY <1>3, <1>4, Stages, NextStages DEF Still
  <2>3. QED
    BY <2>1, <2>2
<1>5. CASE commands' = Append(commands, m)
  <2>1. Before(RowsOf(commands, "Batch"), m.rows)
    <3>1. Before(StoredWay[2], StoredWay[3])
      BY DEF WayInv, Ways, Chain
    <3>2. QED
      BY <3>1, <1>1, Stages
  <2>2. /\ Ordered(commands')
        /\ RowsOf(commands', "Batch") = RowsOf(commands, "Batch") \cup m.rows
    BY <1>1, <1>2, <1>5, <2>1, NewLast
  <2>3. Queues'
    BY <1>3, <2>2 DEF Queues, WayInv
  <2>4. /\ StoredWay'[2] = StoredWay[2] \cup popped
        /\ StoredWay[3] = StoredWay'[3] \cup popped /\ Before(popped, StoredWay'[3])
    BY <1>1, <1>3, <2>2, Stages, NextStages DEF Before
  <2>5. /\ \A i \in (1..7) \ {2, 3} : StoredWay'[i] = StoredWay[i]
        /\ \A i \in 1..2 : LiveWay'[i] = LiveWay[i]
    BY <1>3, Stages, NextStages
  <2>6. Passes(7, StoredWay, StoredWay', 2, popped)
    BY <2>4, <2>5 DEF Passes
  <2>7. StoredStep
    BY <1>1, <1>3, <2>5, <2>6 DEF StoredStep
  <2>8. QED
    BY <2>3, <2>7
<1>6. QED
  BY <1>4, <1>5 DEF BatchEnds, m

\* A row is gathered in the buffer.
LEMMA RowIsGathered ==
  ASSUME WayInv, InsertTakesTelemetry
  PROVE  StoredStep /\ Queues'
<1>1. PICK r \in Row : /\ Head(inserts).rows = {r}
                     /\ buf' = [buf EXCEPT ![r.table] = Append(@, r)]
  BY TakesOneRow DEF WayInv
<1> DEFINE h == Head(inserts)
           u == r.table
<1>2. u \in Tables /\ r \in RowOf(u) /\ h.rows = {r} /\ u > 0
  BY <1>1 DEF Row, RowOf, Tables
<1>3. inserts # <<>> /\ inserts' = Tail(inserts) /\ writing = 0 /\ writing' \in {0, 1}
  BY DEF InsertTakesTelemetry
<1>4. h.kind = "Live" /\ inserts \in Seq(LiveMsgs) /\ LiveMsgs \in SUBSET Msgs
      /\ Ordered(inserts)
  BY <1>3, Heads, Messages, QueueTypes DEF WayInv, TypeOK, Queues
<1>5. UNCHANGED <<fromHub, live, commands, sent, db, popped, arrived>>
  BY DEF InsertTakesTelemetry, envVars, msgVars
<1> HIDE DEF h
<1>6. /\ Ordered(inserts') /\ Before({r}, RowsOf(inserts', "Live"))
      /\ RowsOf(inserts, "Live") = RowsOf(inserts', "Live") \cup {r}
  <2>1. /\ Ordered(Tail(inserts)) /\ Before(h.rows, RowsOf(Tail(inserts), "Live"))
        /\ RowsOf(inserts, "Live") = RowsOf(Tail(inserts), "Live") \cup h.rows
    <3>1. inserts # <<>> /\ h = Head(inserts)
      BY <1>3 DEF h
    <3>2. QED
      BY <1>4, <3>1, LiveHead
  <2>2. QED
    BY <2>1, <1>2, <1>3
<1>7. /\ buf \in [Tables -> Seq(Row)] /\ \A t \in Tables : buf[t] \in Seq(RowOf(t))
  BY DEF WayInv, TypeOK
<1>8. /\ buf'[u] = Append(buf[u], r) /\ \A t \in Tables \ {u} : buf'[t] = buf[t]
  BY <1>1, <1>2, <1>7
<1>9. /\ ToSet(buf'[u]) = ToSet(buf[u]) \cup {r}
      /\ Ascending(buf[u]) /\ Before(ToSet(buf[u]), {r}) => Ascending(buf'[u])
  <2>1. buf[u] \in Seq(RowOf(u))
    BY <1>2, <1>7
  <2>2. ASSUME NEW b \in Seq(RowOf(u))
        PROVE  /\ ToSet(Append(b, r)) = ToSet(b) \cup {r}
               /\ Ascending(b) /\ Before(ToSet(b), {r}) => Ascending(Append(b, r))
    <3>1. u \in Tables /\ r \in RowOf(u)
      BY <1>2
    <3> HIDE DEF u
    <3>2. QED
      BY <3>1, AppendRow
  <2>3. QED
    BY <1>8, <2>1, <2>2
<1>10. \A s \in Row : s.table \in Tables /\ s.table >= 0 /\ s.table >= 1
  BY DEF Row, Tables
<1>11. RowsFrom(buf', writing') = RowsFrom(buf, writing) \cup {r}
  <2>1. ASSUME NEW s \in Row
        PROVE  s \in ToSet(buf'[s.table]) <=> s \in ToSet(buf[s.table]) \cup {r}
    <3>1. CASE s.table = u
      BY <3>1, <1>9
    <3>2. CASE s.table # u
      BY <3>2, <1>8, <1>10
    <3>3. QED
      BY <3>1, <3>2
  <2>2. \A s \in Row : s.table >= writing /\ s.table >= writing'
    BY <1>3, <1>10
  <2>3. QED
    BY <2>1, <2>2 DEF RowsFrom
<1>12. Ascending(buf'[u])
  <2>1. \A s \in ToSet(buf[u]) : s \in Row /\ s.table = u
    BY <1>2, <1>7, TableRows
  <2>2. \A s \in ToSet(buf[u]) : s \in StoredWay[5]
    BY <2>1, <1>3, <1>10, Stages DEF RowsFrom
  <2>3. Before(StoredWay[5], StoredWay[6]) /\ r \in StoredWay[6]
    BY <1>6, Stages DEF WayInv, Ways, Chain
  <2>4. Before(ToSet(buf[u]), {r})
    BY <2>2, <2>3 DEF Before
  <2>5. QED
    BY <2>4, <1>2, <1>9 DEF WayInv, Queues
<1>13. Queues'
  <2>1. \A t \in Tables : Ascending(buf'[t])
    BY <1>8, <1>12 DEF WayInv, Queues
  <2>2. QED
    BY <2>1, <1>5, <1>6 DEF WayInv, Queues
<1>14. /\ StoredWay'[5] = StoredWay[5] \cup {r}
       /\ StoredWay[6] = StoredWay'[6] \cup {r} /\ Before({r}, StoredWay'[6])
  BY <1>6, <1>11, Stages, NextStages
<1>15. /\ \A i \in (1..7) \ {5, 6} : StoredWay'[i] = StoredWay[i]
       /\ \A i \in 1..2 : LiveWay'[i] = LiveWay[i]
  BY <1>5, Stages, NextStages
<1>16. Passes(7, StoredWay, StoredWay', 5, {r})
  BY <1>14, <1>15 DEF Passes
<1>17. {r} \in SUBSET Row
  OBVIOUS
<1>18. StoredStep
  BY <1>5, <1>15, <1>16, <1>17 DEF StoredStep
<1>19. QED
  BY <1>13, <1>18

\* A table of the buffer is written.
LEMMA TableIsWritten ==
  ASSUME WayInv, WritesTable
  PROVE  StoredStep /\ Queues'
<1> DEFINE w == writing
           M == ToSet(buf[w])
<1>1. w \in Tables /\ w \in Nat /\ w > 0 /\ NTables \in Nat
  BY SizesAssumption DEF WayInv, TypeOK, WritesTable, Tables
<1>2. /\ buf \in [Tables -> Seq(Row)] /\ \A t \in Tables : buf[t] \in Seq(RowOf(t))
      /\ db \in [Tables -> Seq(Row)] /\ \A t \in Tables : db[t] \in Seq(RowOf(t))
  BY DEF WayInv, TypeOK
<1>3. UNCHANGED <<fromHub, live, commands, sent, inserts, popped, arrived>>
  BY DEF WritesTable, envVars, msgVars
<1>4. db'[w] = db[w] \o buf[w] /\ \A t \in Tables \ {w} : db'[t] = db[t]
  BY <1>1, <1>2 DEF WritesTable
<1>5. /\ ToSet(db'[w]) = ToSet(db[w]) \cup M
      /\ Ascending(db[w]) /\ Ascending(buf[w]) /\ Before(ToSet(db[w]), M)
           => Ascending(db'[w])
  BY <1>1, <1>2, <1>4, ConcatTables
<1>6. /\ \A s \in M : s \in Row /\ s.table = w
      /\ \A s \in ToSet(db[w]) : s \in Row /\ s.table = w
  BY <1>1, <1>2, TableRows
<1>7. \A s \in Row : s.table \in Tables /\ s.table \in Nat /\ s.table >= 0
                  /\ s.table <= NTables
  BY SizesAssumption DEF Row, Tables
<1> HIDE DEF M
<1>8. RowsFrom(db', 0) = RowsFrom(db, 0) \cup M
  <2>1. ASSUME NEW s \in Row
        PROVE  s \in ToSet(db'[s.table]) <=> s \in ToSet(db[s.table]) \cup M
    <3>1. CASE s.table = w
      BY <3>1, <1>5
    <3>2. CASE s.table # w
      BY <3>2, <1>4, <1>6, <1>7
    <3>3. QED
      BY <3>1, <3>2
  <2>2. QED
    BY <2>1, <1>6, <1>7 DEF RowsFrom
<1>9. \A s \in Row : s \in RowsFrom(buf, w) <=>
        s \in M \/ (s.table > w /\ s \in ToSet(buf[s.table]))
  <2>1. ASSUME NEW s \in Row, s \in M
        PROVE  s \in RowsFrom(buf, w)
    BY <2>1, <1>1, <1>6 DEF RowsFrom, M
  <2>2. ASSUME NEW s \in Row, s.table = w
        PROVE  s \in RowsFrom(buf, w) <=> s \in M
    BY <2>2, <1>1 DEF RowsFrom, M
  <2>3. ASSUME NEW s \in Row, s.table > w
        PROVE  s \in RowsFrom(buf, w) <=> s \in ToSet(buf[s.table])
    BY <2>3, <1>1, <1>7 DEF RowsFrom
  <2>4. ASSUME NEW s \in Row, s.table < w
        PROVE  s \notin RowsFrom(buf, w)
    BY <2>4, <1>1, <1>7 DEF RowsFrom
  <2>5. ASSUME NEW s \in Row, s.table # w
        PROVE  s \notin M
    BY <2>5, <1>6
  <2>6. ASSUME NEW s \in Row
        PROVE  s.table = w \/ s.table < w \/ s.table > w
    BY <1>1, <1>7
  <2>7. \A s \in Row : s.table > w => ~(s.table < w) /\ s.table # w
    BY <1>1, <1>7
  <2>8. QED
    BY <2>1, <2>2, <2>3, <2>4, <2>5, <2>6, <2>7
<1>10. \A s \in Row : s \in RowsFrom(buf', writing') <=>
         s.table > w /\ s \in ToSet(buf[s.table])
  <2>1. CASE w = NTables /\ writing' = 0 /\ buf' = NoRows
    <3>1. \A s \in Row : ToSet(buf'[s.table]) = {}
      BY <2>1, <1>7, Empty DEF ToSet
    <3>2. \A s \in Row : ~(s.table > w)
      BY <2>1, <1>1, <1>7
    <3>3. QED
      BY <3>1, <3>2 DEF RowsFrom
  <2>2. CASE writing' = w + 1 /\ buf' = buf
    <3>1. \A s \in Row : s.table >= writing' <=> s.table > w
      BY <2>2, <1>1, <1>7
    <3>2. QED
      BY <3>1, <2>2 DEF RowsFrom
  <2>3. QED
    BY <2>1, <2>2 DEF WritesTable
<1>11. /\ RowsFrom(buf, w) = RowsFrom(buf', writing') \cup M
       /\ Before(M, RowsFrom(buf', writing'))
  <2>1. \A d, k : RowsFrom(d, k) \subseteq Row
    BY DEF RowsFrom
  <2>2. RowsFrom(buf, w) = RowsFrom(buf', writing') \cup M
    BY <2>1, <1>6, <1>9, <1>10
  <2>3. \A s \in RowsFrom(buf', writing') : s.table # w
    BY <2>1, <1>1, <1>7, <1>10
  <2>4. QED
    BY <2>2, <2>3, <1>6 DEF Before
<1>12. Queues'
  <2>1. Before(ToSet(db[w]), M)
    <3>1. \A s \in ToSet(db[w]) : s \in StoredWay[4]
      <4>1. \A s \in ToSet(db[w]) : s \in RowsFrom(db, 0)
        BY <1>6, <1>7 DEF RowsFrom
      <4>2. StoredWay[4] = RowsFrom(db, 0)
        BY Stages
      <4>3. QED
        BY <4>1, <4>2
    <3>2. M \subseteq StoredWay[5]
      <4>1. StoredWay[5] = RowsFrom(buf, w)
        BY Stages
      <4>2. QED
        BY <4>1, <1>11
    <3>3. Before(StoredWay[4], StoredWay[5])
      BY DEF WayInv, Ways, Chain
    <3>4. QED
      BY <3>1, <3>2, <3>3 DEF Before
  <2>2. \A t \in Tables : Ascending(db'[t])
    BY <2>1, <1>1, <1>4, <1>5 DEF WayInv, Queues
  <2>3. \A t \in Tables : Ascending(buf'[t])
    <3>1. CASE buf' = buf
      BY <3>1 DEF WayInv, Queues
    <3>2. CASE buf' = NoRows
      BY <3>2, Empty DEF Ascending
    <3>3. QED
      BY <3>1, <3>2 DEF WritesTable
  <2>4. QED
    BY <2>2, <2>3, <1>3 DEF WayInv, Queues
<1>13. /\ StoredWay'[4] = StoredWay[4] \cup M
       /\ StoredWay[5] = StoredWay'[5] \cup M /\ Before(M, StoredWay'[5])
  BY <1>8, <1>11, Stages, NextStages
<1>14. /\ \A i \in (1..7) \ {4, 5} : StoredWay'[i] = StoredWay[i]
       /\ \A i \in 1..2 : LiveWay'[i] = LiveWay[i]
  BY <1>3, Stages, NextStages
<1>15. Passes(7, StoredWay, StoredWay', 4, M) /\ M \in SUBSET Row
  BY <1>6, <1>13, <1>14 DEF Passes
<1>16. StoredStep
  BY <1>3, <1>14, <1>15 DEF StoredStep
<1>17. QED
  BY <1>12, <1>16

\* The oldest rows of a table are taken out.
LEMMA RowsArePopped ==
  ASSUME WayInv, PopsTable
  PROVE  StoredStep /\ Queues'
<1> DEFINE u == popping
           s == db[u]
           n == IF Len(s) < Limit THEN Len(s) ELSE Limit
           M == ToSet(SubSeq(s, 1, n))
           R == SubSeq(s, n + 1, Len(s))
<1>1. /\ u \in Tables /\ s \in Seq(RowOf(u)) /\ n \in 0..Len(s)
      /\ db \in [Tables -> Seq(Row)] /\ Ascending(s)
      /\ \A t \in Tables : db[t] \in Seq(RowOf(t))
  <2>1. /\ u \in Tables /\ db \in [Tables -> Seq(Row)]
        /\ \A t \in Tables : db[t] \in Seq(RowOf(t)) /\ Ascending(db[t])
    BY DEF WayInv, TypeOK, Queues, PopsTable
  <2>2. s \in Seq(RowOf(u)) /\ Ascending(s) /\ Limit \in Nat
    BY <2>1, SizesAssumption
  <2> HIDE DEF s
  <2>3. Len(s) \in Nat
    BY <2>2
  <2>4. QED
    BY <2>1, <2>2, <2>3
<1>2. /\ R \in Seq(RowOf(u)) /\ ToSet(s) = M \cup ToSet(R)
      /\ Ascending(R) /\ Before(M, ToSet(R)) /\ SubSeq(s, 1, n) \in Seq(RowOf(u))
  BY <1>1, SplitTable
<1>3. popped' = popped \cup M /\ db' = [db EXCEPT ![u] = R]
  BY DEF PopsTable
<1>4. UNCHANGED <<fromHub, live, commands, sent, inserts, buf, writing, arrived>>
  BY DEF PopsTable, envVars, msgVars
<1>5. db'[u] = R /\ \A t \in Tables \ {u} : db'[t] = db[t]
  BY <1>1, <1>3
<1>6. /\ \A r \in M : r \in Row /\ r.table = u
      /\ \A r \in ToSet(R) : r \in Row /\ r.table = u
  BY <1>1, <1>2, TableRows
<1>7. \A r \in Row : r.table \in Tables /\ r.table >= 0
  BY DEF Row, Tables
<1> HIDE DEF M, R, n, s, u
<1>8. RowsFrom(db, 0) = RowsFrom(db', 0) \cup M
  <2>1. ASSUME NEW r \in Row
        PROVE  r \in ToSet(db[r.table]) <=> r \in ToSet(db'[r.table]) \cup M
    <3>1. CASE r.table = u
      BY <3>1, <1>2, <1>5 DEF s
    <3>2. CASE r.table # u
      BY <3>2, <1>5, <1>6, <1>7
    <3>3. QED
      BY <3>1, <3>2
  <2>2. QED
    BY <2>1, <1>6, <1>7 DEF RowsFrom
<1>9. Before(M, RowsFrom(db', 0))
  <2>1. ASSUME NEW r \in RowsFrom(db', 0), r.table = u
        PROVE  r \in ToSet(R)
    BY <2>1, <1>5 DEF RowsFrom
  <2>2. QED
    BY <2>1, <1>2, <1>6 DEF Before
<1>10. Queues'
  <2>1. \A t \in Tables : Ascending(db'[t])
    BY <1>2, <1>5 DEF WayInv, Queues
  <2>2. QED
    BY <2>1, <1>4 DEF WayInv, Queues
<1>11. /\ StoredWay'[3] = StoredWay[3] \cup M
       /\ StoredWay[4] = StoredWay'[4] \cup M /\ Before(M, StoredWay'[4])
  BY <1>3, <1>8, <1>9, Stages, NextStages
<1>12. /\ \A i \in (1..7) \ {3, 4} : StoredWay'[i] = StoredWay[i]
       /\ \A i \in 1..2 : LiveWay'[i] = LiveWay[i]
  BY <1>4, Stages, NextStages
<1>13. Passes(7, StoredWay, StoredWay', 3, M) /\ M \in SUBSET Row
  BY <1>6, <1>11, <1>12 DEF Passes
<1>14. StoredStep
  BY <1>4, <1>12, <1>13 DEF StoredStep
<1>15. QED
  BY <1>10, <1>14

\* A status moves no row.
LEMMA StatusPasses ==
  ASSUME WayInv, FromHubTakesStatus \/ ToServerTakesStatus
  PROVE  Still /\ Queues'
<1>1. CASE FromHubTakesStatus
  <2> DEFINE k == Head(fromHub).kind
             S == StatusMsgs \cup LiveMsgs
  <2>1. /\ fromHub # <<>> /\ fromHub' = Tail(fromHub) /\ k # "Live"
        /\ UNCHANGED <<live, commands, sent, inserts, buf, writing, db, popped, arrived>>
    BY <1>1, Messages DEF FromHubTakesStatus, dataVars, envVars
  <2>2. fromHub \in Seq(S) /\ S \in SUBSET Msgs /\ Ordered(fromHub)
    BY QueueTypes DEF WayInv, TypeOK, Queues
  <2> HIDE DEF k, S
  <2>3. /\ Ordered(Tail(fromHub))
        /\ \A l : l # k => RowsOf(fromHub, l) = RowsOf(Tail(fromHub), l)
    BY <2>1, <2>2, LiveHead DEF k
  <2>4. Ordered(fromHub') /\ RowsOf(fromHub', "Live") = RowsOf(fromHub, "Live")
    BY <2>1, <2>3
  <2>5. Still
    BY <2>1, <2>4, Stages, NextStages DEF Still
  <2>6. QED
    BY <2>1, <2>4, <2>5 DEF WayInv, Queues
<1>2. CASE ToServerTakesStatus
  <2> DEFINE k == Head(commands).kind
             S == StatusMsgs \cup BatchMsgs
  <2>1. /\ commands # <<>> /\ commands' = Tail(commands) /\ k # "Batch"
        /\ UNCHANGED <<live, fromHub, sent, inserts, buf, writing, db, popped, arrived>>
    BY <1>2, Messages DEF ToServerTakesStatus, dataVars, envVars
  <2>2. commands \in Seq(S) /\ S \in SUBSET Msgs /\ Ordered(commands)
    BY QueueTypes DEF WayInv, TypeOK, Queues
  <2> HIDE DEF k, S
  <2>3. /\ Ordered(Tail(commands))
        /\ \A l : l # k => RowsOf(commands, l) = RowsOf(Tail(commands), l)
    BY <2>1, <2>2, LiveHead DEF k
  <2>4. Ordered(commands') /\ RowsOf(commands', "Batch") = RowsOf(commands, "Batch")
    BY <2>1, <2>3
  <2>5. Still
    BY <2>1, <2>4, Stages, NextStages DEF Still
  <2>6. QED
    BY <2>1, <2>4, <2>5 DEF WayInv, Queues
<1>3. QED
  BY <1>1, <1>2

\* A notice of a service moves no row either.
LEMMA NoticeComesIn ==
  ASSUME WayInv, HeartbeatNotifies \/ GrpcNotifies
  PROVE  Still /\ Queues'
<1>1. PICK s \in Statuses : TellsMessageService(s)
  BY DEF HeartbeatNotifies, GrpcNotifies
<1>2. UNCHANGED <<live, sent, inserts, buf, writing, db, popped, arrived>>
  BY DEF HeartbeatNotifies, GrpcNotifies, dataVars
<1>3. PICK m \in StatusMsgs : /\ fromHub' = Append(fromHub, m)
                             /\ commands' = Append(commands, m)
  BY <1>1, Messages DEF TellsMessageService
<1>4. Ordered(fromHub') /\ RowsOf(fromHub', "Live") = RowsOf(fromHub, "Live")
  <2> DEFINE S == StatusMsgs \cup LiveMsgs
  <2>1. fromHub \in Seq(S) /\ S \in SUBSET Msgs /\ Ordered(fromHub) /\ m \in S
    BY QueueTypes DEF WayInv, TypeOK, Queues
  <2> HIDE DEF S
  <2>2. QED
    BY <2>1, <1>3, StatusLast
<1>5. Ordered(commands') /\ RowsOf(commands', "Batch") = RowsOf(commands, "Batch")
  <2> DEFINE S == StatusMsgs \cup BatchMsgs
  <2>1. commands \in Seq(S) /\ S \in SUBSET Msgs /\ Ordered(commands) /\ m \in S
    BY QueueTypes DEF WayInv, TypeOK, Queues
  <2> HIDE DEF S
  <2>2. QED
    BY <2>1, <1>3, StatusLast
<1>6. Still
  BY <1>2, <1>4, <1>5, Stages, NextStages DEF Still
<1>7. QED
  BY <1>2, <1>4, <1>5, <1>6 DEF WayInv, Queues

\* A flush starts with every table unwritten, as it was.
LEMMA NothingMoves ==
  ASSUME WayInv, FlushTick \/ GetTakesNotice \/ UNCHANGED vars
  PROVE  Still /\ Queues'
<1>1. UNCHANGED <<fromHub, live, commands, sent, inserts, buf, db, popped, arrived>>
  BY DEF FlushTick, GetTakesNotice, vars, envVars, msgVars, dataVars
<1>2. writing' = writing \/ (writing = 0 /\ writing' = 1)
  BY DEF FlushTick, GetTakesNotice, vars, dataVars
<1>3. \A r \in Row : r.table >= writing' <=> r.table >= writing
  BY <1>2 DEF Row, Tables
<1>4. RowsFrom(buf', writing') = RowsFrom(buf, writing)
  BY <1>1, <1>3 DEF RowsFrom
<1>5. Still
  BY <1>1, <1>4, Stages, NextStages DEF Still
<1>6. QED
  BY <1>1, <1>5 DEF WayInv, Queues

LEMMA EmptyQueue == Ordered(<<>>) /\ \A k : RowsOf(<<>>, k) = {}
BY DEF Ordered, RowsOf

LEMMA EmptyTables ==
  /\ \A w : RowsFrom(NoRows, w) = {}
  /\ \A t \in Tables : Ascending(NoRows[t])
<1>1. \A t \in Tables : ToSet(NoRows[t]) = {} /\ Ascending(NoRows[t])
  BY Empty DEF ToSet, Ascending
<1>2. \A r \in Row : r.table \in Tables
  BY DEF Row
<1>3. QED
  BY <1>1, <1>2 DEF RowsFrom

\* An error or the end of the process loses rows and moves none.
LEMMA MishapLoses ==
  ASSUME WayInv, WriteFails \/ PopFails \/ Restarts
  PROVE  Loss /\ Queues'
<1>1. mishaps' # mishaps /\ arrived' = arrived
  BY DEF WayInv, TypeOK, WriteFails, PopFails, Restarts
<1>2. CASE WriteFails
  <2>1. /\ buf' = NoRows
        /\ UNCHANGED <<fromHub, live, commands, sent, inserts, db, popped>>
    BY <1>2 DEF WriteFails, msgVars
  <2>2. /\ StoredWay'[5] = {} /\ \A i \in (1..7) \ {5} : StoredWay'[i] = StoredWay[i]
        /\ \A i \in 1..3 : LiveWay'[i] = LiveWay[i]
    BY <2>1, EmptyTables, Stages, NextStages
  <2>3. Loss
    BY <1>1, <2>2 DEF Loss
  <2>4. QED
    BY <2>1, <2>3, EmptyTables DEF WayInv, Queues
<1>3. CASE PopFails
  <2>1. /\ popped' = {}
        /\ UNCHANGED <<fromHub, live, commands, sent, inserts, buf, writing, db>>
    BY <1>3 DEF PopFails, msgVars
  <2>2. /\ StoredWay'[3] = {} /\ \A i \in (1..7) \ {3} : StoredWay'[i] = StoredWay[i]
        /\ \A i \in 1..3 : LiveWay'[i] = LiveWay[i]
    BY <2>1, Stages, NextStages
  <2>3. Loss
    BY <1>1, <2>2 DEF Loss
  <2>4. QED
    BY <2>1, <2>3 DEF WayInv, Queues
<1>4. CASE Restarts
  <2>1. /\ fromHub' = <<>> /\ live' = <<>> /\ commands' = <<>> /\ inserts' = <<>>
        /\ buf' = NoRows /\ popped' = {} /\ UNCHANGED <<sent, db>>
    BY <1>4 DEF Restarts
  <2>2. /\ StoredWay'[1] = StoredWay[1] /\ StoredWay'[4] = StoredWay[4]
        /\ \A i \in (1..7) \ {1, 4} : StoredWay'[i] = {}
        /\ LiveWay'[1] = LiveWay[1] /\ \A i \in 2..3 : LiveWay'[i] = {}
    BY <2>1, EmptyQueue, EmptyTables, Stages, NextStages
  <2>3. Loss
    BY <1>1, <2>2 DEF Loss
  <2>4. QED
    BY <2>1, <2>3, EmptyQueue, EmptyTables DEF WayInv, Queues
<1>5. QED
  BY <1>2, <1>3, <1>4

\* Every step of the gateway is one of these.
LEMMA StepKinds ==
  ASSUME WayInv, [Next]_vars
  PROVE  (Still \/ StoredStep \/ LiveStep \/ Arrival \/ Loss) /\ Queues'
BY Arrives, PassesOn, LiveLeaves, BatchLeaves, BatchIsSent, RowIsGathered,
   TableIsWritten, RowsArePopped, StatusPasses, NoticeComesIn, NothingMoves,
   MishapLoses DEF Next
-----------------------------------------------------------------------------
(* The order of the stages survives every kind of step.                    *)

LEMMA BeforeIsApart ==
  ASSUME NEW A \in SUBSET Row, NEW B \in SUBSET Row, Before(A, B)
  PROVE  A \cap B = {}
BY DEF Before, Row

\* The oldest rows of a stage may go on to the next one.
LEMMA PassKeepsChain ==
  ASSUME NEW n \in Nat, NEW V, NEW W, NEW k \in 1..(n - 1), NEW M,
         Chain(n, V), Passes(n, V, W, k, M)
  PROVE  Chain(n, W)
<1>1. SUFFICES ASSUME NEW i \in 1..n, NEW j \in 1..n, i < j
               PROVE  Before(W[i], W[j])
  BY DEF Chain
<1>2. /\ k \in 1..n /\ k + 1 \in 1..n /\ k < k + 1
      /\ W[k] = V[k] \cup M /\ V[k + 1] = W[k + 1] \cup M /\ Before(M, W[k + 1])
      /\ \A l \in (1..n) \ {k, k + 1} : W[l] = V[l]
  BY DEF Passes
<1>3. \A l \in (1..n) \ {k} : W[l] \subseteq V[l]
  BY <1>2
<1>4. \A a, b \in 1..n : a < b => Before(V[a], V[b])
  BY DEF Chain
<1>5. CASE i # k /\ j # k
  BY <1>1, <1>3, <1>4, <1>5 DEF Before
<1>6. CASE j = k
  <2>1. i < k + 1 /\ i # k
    BY <1>1, <1>2, <1>6
  <2>2. Before(V[i], V[k]) /\ Before(V[i], V[k + 1]) /\ W[i] \subseteq V[i]
    BY <2>1, <1>1, <1>2, <1>3, <1>4, <1>6
  <2>3. QED
    BY <2>2, <1>2, <1>6 DEF Before
<1>7. CASE i = k
  <2>1. W[j] \subseteq V[j] /\ Before(V[k], V[j])
    BY <1>1, <1>2, <1>3, <1>4, <1>7
  <2>2. Before(M, W[j])
    <3>1. CASE j = k + 1
      BY <3>1, <1>2
    <3>2. CASE k + 1 < j
      <4>1. Before(V[k + 1], V[j])
        BY <3>2, <1>2, <1>4
      <4>2. QED
        BY <4>1, <2>1, <1>2 DEF Before
    <3>3. QED
      BY <3>1, <3>2, <1>1, <1>2, <1>7
  <2>3. QED
    BY <2>1, <2>2, <1>2, <1>7 DEF Before
<1>8. QED
  BY <1>5, <1>6, <1>7

Shrinks(n, V, W) == \A i \in 1..n : W[i] \subseteq V[i]

LEMMA ShrinkKeepsChain ==
  ASSUME NEW n \in Nat, NEW V, NEW W, Chain(n, V), Shrinks(n, V, W)
  PROVE  Chain(n, W)
BY DEF Chain, Before, Shrinks

\* A new row at the start, younger than all others.
Grows(n, V, W, M) ==
    /\ W[n] = V[n] \cup M
    /\ \A i \in 1..(n - 1) : W[i] = V[i] /\ Before(V[i], M)

LEMMA GrowthKeepsChain ==
  ASSUME NEW n \in Nat, n > 0, NEW V, NEW W, NEW M, Chain(n, V), Grows(n, V, W, M)
  PROVE  Chain(n, W)
<1> SUFFICES ASSUME NEW i \in 1..n, NEW j \in 1..n, i < j
             PROVE  Before(W[i], W[j])
  BY DEF Chain
<1>1. i \in 1..(n - 1) /\ W[i] = V[i] /\ Before(V[i], M) /\ Before(V[i], V[j])
  BY DEF Chain, Grows
<1>2. CASE j = n
  BY <1>1, <1>2 DEF Before, Grows
<1>3. CASE j \in 1..(n - 1)
  BY <1>1, <1>3 DEF Grows
<1>4. QED
  BY <1>2, <1>3

\* The two ways share their start.
LEMMA SharedStart == /\ StoredWay[7] = LiveWay[3] /\ StoredWay'[7] = LiveWay'[3]
BY Stages, NextStages

\* Rows that have not left fromHub are nowhere else.
LEMMA StartIsApart ==
  ASSUME TypeOK, Ways
  PROVE  /\ \A i \in 1..2 : LiveWay[i] \cap LiveWay[3] = {}
         /\ \A j \in 1..6 : LiveWay[3] \cap StoredWay[j] = {}
<1>1. /\ \A i \in 1..2 : Before(LiveWay[i], LiveWay[3])
      /\ \A j \in 1..6 : Before(StoredWay[j], StoredWay[7])
  BY DEF Ways, Chain
<1>2. /\ \A i \in 1..2 : LiveWay[i] \cap LiveWay[3] = {}
      /\ \A j \in 1..6 : StoredWay[j] \cap StoredWay[7] = {}
  BY <1>1, StagesAreRows, BeforeIsApart
<1>3. QED
  BY <1>2, SharedStart

\* Every kind of step keeps the order of the stages.
LEMMA WaysNext ==
  ASSUME WayInv, [Next]_vars
  PROVE  Ways'
<1> DEFINE S == StoredWay
           T == StoredWay'
           L == LiveWay
           K == LiveWay'
<1>1. /\ Chain(7, S) /\ Chain(3, L) /\ S[7] = L[3] /\ T[7] = K[3]
      /\ \A i \in 1..2, j \in 1..6 : L[i] \cap S[j] = {}
      /\ \A i \in 1..2 : L[i] \cap L[3] = {}
      /\ \A j \in 1..6 : L[3] \cap S[j] = {}
      /\ \A i \in 1..7 : \A r \in S[i] : r.id <= arrived
      /\ \A i \in 1..3 : \A r \in L[i] : r.id <= arrived
  BY SharedStart, StartIsApart DEF WayInv, Ways, Apart, Numbered
<1>2. /\ \A i \in 1..7 : S[i] \subseteq Row
      /\ \A i \in 1..3 : L[i] \subseteq Row
  BY StagesAreRows DEF WayInv
<1>3. arrived \in Nat
  BY DEF WayInv, TypeOK
<1>4. SUFFICES /\ Chain(7, T) /\ Chain(3, K)
               /\ \A i \in 1..2, j \in 1..6 : K[i] \cap T[j] = {}
               /\ \A i \in 1..7 : \A r \in T[i] : r.id <= arrived'
               /\ \A i \in 1..3 : \A r \in K[i] : r.id <= arrived'
  BY DEF Ways, Apart, Numbered, Chain
<1> HIDE DEF S, T, L, K
<1>5. CASE Still \/ Loss
  <2>1. /\ \A i \in 1..7 : T[i] \subseteq S[i]
        /\ \A i \in 1..3 : K[i] \subseteq L[i]
        /\ arrived' = arrived
    BY <1>5 DEF Still, Loss, S, T, L, K
  <2>2. Chain(7, T) /\ Chain(3, K)
    <3>1. Shrinks(7, S, T) /\ Shrinks(3, L, K)
      BY <2>1 DEF Shrinks
    <3>2. QED
      BY <3>1, <1>1, ShrinkKeepsChain
  <2>3. \A i \in 1..2, j \in 1..6 : K[i] \cap T[j] = {}
    BY <2>1, <1>1
  <2>4. QED
    BY <2>1, <2>2, <2>3, <1>1
<1>6. CASE StoredStep
  <2>1. PICK k \in 1..6, M \in SUBSET Row : Passes(7, S, T, k, M)
    BY <1>6 DEF StoredStep, S, T
  <2>2. /\ K[1] = L[1] /\ K[2] = L[2] /\ arrived' = arrived
    BY <1>6 DEF StoredStep, K, L
  <2>3. /\ T[k] = S[k] \cup M /\ S[k + 1] = T[k + 1] \cup M
        /\ \A i \in (1..7) \ {k, k + 1} : T[i] = S[i]
        /\ k \in 1..7 /\ k + 1 \in 2..7
    BY <2>1 DEF Passes
  <2>4. \A i \in (1..7) \ {k} : T[i] \subseteq S[i]
    BY <2>3
  <2>5. M \subseteq S[k + 1]
    BY <2>3
  <2>6. \A i \in 1..3 : K[i] \subseteq L[i]
    BY <2>2, <2>4, <1>1
  <2>7. Chain(7, T)
    BY <2>1, <1>1, PassKeepsChain
  <2>8. Chain(3, K)
    <3>1. Shrinks(3, L, K)
      BY <2>6 DEF Shrinks
    <3>2. QED
      BY <3>1, <1>1, ShrinkKeepsChain
  <2>9. \A i \in 1..2 : L[i] \cap M = {}
    <3>1. CASE k + 1 = 7
      BY <3>1, <2>5, <1>1
    <3>2. CASE k + 1 \in 2..6
      BY <3>2, <2>5, <1>1
    <3>3. QED
      BY <3>1, <3>2, <2>3
  <2>10. \A i \in 1..2, j \in 1..6 : K[i] \cap T[j] = {}
    <3> SUFFICES ASSUME NEW i \in 1..2, NEW j \in 1..6
                 PROVE  K[i] \cap T[j] = {}
      OBVIOUS
    <3>1. T[j] \subseteq S[j] \cup M
      BY <2>3, <2>4
    <3>2. K[i] \subseteq L[i] /\ L[i] \cap S[j] = {} /\ L[i] \cap M = {}
      BY <2>6, <2>9, <1>1
    <3>3. QED
      BY <3>1, <3>2
  <2>11. \A i \in 1..7 : \A r \in T[i] : r.id <= arrived'
    <3>1. \A r \in M : r.id <= arrived
      BY <2>3, <2>5, <1>1
    <3>2. \A i \in 1..7 : T[i] \subseteq S[i] \cup M
      BY <2>3, <2>4
    <3>3. QED
      BY <3>1, <3>2, <2>2, <1>1
  <2>12. QED
    BY <2>2, <2>6, <2>7, <2>8, <2>10, <2>11, <1>1
<1>7. CASE LiveStep
  <2>1. PICK k \in 1..2, M \in SUBSET Row : Passes(3, L, K, k, M)
    BY <1>7 DEF LiveStep, L, K
  <2>2. /\ \A i \in 1..6 : T[i] = S[i] /\ arrived' = arrived
    BY <1>7 DEF LiveStep, S, T
  <2>3. /\ K[k] = L[k] \cup M /\ L[k + 1] = K[k + 1] \cup M
        /\ \A i \in (1..3) \ {k, k + 1} : K[i] = L[i]
        /\ k \in 1..3 /\ k + 1 \in 2..3
    BY <2>1 DEF Passes
  <2>4. \A i \in (1..3) \ {k} : K[i] \subseteq L[i]
    BY <2>3
  <2>5. M \subseteq L[k + 1]
    BY <2>3
  <2>6. \A i \in 1..7 : T[i] \subseteq S[i]
    BY <2>2, <2>3, <2>4, <1>1
  <2>7. Chain(3, K)
    BY <2>1, <1>1, PassKeepsChain
  <2>8. Chain(7, T)
    <3>1. Shrinks(7, S, T)
      BY <2>6 DEF Shrinks
    <3>2. QED
      BY <3>1, <1>1, ShrinkKeepsChain
  <2>9. \A j \in 1..6 : M \cap S[j] = {}
    <3>1. CASE k + 1 = 3
      BY <3>1, <2>5, <1>1
    <3>2. CASE k + 1 = 2
      BY <3>2, <2>5, <1>1
    <3>3. QED
      BY <3>1, <3>2, <2>3
  <2>10. \A i \in 1..2, j \in 1..6 : K[i] \cap T[j] = {}
    <3> SUFFICES ASSUME NEW i \in 1..2, NEW j \in 1..6
                 PROVE  K[i] \cap T[j] = {}
      OBVIOUS
    <3>1. K[i] \subseteq L[i] \cup M
      BY <2>3, <2>4
    <3>2. T[j] = S[j] /\ L[i] \cap S[j] = {} /\ M \cap S[j] = {}
      BY <2>2, <2>9, <1>1
    <3>3. QED
      BY <3>1, <3>2
  <2>11. \A i \in 1..3 : \A r \in K[i] : r.id <= arrived'
    <3>1. \A r \in M : r.id <= arrived
      BY <2>3, <2>5, <1>1
    <3>2. \A i \in 1..3 : K[i] \subseteq L[i] \cup M
      BY <2>3, <2>4
    <3>3. QED
      BY <3>1, <3>2, <2>2, <1>1
  <2>12. QED
    BY <2>2, <2>6, <2>7, <2>8, <2>10, <2>11, <1>1
<1>8. CASE Arrival
  <2>1. PICK r \in Row : r.id = arrived + 1 /\ T[7] = S[7] \cup {r}
    BY <1>8 DEF Arrival, S, T
  <2>2. /\ \A i \in 1..6 : T[i] = S[i]
        /\ \A i \in 1..2 : K[i] = L[i]
        /\ arrived' = arrived + 1
    BY <1>8 DEF Arrival, S, T, L, K
  <2>3. K[3] = L[3] \cup {r}
    BY <2>1, <1>1
  <2>4. /\ \A i \in 1..6 : Before(S[i], {r})
        /\ \A i \in 1..2 : Before(L[i], {r})
    <3>1. \A s \in Row : s.id <= arrived => s.id < r.id
      BY <2>1, <1>3 DEF Row
    <3>2. QED
      BY <3>1, <1>1, <1>2 DEF Before
  <2>5. Chain(7, T)
    <3>1. Grows(7, S, T, {r})
      BY <2>1, <2>2, <2>4 DEF Grows
    <3>2. QED
      BY <3>1, <1>1, GrowthKeepsChain
  <2>6. Chain(3, K)
    <3>1. Grows(3, L, K, {r})
      BY <2>2, <2>3, <2>4 DEF Grows
    <3>2. QED
      BY <3>1, <1>1, GrowthKeepsChain
  <2>7. \A i \in 1..2, j \in 1..6 : K[i] \cap T[j] = {}
    BY <2>2, <1>1
  <2>8. \A s \in Row : s.id <= arrived => s.id <= arrived'
    BY <2>2, <1>3 DEF Row
  <2>9. r.id <= arrived'
    BY <2>1, <2>2, <1>3
  <2>10. /\ \A i \in 1..7 : T[i] \subseteq S[i] \cup {r}
         /\ \A i \in 1..3 : K[i] \subseteq L[i] \cup {r}
    BY <2>1, <2>2, <2>3
  <2>11. /\ \A i \in 1..7 : \A s \in T[i] : s.id <= arrived'
         /\ \A i \in 1..3 : \A s \in K[i] : s.id <= arrived'
    BY <2>8, <2>9, <2>10, <1>1, <1>2
  <2>12. QED
    BY <2>5, <2>6, <2>7, <2>11
<1>9. QED
  BY <1>5, <1>6, <1>7, <1>8, StepKinds

LEMMA WayInit == Init => WayInv
<1> SUFFICES ASSUME Init
             PROVE  WayInv
  OBVIOUS
<1>1. TypeOK
  BY TypeInit
<1>2. Queues
  BY EmptyQueue, EmptyTables DEF Init, Queues
<1>3. /\ \A i \in 1..7 : StoredWay[i] = {}
      /\ \A i \in 1..3 : LiveWay[i] = {}
  BY Stages, EmptyQueue, EmptyTables DEF Init
<1>4. Ways
  BY <1>3 DEF Ways, Chain, Before, Apart, Numbered
<1>5. QED
  BY <1>1, <1>2, <1>4 DEF WayInv

LEMMA WayNext == WayInv /\ [Next]_vars => WayInv'
<1> SUFFICES ASSUME WayInv, [Next]_vars
             PROVE  WayInv'
  OBVIOUS
<1>1. TypeOK'
  BY TypeNext DEF WayInv
<1>2. Ways' /\ Queues'
  BY WaysNext, StepKinds
<1>3. QED
  BY <1>1, <1>2 DEF WayInv
-----------------------------------------------------------------------------
(* The parts of the gateway hold the rows of the stages.                   *)

Stage(p) ==
    CASE p[1] = "fromHub"  -> StoredWay[7]
      [] p[1] = "commands" -> StoredWay[2]
      [] p[1] = "live"     -> LiveWay[2]
      [] p[1] = "inserts"  -> StoredWay[6]
      [] p[1] = "sent"     -> LiveWay[1] \cup StoredWay[1]
      [] p[1] = "popped"   -> StoredWay[3]
      [] p[1] = "buf"      -> {r \in StoredWay[5] : r.table = p[2]}
      [] p[1] = "db"       -> {r \in StoredWay[4] : r.table = p[2]}

\* The rows of a part, and the places they are held in: each is in one.
Fills(H, A) ==
    /\ \A r : (\E i \in DOMAIN H : r \in H[i]) <=> r \in A
    /\ \A i, j \in DOMAIN H : i # j => H[i] \cap H[j] = {}

\* A queue in order holds each of its rows in one place.
LEMMA QueueFills ==
  ASSUME NEW S \in SUBSET Msgs, NEW q \in Seq(S), Ordered(q), NEW A,
         \A m \in S : m.rows # {} => RowsOf(q, m.kind) \subseteq A,
         A \subseteq Row, \A r \in A : \E k : r \in RowsOf(q, k),
         \A m, n \in S : m.kind # n.kind =>
           (RowsOf(q, m.kind) \cap RowsOf(q, n.kind) = {} \/ m.rows = {} \/ n.rows = {})
  PROVE  Fills([i \in DOMAIN q |-> q[i].rows], A)
<1> DEFINE H == [i \in DOMAIN q |-> q[i].rows]
<1>1. DOMAIN H = DOMAIN q /\ \A i \in DOMAIN q : H[i] = q[i].rows /\ q[i] \in S
  OBVIOUS
<1>2. \A m \in S : m.rows \subseteq Row
  BY Messages
<1>3. \A i \in DOMAIN q : q[i].rows \subseteq RowsOf(q, q[i].kind)
  BY <1>1, <1>2 DEF RowsOf
<1> HIDE DEF H
<1>4. ASSUME NEW r, NEW i \in DOMAIN H, r \in H[i]
      PROVE  r \in A
  BY <1>1, <1>3, <1>4
<1>5. ASSUME NEW r \in A
      PROVE  \E i \in DOMAIN H : r \in H[i]
  <2>1. PICK k : r \in RowsOf(q, k)
    OBVIOUS
  <2>2. QED
    BY <2>1, <1>1 DEF RowsOf
<1>6. ASSUME NEW i \in DOMAIN H, NEW j \in DOMAIN H, i # j
      PROVE  H[i] \cap H[j] = {}
  <2>1. /\ i \in DOMAIN q /\ j \in DOMAIN q /\ q[i] \in S /\ q[j] \in S
        /\ H[i] = q[i].rows /\ H[j] = q[j].rows
        /\ H[i] \in SUBSET Row /\ H[j] \in SUBSET Row
    BY <1>1, <1>2
  <2>2. CASE q[i].kind = q[j].kind
    <3>1. i < j \/ j < i
      BY <1>6, <2>1
    <3>2. Before(H[i], H[j]) \/ Before(H[j], H[i])
      BY <2>1, <2>2, <3>1 DEF Ordered
    <3>3. QED
      BY <2>1, <3>2, BeforeIsApart
  <2>3. CASE q[i].kind # q[j].kind
    BY <2>1, <2>3, <1>3
  <2>4. QED
    BY <2>2, <2>3
<1>7. QED
  BY <1>4, <1>5, <1>6 DEF Fills, H

\* So does a table.
LEMMA TableFills ==
  ASSUME NEW t \in Tables, NEW s \in Seq(RowOf(t)), Ascending(s), NEW A, A = ToSet(s)
  PROVE  Fills([i \in DOMAIN s |-> {s[i]}], A)
<1>1. \A i \in DOMAIN s : s[i] \in RowOf(t) /\ i \in Int
  OBVIOUS
<1>2. \A i \in DOMAIN s : s[i].id \in Nat
  BY <1>1 DEF RowOf
<1>3. \A i, j \in DOMAIN s : i # j => s[i] # s[j]
  BY <1>1, <1>2 DEF Ascending
<1>4. QED
  BY <1>3 DEF Fills, ToSet

\* The eight kinds of parts, and what each holds.
LEMMA TheParts ==
  ASSUME NEW p \in Parts
  PROVE  \/ p = <<"fromHub", 0>> \/ p = <<"commands", 0>> \/ p = <<"live", 0>>
         \/ p = <<"inserts", 0>> \/ p = <<"sent", 0>> \/ p = <<"popped", 0>>
         \/ \E t \in Tables : p = <<"buf", t>> \/ p = <<"db", t>>
BY DEF Parts

LEMMA HeldIs ==
  /\ Held(<<"fromHub", 0>>)  = [i \in DOMAIN fromHub |-> fromHub[i].rows]
  /\ Held(<<"commands", 0>>) = [i \in DOMAIN commands |-> commands[i].rows]
  /\ Held(<<"live", 0>>)     = [i \in DOMAIN live |-> live[i].rows]
  /\ Held(<<"inserts", 0>>)  = [i \in DOMAIN inserts |-> inserts[i].rows]
  /\ Held(<<"sent", 0>>)     = [i \in DOMAIN sent |-> sent[i].rows]
  /\ Held(<<"popped", 0>>)   = <<popped>>
  /\ \A t \in Tables :
       /\ Held(<<"buf", t>>) = IF t < writing THEN <<>>
                              ELSE [i \in DOMAIN buf[t] |-> {buf[t][i]}]
       /\ Held(<<"db", t>>) = [i \in DOMAIN db[t] |-> {db[t][i]}]
BY DEF Held

LEMMA StageIs ==
  /\ Stage(<<"fromHub", 0>>)  = StoredWay[7]
  /\ Stage(<<"commands", 0>>) = StoredWay[2]
  /\ Stage(<<"live", 0>>)     = LiveWay[2]
  /\ Stage(<<"inserts", 0>>)  = StoredWay[6]
  /\ Stage(<<"sent", 0>>)     = LiveWay[1] \cup StoredWay[1]
  /\ Stage(<<"popped", 0>>)   = StoredWay[3]
  /\ \A t \in Tables :
       /\ Stage(<<"buf", t>>) = {r \in StoredWay[5] : r.table = t}
       /\ Stage(<<"db", t>>)  = {r \in StoredWay[4] : r.table = t}
BY DEF Stage

\* Every part holds exactly the rows of its stage, each in one place.
LEMMA PartFills ==
  ASSUME WayInv, NEW p \in Parts
  PROVE  Fills(Held(p), Stage(p))
<1>1. Fills(Held(<<"fromHub", 0>>), Stage(<<"fromHub", 0>>))
  <2> DEFINE S == StatusMsgs \cup LiveMsgs
             A == RowsOf(fromHub, "Live")
  <2>1. S \in SUBSET Msgs /\ fromHub \in Seq(S) /\ Ordered(fromHub) /\ A \subseteq Row
    BY QueueTypes DEF WayInv, TypeOK, Queues, RowsOf
  <2>2. \A m \in S : m.rows # {} => m.kind = "Live"
    BY Messages
  <2> HIDE DEF S
  <2>3. \A m \in S : m.rows # {} => RowsOf(fromHub, m.kind) \subseteq A
    BY <2>2
  <2>4. \A m, n \in S : m.kind # n.kind => m.rows = {} \/ n.rows = {}
    BY <2>2
  <2>5. \A r \in A : \E k : r \in RowsOf(fromHub, k)
    OBVIOUS
  <2> HIDE DEF A
  <2>6. Fills([i \in DOMAIN fromHub |-> fromHub[i].rows], A)
    BY <2>1, <2>3, <2>4, <2>5, QueueFills
  <2>7. Stage(<<"fromHub", 0>>) = A
    BY StageIs, Stages DEF A
  <2>8. QED
    BY <2>6, <2>7, HeldIs
<1>2. Fills(Held(<<"commands", 0>>), Stage(<<"commands", 0>>))
  <2> DEFINE S == StatusMsgs \cup BatchMsgs
             A == RowsOf(commands, "Batch")
  <2>1. S \in SUBSET Msgs /\ commands \in Seq(S) /\ Ordered(commands) /\ A \subseteq Row
    BY QueueTypes DEF WayInv, TypeOK, Queues, RowsOf
  <2>2. \A m \in S : m.rows # {} => m.kind = "Batch"
    BY Messages
  <2> HIDE DEF S
  <2>3. \A m \in S : m.rows # {} => RowsOf(commands, m.kind) \subseteq A
    BY <2>2
  <2>4. \A m, n \in S : m.kind # n.kind => m.rows = {} \/ n.rows = {}
    BY <2>2
  <2>5. \A r \in A : \E k : r \in RowsOf(commands, k)
    OBVIOUS
  <2> HIDE DEF A
  <2>6. Fills([i \in DOMAIN commands |-> commands[i].rows], A)
    BY <2>1, <2>3, <2>4, <2>5, QueueFills
  <2>7. Stage(<<"commands", 0>>) = A
    BY StageIs, Stages DEF A
  <2>8. QED
    BY <2>6, <2>7, HeldIs
<1>3. Fills(Held(<<"live", 0>>), Stage(<<"live", 0>>))
  <2> DEFINE S == LiveMsgs
             A == RowsOf(live, "Live")
  <2>1. S \in SUBSET Msgs /\ live \in Seq(S) /\ Ordered(live) /\ A \subseteq Row
    BY QueueTypes DEF WayInv, TypeOK, Queues, RowsOf
  <2>2. \A m \in S : m.rows # {} => m.kind = "Live"
    BY Messages
  <2> HIDE DEF S
  <2>3. \A m \in S : m.rows # {} => RowsOf(live, m.kind) \subseteq A
    BY <2>2
  <2>4. \A m, n \in S : m.kind # n.kind => m.rows = {} \/ n.rows = {}
    BY <2>2
  <2>5. \A r \in A : \E k : r \in RowsOf(live, k)
    OBVIOUS
  <2> HIDE DEF A
  <2>6. Fills([i \in DOMAIN live |-> live[i].rows], A)
    BY <2>1, <2>3, <2>4, <2>5, QueueFills
  <2>7. Stage(<<"live", 0>>) = A
    BY StageIs, Stages DEF A
  <2>8. QED
    BY <2>6, <2>7, HeldIs
<1>4. Fills(Held(<<"inserts", 0>>), Stage(<<"inserts", 0>>))
  <2> DEFINE S == LiveMsgs
             A == RowsOf(inserts, "Live")
  <2>1. S \in SUBSET Msgs /\ inserts \in Seq(S) /\ Ordered(inserts) /\ A \subseteq Row
    BY QueueTypes DEF WayInv, TypeOK, Queues, RowsOf
  <2>2. \A m \in S : m.rows # {} => m.kind = "Live"
    BY Messages
  <2> HIDE DEF S
  <2>3. \A m \in S : m.rows # {} => RowsOf(inserts, m.kind) \subseteq A
    BY <2>2
  <2>4. \A m, n \in S : m.kind # n.kind => m.rows = {} \/ n.rows = {}
    BY <2>2
  <2>5. \A r \in A : \E k : r \in RowsOf(inserts, k)
    OBVIOUS
  <2> HIDE DEF A
  <2>6. Fills([i \in DOMAIN inserts |-> inserts[i].rows], A)
    BY <2>1, <2>3, <2>4, <2>5, QueueFills
  <2>7. Stage(<<"inserts", 0>>) = A
    BY StageIs, Stages DEF A
  <2>8. QED
    BY <2>6, <2>7, HeldIs
<1>5. Fills(Held(<<"sent", 0>>), Stage(<<"sent", 0>>))
  <2> DEFINE S == LiveMsgs \cup BatchMsgs
             A == RowsOf(sent, "Live") \cup RowsOf(sent, "Batch")
  <2>1. S \in SUBSET Msgs /\ sent \in Seq(S) /\ Ordered(sent) /\ A \subseteq Row
    BY QueueTypes DEF WayInv, TypeOK, Queues, RowsOf
  <2>2. \A m \in S : m.kind = "Live" \/ m.kind = "Batch"
    BY Messages
  <2>3. RowsOf(sent, "Live") \cap RowsOf(sent, "Batch") = {}
    <3>1. LiveWay[1] \cap StoredWay[1] = {}
      BY DEF WayInv, Ways, Apart
    <3>2. QED
      BY <3>1, Stages
  <2> HIDE DEF S
  <2>4. \A m \in S : m.rows # {} => RowsOf(sent, m.kind) \subseteq A
    BY <2>2
  <2>5. \A m, n \in S : m.kind # n.kind =>
          (RowsOf(sent, m.kind) \cap RowsOf(sent, n.kind) = {} \/ m.rows = {} \/ n.rows = {})
    BY <2>2, <2>3
  <2>6. \A r \in A : \E k : r \in RowsOf(sent, k)
    OBVIOUS
  <2> HIDE DEF A
  <2>7. Fills([i \in DOMAIN sent |-> sent[i].rows], A)
    BY <2>1, <2>4, <2>5, <2>6, QueueFills
  <2>8. Stage(<<"sent", 0>>) = A
    BY StageIs, Stages DEF A
  <2>9. QED
    BY <2>7, <2>8, HeldIs
<1>6. Fills(Held(<<"popped", 0>>), Stage(<<"popped", 0>>))
  <2>1. Fills(<<popped>>, popped)
    BY DEF Fills
  <2>2. Stage(<<"popped", 0>>) = popped
    BY StageIs, Stages
  <2>3. QED
    BY <2>1, <2>2, HeldIs
<1>7. ASSUME NEW t \in Tables
      PROVE  Fills(Held(<<"buf", t>>), Stage(<<"buf", t>>))
  <2>1. buf[t] \in Seq(RowOf(t)) /\ Ascending(buf[t]) /\ writing \in Nat /\ t \in Nat
    BY SizesAssumption DEF WayInv, TypeOK, Queues, Tables
  <2>2. Stage(<<"buf", t>>) = {r \in RowsFrom(buf, writing) : r.table = t}
    BY StageIs, Stages
  <2>3. CASE t < writing
    <3>1. Stage(<<"buf", t>>) = {}
      BY <2>1, <2>2, <2>3 DEF RowsFrom
    <3>2. Held(<<"buf", t>>) = <<>>
      BY <2>3, HeldIs
    <3>3. QED
      BY <3>1, <3>2 DEF Fills
  <2>4. CASE ~(t < writing)
    <3>1. Stage(<<"buf", t>>) = ToSet(buf[t])
      <4>1. t >= writing
        BY <2>1, <2>4
      <4>2. \A r \in ToSet(buf[t]) : r \in Row /\ r.table = t
        BY <2>1, TableRows
      <4>3. QED
        BY <4>1, <4>2, <2>2 DEF RowsFrom
    <3>2. Fills([i \in DOMAIN buf[t] |-> {buf[t][i]}], Stage(<<"buf", t>>))
      BY <3>1, <2>1, TableFills
    <3>3. QED
      BY <3>2, <2>4, HeldIs
  <2>5. QED
    BY <2>3, <2>4
<1>8. ASSUME NEW t \in Tables
      PROVE  Fills(Held(<<"db", t>>), Stage(<<"db", t>>))
  <2>1. db[t] \in Seq(RowOf(t)) /\ Ascending(db[t]) /\ t >= 0
    BY DEF WayInv, TypeOK, Queues, Tables
  <2>2. Stage(<<"db", t>>) = {r \in RowsFrom(db, 0) : r.table = t}
    BY StageIs, Stages
  <2>3. Stage(<<"db", t>>) = ToSet(db[t])
    <3>1. \A r \in ToSet(db[t]) : r \in Row /\ r.table = t
      BY <2>1, TableRows
    <3>2. QED
      BY <3>1, <2>1, <2>2 DEF RowsFrom
  <2>4. Fills([i \in DOMAIN db[t] |-> {db[t][i]}], Stage(<<"db", t>>))
    BY <2>1, <2>3, TableFills
  <2>5. QED
    BY <2>4, HeldIs
<1>9. QED
  BY <1>1, <1>2, <1>3, <1>4, <1>5, <1>6, <1>7, <1>8, TheParts

\* The one part that holds a row.
PartOf(r) ==
    IF r \in StoredWay[7] THEN <<"fromHub", 0>>
    ELSE IF r \in StoredWay[2] THEN <<"commands", 0>>
    ELSE IF r \in LiveWay[2] THEN <<"live", 0>>
    ELSE IF r \in StoredWay[6] THEN <<"inserts", 0>>
    ELSE IF r \in StoredWay[3] THEN <<"popped", 0>>
    ELSE IF r \in StoredWay[5] THEN <<"buf", r.table>>
    ELSE IF r \in StoredWay[4] THEN <<"db", r.table>>
    ELSE <<"sent", 0>>

\* No two stages share a row.
LEMMA StagesAreApart ==
  ASSUME WayInv
  PROVE  /\ \A i, j \in 1..7 : i # j => StoredWay[i] \cap StoredWay[j] = {}
         /\ \A i \in 1..2, j \in 1..7 : LiveWay[i] \cap StoredWay[j] = {}
         /\ LiveWay[1] \cap LiveWay[2] = {}
<1>1. /\ \A i \in 1..7 : StoredWay[i] \in SUBSET Row
      /\ \A i \in 1..3 : LiveWay[i] \in SUBSET Row
  BY StagesAreRows DEF WayInv
<1>2. \A i, j \in 1..7 : i < j => StoredWay[i] \cap StoredWay[j] = {}
  BY <1>1, BeforeIsApart DEF WayInv, Ways, Chain
<1>3. \A i, j \in 1..7 : i # j => StoredWay[i] \cap StoredWay[j] = {}
  <2> SUFFICES ASSUME NEW i \in 1..7, NEW j \in 1..7, i # j
               PROVE  StoredWay[i] \cap StoredWay[j] = {}
    OBVIOUS
  <2>1. i < j \/ j < i
    OBVIOUS
  <2>2. QED
    BY <2>1, <1>2
<1>4. Before(LiveWay[1], LiveWay[2])
  BY DEF WayInv, Ways, Chain
<1>5. LiveWay[1] \cap LiveWay[2] = {}
  BY <1>1, <1>4, BeforeIsApart
<1>6. \A i \in 1..2, j \in 1..7 : LiveWay[i] \cap StoredWay[j] = {}
  <2>1. \A i \in 1..2 : LiveWay[i] \cap StoredWay[7] = {}
    BY StartIsApart, SharedStart DEF WayInv
  <2>2. \A i \in 1..2, j \in 1..6 : LiveWay[i] \cap StoredWay[j] = {}
    BY DEF WayInv, Ways, Apart
  <2>3. QED
    BY <2>1, <2>2
<1>7. QED
  BY <1>3, <1>5, <1>6

\* A row is in the part that PartOf names and in no other.
LEMMA OnePart ==
  ASSUME WayInv, NEW p \in Parts, NEW r \in Stage(p)
  PROVE  p = PartOf(r)
<1> DEFINE S(i) == r \in StoredWay[i]
           L(i) == r \in LiveWay[i]
<1>1. /\ \A i, j \in 1..7 : i # j => ~(S(i) /\ S(j))
      /\ \A i \in 1..2, j \in 1..7 : ~(L(i) /\ S(j))
      /\ ~(L(1) /\ L(2))
  BY StagesAreApart
<1>2. PartOf(r) = IF S(7) THEN <<"fromHub", 0>>
                  ELSE IF S(2) THEN <<"commands", 0>>
                  ELSE IF L(2) THEN <<"live", 0>>
                  ELSE IF S(6) THEN <<"inserts", 0>>
                  ELSE IF S(3) THEN <<"popped", 0>>
                  ELSE IF S(5) THEN <<"buf", r.table>>
                  ELSE IF S(4) THEN <<"db", r.table>>
                  ELSE <<"sent", 0>>
  BY DEF PartOf
<1>3. CASE p = <<"fromHub", 0>>
  <2>1. S(7)
    BY <1>3, StageIs
  <2> HIDE DEF S, L
  <2>2. QED
    BY <2>1, <1>2, <1>3
<1>4. CASE p = <<"commands", 0>>
  <2>1. S(2)
    BY <1>4, StageIs
  <2> HIDE DEF S, L
  <2>2. QED
    BY <2>1, <1>1, <1>2, <1>4
<1>5. CASE p = <<"live", 0>>
  <2>1. L(2)
    BY <1>5, StageIs
  <2> HIDE DEF S, L
  <2>2. QED
    BY <2>1, <1>1, <1>2, <1>5
<1>6. CASE p = <<"inserts", 0>>
  <2>1. S(6)
    BY <1>6, StageIs
  <2> HIDE DEF S, L
  <2>2. QED
    BY <2>1, <1>1, <1>2, <1>6
<1>7. CASE p = <<"popped", 0>>
  <2>1. S(3)
    BY <1>7, StageIs
  <2> HIDE DEF S, L
  <2>2. QED
    BY <2>1, <1>1, <1>2, <1>7
<1>8. CASE p = <<"sent", 0>>
  <2>1. L(1) \/ S(1)
    BY <1>8, StageIs
  <2> HIDE DEF S, L
  <2>2. QED
    BY <2>1, <1>1, <1>2, <1>8
<1>9. CASE \E t \in Tables : p = <<"buf", t>>
  <2>1. PICK t \in Tables : p = <<"buf", t>>
    BY <1>9
  <2>2. S(5) /\ r.table = t
    BY <2>1, StageIs
  <2> HIDE DEF S, L
  <2>3. QED
    BY <2>1, <2>2, <1>1, <1>2
<1>10. CASE \E t \in Tables : p = <<"db", t>>
  <2>1. PICK t \in Tables : p = <<"db", t>>
    BY <1>10
  <2>2. S(4) /\ r.table = t
    BY <2>1, StageIs
  <2> HIDE DEF S, L
  <2>3. QED
    BY <2>1, <2>2, <1>1, <1>2
<1>11. QED
  BY <1>3, <1>4, <1>5, <1>6, <1>7, <1>8, <1>9, <1>10, TheParts

\* AtMostOnce follows from the order of the stages.
LEMMA InOnePlace == WayInv => AtMostOnce
<1> SUFFICES ASSUME WayInv,
                    NEW p \in Parts, NEW q \in Parts,
                    NEW i \in DOMAIN Held(p), NEW j \in DOMAIN Held(q),
                    <<p, i>> # <<q, j>>
             PROVE  Held(p)[i] \cap Held(q)[j] = {}
  BY DEF AtMostOnce
<1>1. SUFFICES ASSUME NEW r, r \in Held(p)[i], r \in Held(q)[j]
               PROVE  FALSE
  OBVIOUS
<1>2. Fills(Held(p), Stage(p)) /\ Fills(Held(q), Stage(q))
  BY PartFills
<1>3. r \in Stage(p) /\ r \in Stage(q)
  BY <1>1, <1>2 DEF Fills
<1>4. p = q
  BY <1>3, OnePart
<1>5. i # j
  BY <1>4
<1>6. QED
  BY <1>1, <1>2, <1>4, <1>5 DEF Fills

\* All the rows there are.
AllRows == {r \in Row : \/ \E i \in 1..7 : r \in StoredWay[i]
                       \/ \E i \in 1..2 : r \in LiveWay[i]}

\* The rows the gateway holds are the rows of the stages.
LEMMA HeldAreAll == WayInv => HeldRows = AllRows
<1> SUFFICES ASSUME WayInv
             PROVE  HeldRows = AllRows
  OBVIOUS
<1>1. ASSUME NEW r
      PROVE  r \in HeldRows <=> \E p \in Parts : \E i \in DOMAIN Held(p) : r \in Held(p)[i]
  BY DEF HeldRows, ToSet
<1>2. ASSUME NEW r
      PROVE  r \in HeldRows <=> \E p \in Parts : r \in Stage(p)
  BY <1>1, PartFills DEF Fills
<1>3. ASSUME NEW p \in Parts, NEW r \in Stage(p)
      PROVE  r \in AllRows
  <2>1. /\ \A i \in 1..7 : StoredWay[i] \subseteq AllRows
        /\ \A i \in 1..2 : LiveWay[i] \subseteq AllRows
    BY StagesAreRows DEF AllRows, WayInv
  <2>2. \/ \E i \in 1..7 : r \in StoredWay[i]
        \/ \E i \in 1..2 : r \in LiveWay[i]
    <3>1. /\ p = <<"fromHub", 0>>  => r \in StoredWay[7]
          /\ p = <<"commands", 0>> => r \in StoredWay[2]
          /\ p = <<"live", 0>>     => r \in LiveWay[2]
          /\ p = <<"inserts", 0>>  => r \in StoredWay[6]
          /\ p = <<"popped", 0>>   => r \in StoredWay[3]
          /\ p = <<"sent", 0>>     => r \in LiveWay[1] \/ r \in StoredWay[1]
      BY StageIs
    <3>2. /\ (\E t \in Tables : p = <<"buf", t>>) => r \in StoredWay[5]
          /\ (\E t \in Tables : p = <<"db", t>>) => r \in StoredWay[4]
      BY StageIs
    <3>3. QED
      BY <3>1, <3>2, TheParts
  <2>3. QED
    BY <2>1, <2>2
<1>4. ASSUME NEW r \in AllRows
      PROVE  \E p \in Parts : r \in Stage(p)
  <2>1. r \in Row /\ r.table \in Tables
    BY DEF AllRows, Row
  <2>2. /\ <<"fromHub", 0>> \in Parts /\ <<"commands", 0>> \in Parts
        /\ <<"live", 0>> \in Parts /\ <<"inserts", 0>> \in Parts
        /\ <<"sent", 0>> \in Parts /\ <<"popped", 0>> \in Parts
        /\ <<"buf", r.table>> \in Parts /\ <<"db", r.table>> \in Parts
    BY <2>1 DEF Parts
  <2>3. /\ r \in StoredWay[7] => r \in Stage(<<"fromHub", 0>>)
        /\ r \in StoredWay[2] => r \in Stage(<<"commands", 0>>)
        /\ r \in LiveWay[2]   => r \in Stage(<<"live", 0>>)
        /\ r \in StoredWay[6] => r \in Stage(<<"inserts", 0>>)
        /\ r \in StoredWay[3] => r \in Stage(<<"popped", 0>>)
        /\ r \in StoredWay[5] => r \in Stage(<<"buf", r.table>>)
        /\ r \in StoredWay[4] => r \in Stage(<<"db", r.table>>)
        /\ r \in LiveWay[1] \/ r \in StoredWay[1] => r \in Stage(<<"sent", 0>>)
    BY <2>1, StageIs
  <2>4. \/ r \in StoredWay[1] \/ r \in StoredWay[2] \/ r \in StoredWay[3]
        \/ r \in StoredWay[4] \/ r \in StoredWay[5] \/ r \in StoredWay[6]
        \/ r \in StoredWay[7] \/ r \in LiveWay[1] \/ r \in LiveWay[2]
    BY DEF AllRows
  <2>5. QED
    BY <2>2, <2>3, <2>4, Zenon
<1>5. QED
  BY <1>2, <1>3, <1>4

\* A step that only moves rows loses none.
SameRows(n, V, W) ==
    \A r : (\E i \in 1..n : r \in W[i]) <=> (\E i \in 1..n : r \in V[i])

LEMMA PassKeepsRows ==
  ASSUME NEW n \in Nat, NEW V, NEW W, NEW k \in 1..(n - 1), NEW M,
         Passes(n, V, W, k, M)
  PROVE  SameRows(n, V, W)
<1>1. /\ k \in 1..n /\ k + 1 \in 1..n
      /\ W[k] = V[k] \cup M /\ V[k + 1] = W[k + 1] \cup M
      /\ \A i \in (1..n) \ {k, k + 1} : W[i] = V[i]
  BY DEF Passes
<1>2. ASSUME NEW r, NEW i \in 1..n, r \in W[i]
      PROVE  \E j \in 1..n : r \in V[j]
  <2>1. CASE i = k
    BY <2>1, <1>1, <1>2
  <2>2. CASE i # k
    BY <2>2, <1>1, <1>2
  <2>3. QED
    BY <2>1, <2>2
<1>3. ASSUME NEW r, NEW i \in 1..n, r \in V[i]
      PROVE  \E j \in 1..n : r \in W[j]
  <2>1. CASE i = k + 1
    BY <2>1, <1>1, <1>3
  <2>2. CASE i # k + 1
    BY <2>2, <1>1, <1>3
  <2>3. QED
    BY <2>1, <2>2
<1>4. QED
  BY <1>2, <1>3 DEF SameRows

\* Only a step of the kind Loss changes what is lost.
LEMMA LossStep ==
  ASSUME WayInv, WayInv', [Next]_vars,
         HeldRows = AllRows, (HeldRows = AllRows)', Lost' # Lost
  PROVE  toServerSays = "ServerDisconnected" \/ mishaps' # mishaps
<1> DEFINE In  == {r \in Row : \/ \E i \in 1..7 : r \in StoredWay[i]
                               \/ \E i \in 1..3 : r \in LiveWay[i]}
           Now == {r \in Row : \/ \E i \in 1..7 : r \in StoredWay'[i]
                               \/ \E i \in 1..3 : r \in LiveWay'[i]}
<1>1. HeldRows = In /\ HeldRows' = Now
  <2>1. \A i \in 1..3 : i = 3 \/ i \in 1..2
    OBVIOUS
  <2>2. AllRows = In
    BY <2>1, SharedStart DEF AllRows
  <2>3. AllRows' = Now
    BY <2>1, SharedStart DEF AllRows
  <2>4. QED
    BY <2>2, <2>3
<1>2. ASSUME Now = In, arrived' = arrived
      PROVE  Lost' = Lost
  BY <1>1, <1>2 DEF Lost
<1>3. CASE Still
  <2>1. Now = In /\ arrived' = arrived
    BY <1>3 DEF Still
  <2>2. QED
    BY <2>1, <1>2
<1>4. CASE StoredStep
  <2>1. PICK k \in 1..6, M \in SUBSET Row : Passes(7, StoredWay, StoredWay', k, M)
    BY <1>4 DEF StoredStep
  <2>2. \A r : (\E i \in 1..7 : r \in StoredWay'[i]) <=> (\E i \in 1..7 : r \in StoredWay[i])
    <3>1. SameRows(7, StoredWay, StoredWay')
      BY <2>1, PassKeepsRows
    <3>2. QED
      BY <3>1 DEF SameRows
  <2>3. /\ \A i \in 1..2 : LiveWay'[i] = LiveWay[i]
        /\ LiveWay[3] = StoredWay[7] /\ LiveWay'[3] = StoredWay'[7]
        /\ arrived' = arrived
    BY <1>4, SharedStart DEF StoredStep
  <2>4. Now = In
    <3>1. \A r : (\E i \in 1..3 : r \in LiveWay[i])
                <=> (\E i \in 1..2 : r \in LiveWay[i]) \/ r \in StoredWay[7]
      BY <2>3
    <3>2. \A r : (\E i \in 1..3 : r \in LiveWay'[i])
                <=> (\E i \in 1..2 : r \in LiveWay'[i]) \/ r \in StoredWay'[7]
      BY <2>3
    <3>3. \A r : (\E i \in 1..2 : r \in LiveWay'[i]) <=> (\E i \in 1..2 : r \in LiveWay[i])
      BY <2>3
    <3>4. QED
      BY <2>2, <3>1, <3>2, <3>3
  <2>5. QED
    BY <2>3, <2>4, <1>2
<1>5. CASE LiveStep
  <2>1. PICK k \in 1..2, M \in SUBSET Row : Passes(3, LiveWay, LiveWay', k, M)
    BY <1>5 DEF LiveStep
  <2>2. \A r : (\E i \in 1..3 : r \in LiveWay'[i]) <=> (\E i \in 1..3 : r \in LiveWay[i])
    <3>1. SameRows(3, LiveWay, LiveWay')
      BY <2>1, PassKeepsRows
    <3>2. QED
      BY <3>1 DEF SameRows
  <2>3. /\ \A i \in 1..6 : StoredWay'[i] = StoredWay[i]
        /\ LiveWay[3] = StoredWay[7] /\ LiveWay'[3] = StoredWay'[7]
        /\ arrived' = arrived
    BY <1>5, SharedStart DEF LiveStep
  <2>4. Now = In
    <3>1. \A r : (\E i \in 1..7 : r \in StoredWay[i])
                <=> (\E i \in 1..6 : r \in StoredWay[i]) \/ r \in LiveWay[3]
      BY <2>3
    <3>2. \A r : (\E i \in 1..7 : r \in StoredWay'[i])
                <=> (\E i \in 1..6 : r \in StoredWay'[i]) \/ r \in LiveWay'[3]
      BY <2>3
    <3>3. \A r : (\E i \in 1..6 : r \in StoredWay'[i]) <=> (\E i \in 1..6 : r \in StoredWay[i])
      BY <2>3
    <3>4. \A r : r \in LiveWay[3] => \E i \in 1..3 : r \in LiveWay[i]
      OBVIOUS
    <3>5. \A r : r \in LiveWay'[3] => \E i \in 1..3 : r \in LiveWay'[i]
      OBVIOUS
    <3>6. QED
      BY <2>2, <3>1, <3>2, <3>3, <3>4, <3>5
  <2>5. QED
    BY <2>3, <2>4, <1>2
<1>6. CASE Arrival
  <2>1. PICK n \in Row : n.id = arrived + 1 /\ StoredWay'[7] = StoredWay[7] \cup {n}
    BY <1>6 DEF Arrival
  <2>2. /\ \A i \in 1..6 : StoredWay'[i] = StoredWay[i]
        /\ \A i \in 1..2 : LiveWay'[i] = LiveWay[i]
        /\ LiveWay[3] = StoredWay[7] /\ LiveWay'[3] = StoredWay'[7]
        /\ arrived' = arrived + 1 /\ arrived \in Nat
    BY <1>6, SharedStart DEF Arrival, WayInv, TypeOK
  <2>3. Now = In \cup {n}
    <3>1. /\ \A i \in 1..7 : StoredWay'[i] = IF i = 7 THEN StoredWay[i] \cup {n}
                                                    ELSE StoredWay[i]
          /\ \A i \in 1..3 : LiveWay'[i] = IF i = 3 THEN LiveWay[i] \cup {n}
                                                  ELSE LiveWay[i]
      BY <2>1, <2>2
    <3>2. \A r \in Row : r \in Now => r \in In \cup {n}
      BY <3>1
    <3>3. \A r \in Row : r \in In => r \in Now
      BY <3>1
    <3>4. n \in Now
      BY <3>1
    <3>5. QED
      BY <3>2, <3>3, <3>4
  <2> HIDE DEF In, Now
  <2>4. {r.id : r \in HeldRows'} = {r.id : r \in HeldRows} \cup {arrived'}
    BY <1>1, <2>1, <2>2, <2>3
  <2>5. 1..arrived' = (1..arrived) \cup {arrived'} /\ arrived' \notin 1..arrived
    BY <2>2
  <2>6. Lost' = Lost
    BY <2>4, <2>5 DEF Lost
  <2>7. QED
    BY <2>6
<1>7. CASE Loss
  BY <1>7 DEF Loss
<1>8. QED
  BY <1>3, <1>4, <1>5, <1>6, <1>7, StepKinds
-----------------------------------------------------------------------------
\* The rows keep their stages and the stages their order in every reachable
\* state: the inductive invariant of the theorems below.
LEMMA WayInvariant == Spec => []WayInv
BY WayInit, WayNext, PTL DEF Spec

\* A message is in one place at most: it is never both stored and passed on,
\* and never uploaded twice (msg_from_hub, dba_insert_task, dba_get_task).
THEOREM AtMostOnceHolds == Spec => []AtMostOnce
BY WayInvariant, InOnePlace, PTL

\* Live uploads leave in the order of their arrival, and so do the batches,
\* table by table, across outages and restarts.
THEOREM EachWayKeepsOrderHolds == Spec => []EachWayKeepsOrder
<1>1. WayInv => EachWayKeepsOrder
  BY DEF WayInv, Queues, Ordered, Before, EachWayKeepsOrder
<1>2. QED
  BY <1>1, WayInvariant, PTL

\* A message is lost only when msg_to_server believes the server disconnected
\* or the database or the process fails.
THEOREM LossHasCauseHolds == Spec => LossHasCause
<1>1. ASSUME WayInv, WayInv', [Next]_vars, HeldRows = AllRows, (HeldRows = AllRows)'
      PROVE  [Lost' # Lost => toServerSays = "ServerDisconnected"
                              \/ mishaps' # mishaps]_vars
  BY <1>1, LossStep
<1>2. QED
  BY <1>1, WayInvariant, HeldAreAll, PTL DEF Spec, LossHasCause
=============================================================================
