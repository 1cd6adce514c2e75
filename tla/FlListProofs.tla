---------------------------- MODULE FlListProofs ----------------------------
(***************************************************************************)
(* The list on the heap is the sequence its callers made, whatever they    *)
(* insert and remove and however long it gets.                             *)
(***************************************************************************)
EXTENDS FlList, ListLemmas

-----------------------------------------------------------------------------
(* The list with a node put in, or taken out.                              *)

\* Node n is put in at position p: it points to what was there, its new
\* predecessor to it.
LEMMA InsertLinked ==
  ASSUME NEW s, NEW first, NEW nx, Linked(s, first, nx),
         NEW n \in Node, n \notin Range(s), NEW p \in 1..(Len(s) + 1), NEW ny,
         ny[n] = IF p = Len(s) + 1 THEN NULL ELSE s[p],
         p > 1 => ny[s[p - 1]] = n,
         \A k \in DOMAIN s : k # p - 1 => ny[s[k]] = nx[s[k]]
  PROVE  /\ Linked(InsertAt(s, p, n), IF p = 1 THEN n ELSE first, ny)
         /\ Range(InsertAt(s, p, n)) = Range(s) \cup {n}
<1> DEFINE t == InsertAt(s, p, n)
<1>1. /\ s \in Seq(Node) /\ DOMAIN s = 1..Len(s) /\ Len(s) \in Nat
      /\ \A j, k \in DOMAIN s : s[j] = s[k] => j = k
      /\ first = IF s = <<>> THEN NULL ELSE s[1]
      /\ \A k \in DOMAIN s : nx[s[k]] = IF k = Len(s) THEN NULL ELSE s[k + 1]
  BY DEF Linked
<1>0. p \in Int /\ 1 <= p /\ p <= Len(s) + 1
  BY <1>1
<1>2. /\ t \in Seq(Node) /\ Len(t) = Len(s) + 1
      /\ \A k \in 1..(Len(s) + 1) :
           t[k] = IF k < p THEN s[k] ELSE IF k = p THEN n ELSE s[k - 1]
  <2>1. s \in Seq(Node)
    BY <1>1
  <2>2. /\ InsertAt(s, p, n) \in Seq(Node)
        /\ Len(InsertAt(s, p, n)) = Len(s) + 1
        /\ \A k \in 1..(Len(s) + 1) :
             InsertAt(s, p, n)[k] =
               IF k < p THEN s[k] ELSE IF k = p THEN n ELSE s[k - 1]
    <3> HIDE DEF t
    <3> QED
      BY <2>1, InsertAtProperties
  <2> QED
    BY <2>2
<1>3. DOMAIN t = 1..(Len(s) + 1)
  BY <1>1, <1>2
<1>4. \A k \in DOMAIN s : s[k] # n
  BY DEF Range
<1> HIDE DEF t
<1>5. ASSUME NEW j \in DOMAIN t, NEW k \in DOMAIN t, t[j] = t[k]
      PROVE  j = k
  <2>1. CASE j = p \/ k = p
    <3>1. \A l \in DOMAIN t : l # p => \E m \in DOMAIN s : t[l] = s[m]
      <4> TAKE l \in DOMAIN t
      <4>1. CASE l < p
        BY <4>1, <1>0, <1>1, <1>2, <1>3
      <4>2. CASE l > p
        <5>1. l - 1 \in DOMAIN s /\ t[l] = s[l - 1]
          BY <4>2, <1>0, <1>1, <1>2, <1>3
        <5> QED
          BY <5>1
      <4> QED
        BY <4>1, <4>2, <1>0, <1>3
    <3>2. t[p] = n
      BY <1>0, <1>1, <1>2
    <3> QED
      BY <2>1, <3>1, <3>2, <1>4, <1>5
  <2>2. CASE j # p /\ k # p
    <3> DEFINE old(l) == IF l < p THEN l ELSE l - 1
    <3>1. \A l \in DOMAIN t : l # p => old(l) \in DOMAIN s /\ t[l] = s[old(l)]
      BY <1>0, <1>1, <1>2, <1>3
    <3>2. old(j) = old(k)
      <4> HIDE DEF old
      <4> QED
        BY <2>2, <3>1, <1>1, <1>5
    <3> QED
      BY <2>2, <3>2, <1>0, <1>3
  <2> QED
    BY <2>1, <2>2
<1>6. (IF p = 1 THEN n ELSE first) = IF t = <<>> THEN NULL ELSE t[1]
  <2>1. t # <<>> /\ 1 \in 1..(Len(s) + 1)
    BY <1>1, <1>2
  <2>2. CASE p = 1
    BY <2>1, <2>2, <1>2
  <2>3. CASE p > 1
    BY <2>1, <2>3, <1>1, <1>2
  <2> QED
    BY <2>2, <2>3
<1>7. ASSUME NEW k \in DOMAIN t
      PROVE  ny[t[k]] = IF k = Len(t) THEN NULL ELSE t[k + 1]
  <2>1. CASE k < p - 1
    <3>1. k \in DOMAIN s /\ k # Len(s) /\ t[k] = s[k] /\ t[k + 1] = s[k + 1]
      BY <2>1, <1>1, <1>2, <1>3
    <3>2. ny[s[k]] = s[k + 1]
      BY <3>1, <2>1, <1>1
    <3> QED
      BY <3>1, <3>2, <2>1, <1>2, <1>3
  <2>2. CASE k = p - 1
    BY <2>2, <1>1, <1>2, <1>3
  <2>3. CASE k = p
    BY <2>3, <1>1, <1>2, <1>3
  <2>4. CASE k > p
    <3>1. k - 1 \in DOMAIN s /\ t[k] = s[k - 1]
      BY <2>4, <1>1, <1>2, <1>3
    <3>2. ny[s[k - 1]] = IF k - 1 = Len(s) THEN NULL ELSE s[k]
      <4>1. ny[s[k - 1]] = nx[s[k - 1]]
        BY <3>1, <2>4, <1>0
      <4>2. nx[s[k - 1]] = IF k - 1 = Len(s) THEN NULL ELSE s[(k - 1) + 1]
        BY <3>1, <1>1
      <4> QED
        BY <4>1, <4>2, <2>4, <1>0, <1>3
    <3>3. k # Len(t) => t[k + 1] = s[k]
      BY <2>4, <1>1, <1>2, <1>3
    <3> QED
      BY <3>1, <3>2, <3>3, <2>4, <1>1, <1>2, <1>3
  <2> QED
    BY <2>1, <2>2, <2>3, <2>4, <1>3
<1>8. Range(t) = Range(s) \cup {n}
  <2>1. ASSUME NEW x \in Range(t) PROVE x \in Range(s) \cup {n}
    <3>1. PICK k \in DOMAIN t : x = t[k]
      BY DEF Range
    <3>2. CASE k < p
      BY <3>1, <3>2, <1>1, <1>2, <1>3 DEF Range
    <3>3. CASE k = p
      BY <3>1, <3>3, <1>2, <1>3
    <3>4. CASE k > p
      <4>1. k - 1 \in DOMAIN s /\ x = s[k - 1]
        BY <3>1, <3>4, <1>1, <1>2, <1>3
      <4> QED
        BY <4>1 DEF Range
    <3> QED
      BY <3>2, <3>3, <3>4, <1>3
  <2>2. n \in Range(t)
    <3>1. p \in DOMAIN t /\ t[p] = n
      BY <1>2, <1>3
    <3> QED
      BY <3>1 DEF Range
  <2>3. ASSUME NEW x \in Range(s) PROVE x \in Range(t)
    <3>1. PICK k \in DOMAIN s : x = s[k]
      BY DEF Range
    <3>2. CASE k < p
      <4>1. k \in DOMAIN t /\ t[k] = x
        BY <3>1, <3>2, <1>1, <1>2, <1>3
      <4> QED
        BY <4>1 DEF Range
    <3>3. CASE k >= p
      <4>1. k + 1 \in DOMAIN t /\ t[k + 1] = x
        BY <3>1, <3>3, <1>1, <1>2, <1>3
      <4> QED
        BY <4>1 DEF Range
    <3> QED
      BY <3>2, <3>3, <1>1
  <2> QED
    BY <2>1, <2>2, <2>3
<1> QED
  BY <1>2, <1>5, <1>6, <1>7, <1>8 DEF Linked, t

\* The node at position p is taken out: its predecessor points to what
\* followed it.
LEMMA RemoveLinked ==
  ASSUME NEW s, NEW first, NEW nx, Linked(s, first, nx),
         NEW p \in DOMAIN s, NEW ny,
         p > 1 => ny[s[p - 1]] = nx[s[p]],
         \A k \in DOMAIN s : k \notin {p - 1, p} => ny[s[k]] = nx[s[k]]
  PROVE  /\ Linked(RemoveAt(s, p), IF p = 1 THEN nx[s[1]] ELSE first, ny)
         /\ Range(RemoveAt(s, p)) = Range(s) \ {s[p]}
<1> DEFINE t == RemoveAt(s, p)
           old(l) == IF l < p THEN l ELSE l + 1
<1>1. /\ s \in Seq(Node) /\ DOMAIN s = 1..Len(s) /\ Len(s) \in Nat
      /\ \A j, k \in DOMAIN s : s[j] = s[k] => j = k
      /\ first = IF s = <<>> THEN NULL ELSE s[1]
      /\ \A k \in DOMAIN s : nx[s[k]] = IF k = Len(s) THEN NULL ELSE s[k + 1]
  BY DEF Linked
<1>0. p \in Int /\ 1 <= p /\ p <= Len(s)
  BY <1>1
<1>2. /\ t \in Seq(Node) /\ Len(t) = Len(s) - 1
      /\ \A k \in 1..(Len(s) - 1) : t[k] = IF k < p THEN s[k] ELSE s[k + 1]
  <2> HIDE DEF t
  <2>1. s \in Seq(Node)
    BY <1>1
  <2>2. /\ RemoveAt(s, p) \in Seq(Node)
        /\ Len(RemoveAt(s, p)) = Len(s) - 1
        /\ \A k \in 1..(Len(s) - 1) :
             RemoveAt(s, p)[k] = IF k < p THEN s[k] ELSE s[k + 1]
    BY <2>1, RemoveAtProperties
  <2> QED
    BY <2>2 DEF t
<1>3. DOMAIN t = 1..(Len(s) - 1)
  BY <1>1, <1>2
<1> HIDE DEF t
<1>4. \A l \in DOMAIN t : old(l) \in DOMAIN s /\ old(l) # p /\ t[l] = s[old(l)]
  BY <1>0, <1>1, <1>2, <1>3
<1>5. ASSUME NEW j \in DOMAIN t, NEW k \in DOMAIN t, t[j] = t[k]
      PROVE  j = k
  <2>1. old(j) = old(k)
    <3> HIDE DEF old
    <3> QED
      BY <1>1, <1>4, <1>5
  <2> QED
    BY <2>1, <1>0, <1>3
<1>6. (IF p = 1 THEN nx[s[1]] ELSE first) = IF t = <<>> THEN NULL ELSE t[1]
  <2>1. t = <<>> <=> Len(s) = 1
    BY <1>1, <1>2
  <2>2. CASE p = 1
    <3>1. nx[s[1]] = IF 1 = Len(s) THEN NULL ELSE s[1 + 1]
      BY <2>2, <1>1
    <3>2. Len(s) > 1 => t[1] = s[2]
      BY <2>2, <1>0, <1>1, <1>2
    <3> QED
      BY <2>1, <2>2, <3>1, <3>2, <1>0
  <2>3. CASE p > 1
    <3>1. first = s[1] /\ Len(s) > 1 /\ t[1] = s[1]
      BY <2>3, <1>0, <1>1, <1>2
    <3> QED
      BY <2>1, <2>3, <3>1
  <2> QED
    BY <2>2, <2>3, <1>0
<1>7. ASSUME NEW k \in DOMAIN t
      PROVE  ny[t[k]] = IF k = Len(t) THEN NULL ELSE t[k + 1]
  <2>1. CASE k < p - 1
    <3>1. /\ k \in DOMAIN s /\ k # Len(s) /\ k \notin {p - 1, p} /\ k # Len(t)
          /\ t[k] = s[k] /\ t[k + 1] = s[k + 1]
      <4>1. k \in Int /\ 1 <= k /\ k + 1 < p
        BY <2>1, <1>0, <1>3
      <4>2. k \in 1..(Len(s) - 1) /\ k + 1 \in 1..(Len(s) - 1) /\ k \in 1..Len(s)
        BY <4>1, <1>0, <1>1, SMTT(30)
      <4>3. t[k] = s[k] /\ t[k + 1] = s[k + 1]
        BY <4>1, <4>2, <1>0, <1>2
      <4> QED
        BY <4>1, <4>2, <4>3, <1>0, <1>1, <1>2
    <3>2. ny[s[k]] = nx[s[k]] /\ nx[s[k]] = s[k + 1]
      BY <3>1, <1>1
    <3> QED
      BY <3>1, <3>2
  <2>2. CASE k = p - 1
    <3>1. /\ t[k] = s[k] /\ ny[s[k]] = nx[s[p]]
          /\ k # Len(t) => t[k + 1] = s[k + 2]
      BY <2>2, <1>0, <1>1, <1>2, <1>3
    <3>2. nx[s[p]] = IF p = Len(s) THEN NULL ELSE s[p + 1]
      BY <1>1
    <3>3. k = Len(t) <=> p = Len(s)
      BY <2>2, <1>0, <1>2
    <3> QED
      BY <2>2, <3>1, <3>2, <3>3, <1>0
  <2>3. CASE k >= p
    <3>1. /\ k + 1 \in DOMAIN s /\ k + 1 \notin {p - 1, p} /\ t[k] = s[k + 1]
          /\ k # Len(t) => t[k + 1] = s[(k + 1) + 1]
      BY <2>3, <1>0, <1>1, <1>2, <1>3
    <3>2. /\ ny[s[k + 1]] = nx[s[k + 1]]
          /\ nx[s[k + 1]] = IF k + 1 = Len(s) THEN NULL ELSE s[(k + 1) + 1]
      BY <3>1, <1>1
    <3>3. k = Len(t) <=> k + 1 = Len(s)
      BY <1>0, <1>1, <1>2, <1>3
    <3> QED
      BY <3>1, <3>2, <3>3
  <2> QED
    BY <2>1, <2>2, <2>3, <1>0, <1>3
<1>8. Range(t) = Range(s) \ {s[p]}
  <2>1. ASSUME NEW x \in Range(t) PROVE x \in Range(s) \ {s[p]}
    <3>1. PICK l \in DOMAIN t : x = t[l]
      BY DEF Range
    <3> HIDE DEF old
    <3>2. old(l) \in DOMAIN s /\ old(l) # p /\ x = s[old(l)]
      BY <3>1, <1>4
    <3> QED
      BY <3>2, <1>1 DEF Range
  <2>2. ASSUME NEW x \in Range(s), x # s[p] PROVE x \in Range(t)
    <3>1. PICK k \in DOMAIN s : x = s[k]
      BY DEF Range
    <3>2. k # p
      BY <3>1, <2>2
    <3>3. \E l \in DOMAIN t : t[l] = x
      <4>1. CASE k < p
        <5>1. k \in DOMAIN t /\ t[k] = x
          BY <3>1, <4>1, <1>0, <1>1, <1>2, <1>3
        <5> QED
          BY <5>1
      <4>2. CASE k > p
        <5>1. k - 1 \in DOMAIN t /\ t[k - 1] = x
          BY <3>1, <4>2, <1>0, <1>1, <1>2, <1>3
        <5> QED
          BY <5>1
      <4> QED
        BY <3>2, <4>1, <4>2, <1>0, <1>1
    <3> QED
      BY <3>3 DEF Range
  <2> QED
    BY <2>1, <2>2
<1> QED
  BY <1>2, <1>5, <1>6, <1>7, <1>8 DEF Linked, t

-----------------------------------------------------------------------------
(* The inductive invariant: where each loop is in the list.                *)

Ops == {"insert", "remove", "remove_at", "get", "count", "pop"}

FieldsOK ==
  /\ next \in [Node -> Node \cup {NULL}]
  /\ pc \in {"idle", "call", "insert", "remove", "get", "count"}
  /\ call \in [op : Ops, index : Index, node : Node \cup {Other, NULL}]

InsertLoop ==
  /\ call.op = "insert" /\ call.index # 0
  /\ node \in Node /\ node \notin Range(nodes) /\ next[node] = NULL
  /\ i \in Nat /\ i + 1 \in DOMAIN nodes
  /\ cur = nodes[i + 1]
  /\ i < call.index

RemoveLoop ==
  /\ call.op = "remove" /\ call.node # NULL
  /\ \E k \in DOMAIN nodes : cur = nodes[k]
  /\ head # call.node

GetLoop ==
  /\ call.op \in {"get", "remove_at"}
  /\ i \in Nat /\ i + 1 \in DOMAIN nodes
  /\ cur = nodes[i + 1]
  /\ i <= call.index

CountLoop ==
  /\ call.op = "count"
  /\ i \in DOMAIN nodes
  /\ cur = nodes[i]

Loops ==
  /\ pc = "insert" => InsertLoop
  /\ pc = "remove" => RemoveLoop
  /\ pc = "get" => GetLoop
  /\ pc = "count" => CountLoop

IInv == FieldsOK /\ Represents /\ Loops /\ AnswersRight

LEMMA Facts ==
  ASSUME IInv
  PROVE  /\ nodes \in Seq(Node) /\ DOMAIN nodes = 1..Len(nodes) /\ Len(nodes) \in Nat
         /\ \A k \in DOMAIN nodes : nodes[k] \in Node
         /\ \A j, k \in DOMAIN nodes : nodes[j] = nodes[k] => j = k
         /\ nodes = <<>> <=> Len(nodes) = 0
         /\ head = NULL <=> nodes = <<>>
         /\ nodes # <<>> => 1 \in DOMAIN nodes /\ head = nodes[1] /\ head \in Node
         /\ \A k \in DOMAIN nodes :
              next[nodes[k]] = IF k = Len(nodes) THEN NULL ELSE nodes[k + 1]
         /\ \A k \in DOMAIN nodes : k # Len(nodes) => k + 1 \in DOMAIN nodes
         /\ NULL \notin Node
         /\ call.op \in Ops /\ call.index \in Nat
<1>1. Linked(nodes, head, next)
  BY DEF IInv, Represents
<1>2. /\ nodes \in Seq(Node) /\ DOMAIN nodes = 1..Len(nodes) /\ Len(nodes) \in Nat
      /\ \A k \in DOMAIN nodes : nodes[k] \in Node
  BY <1>1 DEF Linked
<1>3. nodes = <<>> <=> Len(nodes) = 0
  BY <1>2
<1>4. NULL \notin Node /\ MaxIndex \in Nat
  BY FlListAssumption
<1>5. call.op \in Ops /\ call.index \in Nat
  BY <1>4 DEF IInv, FieldsOK, Index
<1>6. nodes # <<>> => 1 \in DOMAIN nodes /\ head = nodes[1] /\ head \in Node
  BY <1>1, <1>2, <1>3 DEF Linked
<1>7. \A k \in DOMAIN nodes : k # Len(nodes) => k + 1 \in DOMAIN nodes
  BY <1>2
<1> QED
  BY <1>1, <1>2, <1>3, <1>4, <1>5, <1>6, <1>7 DEF Linked

\* A loop that goes on is at the following node.
LEMMA NextNode ==
  ASSUME IInv, NEW k \in DOMAIN nodes, next[nodes[k]] # NULL
  PROVE  k + 1 \in DOMAIN nodes /\ next[nodes[k]] = nodes[k + 1]
BY Facts

-----------------------------------------------------------------------------
(* Each action preserves it.                                               *)

\* A step that leaves the heap alone, and is not one of list_insert's loop.
LEMMA ListKept ==
  ASSUME IInv, UNCHANGED <<heap, next, head, nodes>>, (pc = "insert") = (pc' = "insert"),
         UNCHANGED node
  PROVE  Represents'
BY DEF IInv, Represents, Linked

LEMMA InitStep ==
  ASSUME Init
  PROVE  IInv
<1>1. FieldsOK
  BY FlListAssumption DEF Init, FieldsOK, Call, Ops, Index
<1>2. Linked(nodes, head, next)
  BY DEF Init, Linked
<1>3. Range(nodes) = {}
  BY DEF Init, Range
<1> QED
  BY <1>1, <1>2, <1>3 DEF Init, IInv, Represents, Loops, AnswersRight

LEMMA BeginStep ==
  ASSUME IInv, Begin
  PROVE  IInv'
<1>1. FieldsOK'
  BY FlListAssumption DEF Begin, IInv, FieldsOK, Call, Ops, Index
<1>2. Represents'
  BY ListKept DEF Begin
<1> QED
  BY <1>1, <1>2 DEF Begin, IInv, Loops, AnswersRight

LEMMA InsertFailsStep ==
  ASSUME IInv, InsertFails
  PROVE  IInv'
<1>1. Represents'
  BY ListKept DEF InsertFails, Return
<1> QED
  BY <1>1 DEF InsertFails, Return, IInv, FieldsOK, Loops, AnswersRight

LEMMA InsertStep ==
  ASSUME IInv, Insert
  PROVE  IInv'
<1>1. PICK n \in Node \ heap :
        /\ heap' = heap \cup {n}
        /\ node' = n
        /\ IF head = NULL \/ call.index = 0
           THEN /\ next' = [next EXCEPT ![n] = head]
                /\ nodes' = InsertAt(nodes, 1, n)
                /\ ReturnList(n)
                /\ UNCHANGED <<cur, i>>
           ELSE /\ next' = [next EXCEPT ![n] = NULL]
                /\ i' = 0
                /\ Enter("insert")
                /\ UNCHANGED nodes
  BY DEF Insert
<1>2. pc = "call" /\ call.op = "insert" /\ call' = call
  BY DEF Insert
<1>3. heap = Range(nodes) /\ n \notin Range(nodes)
  BY <1>1, <1>2 DEF IInv, Represents
<1>4. /\ next \in [Node -> Node \cup {NULL}] /\ head \in Node \cup {NULL}
      /\ \A k \in DOMAIN nodes : nodes[k] \in Node /\ nodes[k] # n
      /\ Linked(nodes, head, next)
  BY <1>3, Facts DEF IInv, FieldsOK, Range, Represents
<1>5. CASE head = NULL \/ call.index = 0
  <2>1. /\ next' = [next EXCEPT ![n] = head] /\ nodes' = InsertAt(nodes, 1, n)
        /\ pc' = "idle" /\ answer' = n /\ head' = n
    BY <1>1, <1>5 DEF ReturnList
  <2>2. FieldsOK'
    BY <1>2, <1>4, <2>1 DEF IInv, FieldsOK
  <2>3. next'[n] = IF 1 = Len(nodes) + 1 THEN NULL ELSE nodes[1]
    BY <1>4, <2>1, Facts
  <2>4. \A k \in DOMAIN nodes : next'[nodes[k]] = next[nodes[k]]
    BY <1>4, <2>1
  <2>5. 1 \in 1..(Len(nodes) + 1)
    BY Facts
  <2>6. Linked(nodes', n, next') /\ Range(nodes') = Range(nodes) \cup {n}
    <3>1. /\ 1 > 1 => next'[nodes[1 - 1]] = n
          /\ \A k \in DOMAIN nodes : k # 1 - 1 => next'[nodes[k]] = next[nodes[k]]
      BY <2>4
    <3>2. /\ Linked(InsertAt(nodes, 1, n), IF 1 = 1 THEN n ELSE head, next')
          /\ Range(InsertAt(nodes, 1, n)) = Range(nodes) \cup {n}
      BY <1>3, <1>4, <2>3, <2>5, <3>1, InsertLinked
    <3> QED
      BY <2>1, <3>2
  <2> QED
    BY <1>1, <1>2, <1>3, <2>1, <2>2, <2>6 DEF IInv, Represents, Loops, AnswersRight
<1>6. CASE ~(head = NULL \/ call.index = 0)
  <2>1. /\ next' = [next EXCEPT ![n] = NULL] /\ i' = 0 /\ nodes' = nodes
        /\ pc' = "insert" /\ cur' = head /\ head' = head
    BY <1>1, <1>6 DEF Enter
  <2>2. FieldsOK'
    BY <1>2, <1>4, <2>1 DEF IInv, FieldsOK
  <2>3. \A k \in DOMAIN nodes : next'[nodes[k]] = next[nodes[k]]
    BY <1>4, <2>1
  <2>4. Represents'
    BY <1>1, <1>3, <1>4, <2>1, <2>3 DEF Represents, Linked
  <2>5. InsertLoop'
    BY <1>1, <1>2, <1>3, <1>4, <1>6, <2>1, Facts DEF InsertLoop
  <2> QED
    BY <2>1, <2>2, <2>4, <2>5 DEF IInv, Loops, AnswersRight
<1> QED
  BY <1>5, <1>6

LEMMA InsertWalkStep ==
  ASSUME IInv, InsertWalk
  PROVE  IInv'
<1>1. InsertLoop /\ pc = "insert" /\ next[nodes[i + 1]] # NULL
  BY DEF IInv, Loops, InsertWalk, Step, InsertLoop
<1>2. i + 2 \in DOMAIN nodes /\ cur' = nodes[i + 2]
  <2>1. (i + 1) + 1 \in DOMAIN nodes /\ next[nodes[i + 1]] = nodes[(i + 1) + 1]
    BY <1>1, NextNode DEF InsertLoop
  <2> QED
    BY <1>1, <2>1 DEF InsertWalk, Step, InsertLoop
<1>3. InsertLoop'
  BY <1>1, <1>2, Facts DEF InsertWalk, Step, InsertLoop
<1>4. Represents'
  BY ListKept DEF InsertWalk, Step
<1> QED
  BY <1>1, <1>3, <1>4 DEF InsertWalk, Step, IInv, FieldsOK, Loops, AnswersRight

LEMMA InsertLinkStep ==
  ASSUME IInv, InsertLink
  PROVE  IInv'
<1>1. /\ pc = "insert" /\ InsertLoop
      /\ next[cur] = NULL \/ i >= call.index - 1
      /\ next' = [next EXCEPT ![node] = next[cur], ![cur] = node]
      /\ nodes' = InsertAt(nodes, Position(call.index) + 1, node)
      /\ pc' = "idle" /\ answer' = head /\ head' = head
      /\ UNCHANGED <<heap, call, cur, i, node>>
  BY DEF InsertLink, ReturnList, IInv, Loops
<1>2. /\ i \in Nat /\ i + 1 \in DOMAIN nodes /\ cur = nodes[i + 1] /\ cur \in Node
      /\ node \in Node /\ node \notin Range(nodes) /\ i < call.index
  BY <1>1, Facts DEF InsertLoop
<1>3. next[cur] = IF i + 1 = Len(nodes) THEN NULL ELSE nodes[i + 2]
  <2>1. next[nodes[i + 1]] = IF i + 1 = Len(nodes) THEN NULL ELSE nodes[(i + 1) + 1]
    BY <1>2, Facts
  <2> QED
    BY <1>2, <2>1
\* The loop ends where the node belongs.
<1>4. Position(call.index) = i + 1
  <2>1. CASE next[cur] = NULL
    <3>1. i + 1 = Len(nodes)
      <4>1. \A k \in DOMAIN nodes : k # Len(nodes) => next[nodes[k]] # NULL
        BY Facts
      <4> QED
        BY <1>2, <2>1, <4>1
    <3> QED
      BY <1>2, <3>1, Facts DEF Position
  <2>2. CASE i >= call.index - 1
    BY <1>2, <2>2, Facts DEF Position
  <2> QED
    BY <1>1, <2>1, <2>2
<1>5. /\ nodes' = InsertAt(nodes, i + 2, node) /\ i + 2 \in 1..(Len(nodes) + 1)
  BY <1>1, <1>2, <1>4, Facts
<1>6. \A k \in DOMAIN nodes : nodes[k] \in Node /\ nodes[k] # node
  BY <1>2, Facts DEF Range
<1>7. next \in [Node -> Node \cup {NULL}]
  BY DEF IInv, FieldsOK
<1>8. /\ next'[cur] = node /\ next'[node] = next[cur]
      /\ \A k \in DOMAIN nodes : k # i + 1 => next'[nodes[k]] = next[nodes[k]]
  BY <1>1, <1>2, <1>6, <1>7, Facts
<1>9. /\ next'[node] = IF i + 2 = Len(nodes) + 1 THEN NULL ELSE nodes[i + 2]
      /\ i + 2 > 1 => next'[nodes[(i + 2) - 1]] = node
      /\ \A k \in DOMAIN nodes : k # (i + 2) - 1 => next'[nodes[k]] = next[nodes[k]]
  <2>1. i + 2 = Len(nodes) + 1 <=> i + 1 = Len(nodes)
    <3>1. Len(nodes) \in Nat
      BY Facts
    <3> QED
      BY <1>2, <3>1
  <2>2. (i + 2) - 1 = i + 1
    BY <1>2
  <2> QED
    BY <1>2, <1>3, <1>8, <2>1, <2>2
<1>10. Linked(nodes, head, next)
  BY DEF IInv, Represents
<1>11. /\ Linked(nodes', IF i + 2 = 1 THEN node ELSE head, next')
       /\ Range(nodes') = Range(nodes) \cup {node}
  BY <1>2, <1>5, <1>9, <1>10, InsertLinked
<1>12. Represents'
  BY <1>1, <1>2, <1>11 DEF IInv, Represents
<1>13. FieldsOK'
  BY <1>1, <1>2, <1>7, FlListAssumption DEF IInv, FieldsOK
<1> QED
  BY <1>1, <1>12, <1>13 DEF IInv, Loops, InsertLoop, AnswersRight

\* The first node is taken: by list_remove or queue_pop.
LEMMA TakeFirstStep ==
  ASSUME IInv, pc = "call", head # NULL, TakeFirst, UNCHANGED <<next, call>>
  PROVE  FieldsOK' /\ Represents'
<1>1. /\ heap' = heap \ {head} /\ nodes' = RemoveAt(nodes, 1)
      /\ pc' = "idle" /\ answer' = next[head] /\ head' = next[head]
  BY DEF TakeFirst, ReturnList
<1>2. /\ 1 \in DOMAIN nodes /\ head = nodes[1] /\ Linked(nodes, head, next)
      /\ heap = Range(nodes)
  BY Facts DEF IInv, Represents
<1>3. /\ 1 > 1 => next[nodes[1 - 1]] = next[nodes[1]]
      /\ \A k \in DOMAIN nodes : k \notin {1 - 1, 1} => next[nodes[k]] = next[nodes[k]]
  OBVIOUS
<1>4. /\ Linked(RemoveAt(nodes, 1), IF 1 = 1 THEN next[nodes[1]] ELSE head, next)
      /\ Range(RemoveAt(nodes, 1)) = Range(nodes) \ {nodes[1]}
  BY <1>2, <1>3, RemoveLinked
<1>5. Represents'
  BY <1>1, <1>2, <1>4 DEF Represents
<1> QED
  BY <1>1, <1>5 DEF IInv, FieldsOK

LEMMA RemoveNodeStep ==
  ASSUME IInv, RemoveNode
  PROVE  IInv'
<1>1. pc = "call" /\ call.op = "remove" /\ UNCHANGED <<next, call, i, node>>
  BY DEF RemoveNode
<1>2. CASE (head = NULL \/ Target = NULL) /\ ReturnList(head) /\ UNCHANGED <<heap, cur, nodes>>
  <2>1. Represents'
    BY <1>1, <1>2, ListKept DEF ReturnList
  <2> QED
    BY <1>1, <1>2, <2>1 DEF ReturnList, IInv, FieldsOK, Loops, AnswersRight
<1>3. CASE head # NULL /\ TakeFirst
  <2>1. FieldsOK' /\ Represents'
    BY <1>1, <1>3, TakeFirstStep
  <2> QED
    BY <1>1, <1>3, <2>1 DEF TakeFirst, ReturnList, IInv, Loops, AnswersRight
<1>4. CASE /\ head # NULL /\ Target \notin {NULL, head}
           /\ Enter("remove") /\ UNCHANGED <<heap, nodes>>
  <2>1. Represents'
    BY <1>1, <1>4, ListKept DEF Enter
  <2>2. RemoveLoop'
    BY <1>1, <1>4, Facts DEF Enter, RemoveLoop, Target
  <2> QED
    BY <1>1, <1>4, <2>1, <2>2 DEF Enter, IInv, FieldsOK, Loops, AnswersRight
<1> QED
  BY <1>2, <1>3, <1>4 DEF RemoveNode

LEMMA RemoveWalkStep ==
  ASSUME IInv, RemoveWalk
  PROVE  IInv'
<1>1. pc = "remove" /\ RemoveLoop /\ next[cur] # NULL /\ cur' = next[cur]
  BY DEF RemoveWalk, Step, IInv, Loops
<1>2. PICK k \in DOMAIN nodes : cur = nodes[k]
  BY <1>1 DEF RemoveLoop
<1>3. k + 1 \in DOMAIN nodes /\ cur' = nodes[k + 1]
  BY <1>1, <1>2, NextNode
<1>4. RemoveLoop'
  BY <1>1, <1>3 DEF RemoveWalk, Step, RemoveLoop
<1>5. Represents'
  BY ListKept DEF RemoveWalk, Step
<1> QED
  BY <1>1, <1>4, <1>5 DEF RemoveWalk, Step, IInv, FieldsOK, Loops, AnswersRight

LEMMA RemoveEndStep ==
  ASSUME IInv, RemoveEnd
  PROVE  IInv'
<1>1. /\ pc = "remove" /\ RemoveLoop
      /\ pc' = "idle" /\ answer' = head /\ head' = head
      /\ UNCHANGED <<call, cur, i, node>>
  BY DEF RemoveEnd, ReturnList, IInv, Loops
<1>2. PICK c \in DOMAIN nodes : cur = nodes[c]
  BY <1>1 DEF RemoveLoop
<1>3. CASE UNCHANGED <<next, heap, nodes>>
  <2>1. Represents'
    BY <1>1, <1>3, ListKept
  <2> QED
    BY <1>1, <1>3, <2>1 DEF IInv, FieldsOK, Loops, RemoveLoop, AnswersRight
<1>4. CASE /\ next[cur] = Target
           /\ next' = [next EXCEPT ![cur] = next[Target]]
           /\ heap' = heap \ {Target}
           /\ \E k \in DOMAIN nodes : nodes[k] = Target /\ nodes' = RemoveAt(nodes, k)
  <2>1. PICK p \in DOMAIN nodes : nodes[p] = Target /\ nodes' = RemoveAt(nodes, p)
    BY <1>4
\* The node found is the one after cur.
  <2>2. p = c + 1 /\ c \in Nat
    <3>1. next[nodes[c]] # NULL
      BY <1>2, <1>4, <2>1, Facts
    <3>2. c + 1 \in DOMAIN nodes /\ nodes[c + 1] = nodes[p]
      BY <1>2, <1>4, <2>1, <3>1, NextNode
    <3> QED
      BY <2>1, <3>2, Facts
  <2>3. next \in [Node -> Node \cup {NULL}] /\ cur \in Node /\ Target \in Node
    BY <1>2, <2>1, Facts DEF IInv, FieldsOK
  <2>4. p # 1
    BY <1>1, <2>1, Facts DEF RemoveLoop, Target
  <2>5. p - 1 = c
    BY <2>2
  <2>6. /\ p > 1 => next'[nodes[p - 1]] = next[nodes[p]]
        /\ \A k \in DOMAIN nodes : k \notin {p - 1, p} => next'[nodes[k]] = next[nodes[k]]
    BY <1>2, <1>4, <2>1, <2>3, <2>5, Facts
  <2>7. Linked(nodes, head, next) /\ heap = Range(nodes)
    BY <1>1 DEF IInv, Represents
  <2>8. /\ Linked(RemoveAt(nodes, p), IF p = 1 THEN next[nodes[1]] ELSE head, next')
        /\ Range(RemoveAt(nodes, p)) = Range(nodes) \ {nodes[p]}
    BY <2>6, <2>7, RemoveLinked
  <2>9. Represents'
    BY <1>1, <1>4, <2>1, <2>4, <2>7, <2>8 DEF Represents
  <2>10. FieldsOK'
    BY <1>1, <1>4, <2>3 DEF IInv, FieldsOK
  <2> QED
    BY <1>1, <2>9, <2>10 DEF IInv, Loops, RemoveLoop, AnswersRight
<1> QED
  BY <1>3, <1>4 DEF RemoveEnd

LEMMA PopStep ==
  ASSUME IInv, Pop
  PROVE  IInv'
<1>1. pc = "call" /\ call.op = "pop" /\ UNCHANGED <<next, call, cur, i, node>>
  BY DEF Pop
<1>2. CASE head = NULL
  <2>1. ReturnList(NULL) /\ UNCHANGED <<heap, nodes>>
    BY <1>2 DEF Pop
  <2>2. Represents'
    BY <1>1, <1>2, <2>1, ListKept DEF ReturnList
  <2> QED
    BY <1>1, <1>2, <2>1, <2>2 DEF ReturnList, IInv, FieldsOK, Loops, AnswersRight
<1>3. CASE head # NULL
  <2>1. TakeFirst
    BY <1>3 DEF Pop
  <2>2. FieldsOK' /\ Represents'
    BY <1>1, <1>3, <2>1, TakeFirstStep
  <2> QED
    BY <1>1, <2>1, <2>2 DEF TakeFirst, ReturnList, IInv, Loops, AnswersRight
<1> QED
  BY <1>2, <1>3

-----------------------------------------------------------------------------
(* list_get_node and list_get_count.                                       *)

\* The node an index names, or the last.
Named(index) ==
  IF nodes = <<>> THEN NULL
  ELSE nodes[IF index < Len(nodes) THEN index + 1 ELSE Len(nodes)]

LEMMA FoundStep ==
  ASSUME IInv, NEW n, n = Named(call.index), Found(n),
         call.op \in {"get", "remove_at"}, pc \in {"call", "get"},
         UNCHANGED <<heap, next, node, nodes>>
  PROVE  IInv'
<1>1. pc' \in {"idle", "call"} /\ head' = head
  BY DEF Found, Return
<1>2. Represents'
  BY <1>1, ListKept
<1>3. n \in Node \cup {NULL}
  <2>1. nodes # <<>> => Len(nodes) \in DOMAIN nodes
    BY Facts
  <2>2. nodes # <<>> /\ call.index < Len(nodes) => call.index + 1 \in DOMAIN nodes
    BY Facts
  <2> QED
    BY <2>1, <2>2, Facts DEF Named
<1>4. CASE call.op = "get"
  <2>1. pc' = "idle" /\ answer' = n /\ call' = call
    BY <1>4 DEF Found, Return
  <2>2. AnswersRight'
    BY <1>4, <2>1 DEF AnswersRight, Named
  <2> QED
    BY <1>2, <2>1, <2>2 DEF IInv, FieldsOK, Loops
<1>5. CASE call.op = "remove_at"
  <2>1. pc' = "call" /\ call' = [call EXCEPT !.op = "remove", !.node = n]
    BY <1>5 DEF Found
  <2>2. FieldsOK'
    BY <1>3, <2>1 DEF IInv, FieldsOK, Ops
  <2> QED
    BY <1>2, <2>1, <2>2 DEF IInv, Loops, AnswersRight
<1> QED
  BY <1>4, <1>5

LEMMA GetNodeStep ==
  ASSUME IInv, GetNode
  PROVE  IInv'
<1>1. /\ pc = "call" /\ call.op \in {"get", "remove_at"}
      /\ UNCHANGED <<heap, next, node, nodes>>
  BY DEF GetNode
<1>2. CASE head = NULL \/ call.index = 0
  <2>1. Found(head)
    BY <1>2 DEF GetNode
  <2>2. head = Named(call.index)
    BY <1>2, Facts DEF Named
  <2> QED
    BY <1>1, <2>1, <2>2, FoundStep
<1>3. CASE ~(head = NULL \/ call.index = 0)
  <2>1. Enter("get") /\ i' = 0 /\ call' = call
    BY <1>3 DEF GetNode
  <2>2. Represents'
    BY <1>1, <2>1, ListKept DEF Enter
  <2>3. GetLoop'
    BY <1>1, <1>3, <2>1, Facts DEF Enter, GetLoop
  <2> QED
    BY <1>1, <2>1, <2>2, <2>3 DEF Enter, IInv, FieldsOK, Loops, AnswersRight
<1> QED
  BY <1>2, <1>3

LEMMA GetWalkStep ==
  ASSUME IInv, GetWalk
  PROVE  IInv'
<1>1. GetLoop /\ pc = "get" /\ next[nodes[i + 1]] # NULL
  BY DEF IInv, Loops, GetWalk, Step, GetLoop
<1>2. i + 2 \in DOMAIN nodes /\ cur' = nodes[i + 2]
  <2>1. (i + 1) + 1 \in DOMAIN nodes /\ next[nodes[i + 1]] = nodes[(i + 1) + 1]
    BY <1>1, NextNode DEF GetLoop
  <2> QED
    BY <1>1, <2>1 DEF GetWalk, Step, GetLoop
<1>3. GetLoop'
  BY <1>1, <1>2, Facts DEF GetWalk, Step, GetLoop
<1>4. Represents'
  BY <1>1, ListKept DEF GetWalk, Step
<1> QED
  BY <1>1, <1>3, <1>4 DEF GetWalk, Step, IInv, FieldsOK, Loops, AnswersRight

LEMMA GetEndStep ==
  ASSUME IInv, GetEnd
  PROVE  IInv'
<1>1. /\ pc = "get" /\ GetLoop /\ Found(cur)
      /\ next[cur] = NULL \/ i >= call.index
      /\ UNCHANGED <<heap, next, cur, i, node, nodes>>
  BY DEF GetEnd, IInv, Loops
<1>2. /\ i \in Nat /\ i + 1 \in DOMAIN nodes /\ cur = nodes[i + 1] /\ i <= call.index
      /\ call.op \in {"get", "remove_at"}
  BY <1>1 DEF GetLoop
<1>3. cur = Named(call.index)
  <2>1. nodes # <<>> /\ Len(nodes) \in Nat /\ i + 1 <= Len(nodes) /\ call.index \in Nat
    BY <1>2, Facts
  <2>2. next[cur] = NULL => i + 1 = Len(nodes)
    <3>1. \A k \in DOMAIN nodes : k # Len(nodes) => next[nodes[k]] # NULL
      BY Facts
    <3> QED
      BY <1>2, <3>1
  <2>3. CASE call.index < Len(nodes)
    <3>1. i = call.index
      BY <1>1, <1>2, <2>1, <2>2, <2>3
    <3> QED
      BY <1>2, <2>1, <2>3, <3>1 DEF Named
  <2>4. CASE call.index >= Len(nodes)
    <3>1. i + 1 = Len(nodes)
      BY <1>1, <1>2, <2>1, <2>2, <2>4
    <3> QED
      BY <1>2, <2>1, <2>4, <3>1 DEF Named
  <2> QED
    BY <2>1, <2>3, <2>4
<1> QED
  BY <1>1, <1>2, <1>3, FoundStep

LEMMA CountStep ==
  ASSUME IInv, Count
  PROVE  IInv'
<1>1. pc = "call" /\ call.op = "count" /\ UNCHANGED <<heap, next, call, node, nodes>>
  BY DEF Count
<1>2. CASE head = NULL
  <2>1. Return(0)
    BY <1>2 DEF Count
  <2>2. Represents'
    BY <1>1, <2>1, ListKept DEF Return
  <2>3. Len(nodes) = 0
    BY <1>2, Facts
  <2> QED
    BY <1>1, <2>1, <2>2, <2>3 DEF Return, IInv, FieldsOK, Loops, AnswersRight
<1>3. CASE head # NULL
  <2>1. Enter("count") /\ i' = 1
    BY <1>3 DEF Count
  <2>2. Represents'
    BY <1>1, <2>1, ListKept DEF Enter
  <2>3. CountLoop'
    BY <1>1, <1>3, <2>1, Facts DEF Enter, CountLoop
  <2> QED
    BY <1>1, <2>1, <2>2, <2>3 DEF Enter, IInv, FieldsOK, Loops, AnswersRight
<1> QED
  BY <1>2, <1>3

LEMMA CountWalkStep ==
  ASSUME IInv, CountWalk
  PROVE  IInv'
<1>1. CountLoop /\ pc = "count" /\ next[nodes[i]] # NULL
  BY DEF IInv, Loops, CountWalk, Step, CountLoop
<1>2. i + 1 \in DOMAIN nodes /\ next[nodes[i]] = nodes[i + 1]
  BY <1>1, NextNode DEF CountLoop
<1>3. CountLoop'
  BY <1>1, <1>2 DEF CountWalk, Step, CountLoop
<1>4. Represents'
  BY <1>1, ListKept DEF CountWalk, Step
<1> QED
  BY <1>1, <1>3, <1>4 DEF CountWalk, Step, IInv, FieldsOK, Loops, AnswersRight

LEMMA CountEndStep ==
  ASSUME IInv, CountEnd
  PROVE  IInv'
<1>1. /\ pc = "count" /\ CountLoop /\ next[cur] = NULL /\ Return(i)
      /\ UNCHANGED <<heap, next, call, cur, i, node, nodes>>
  BY DEF CountEnd, IInv, Loops
<1>2. i = Len(nodes)
  <2>1. \A k \in DOMAIN nodes : k # Len(nodes) => next[nodes[k]] # NULL
    BY Facts
  <2> QED
    BY <1>1, <2>1 DEF CountLoop
<1>3. Represents'
  BY <1>1, ListKept DEF Return
<1> QED
  BY <1>1, <1>2, <1>3 DEF Return, IInv, FieldsOK, Loops, CountLoop, AnswersRight

-----------------------------------------------------------------------------
LEMMA StutterStep ==
  ASSUME IInv, UNCHANGED vars
  PROVE  IInv'
<1>1. Represents'
  BY ListKept DEF vars
<1> QED
  BY <1>1 DEF vars, IInv, FieldsOK, Loops, InsertLoop, RemoveLoop, GetLoop, CountLoop,
              AnswersRight

LEMMA Inductive == Spec => []IInv
<1>1. IInv /\ [Next]_vars => IInv'
  BY BeginStep, InsertFailsStep, InsertStep, InsertWalkStep, InsertLinkStep,
     RemoveNodeStep, RemoveWalkStep, RemoveEndStep, PopStep, GetNodeStep,
     GetWalkStep, GetEndStep, CountStep, CountWalkStep, CountEndStep, StutterStep
  DEF Next, Work
<1> QED
  BY <1>1, InitStep, PTL DEF Spec

\* Whatever is inserted and removed, at the ends, in the middle, past the end,
\* or by a node of another list, the pointers of list_insert, list_remove and
\* queue_pop lead through exactly the nodes that are in the list, in order, and
\* no node is lost or freed while it is in it; list_get_node finds the node an
\* index names and list_get_count counts them all.
THEOREM ListIsSequence == Spec => []ListAsSequence
<1>1. IInv => ListAsSequence
  BY DEF IInv, ListAsSequence
<1> QED
  BY <1>1, Inductive, PTL
=============================================================================
