------------------------------- MODULE FlList -------------------------------
(***************************************************************************)
(* The linked list of lib/fllist, which is also its queue and its stack:   *)
(* nodes on the heap, and the calls that walk them.  A caller keeps the    *)
(* pointer a call returns, unless it is the NULL of a failed insertion.    *)
(* One turn of a loop is a step.  A node stands for its value too, which   *)
(* list_insert stores in it and nothing changes.                           *)
(***************************************************************************)
EXTENDS Naturals, Sequences, SequencesExt

CONSTANTS
  Node,       \* the addresses calloc may return
  Other,      \* a node of another list
  NULL,
  MaxIndex    \* UINT_MAX, the index of list_insert_end and queue_push

ASSUME FlListAssumption ==
  NULL \notin Node /\ Other \notin Node \cup {NULL} /\ MaxIndex \in Nat \ {0}

VARIABLES
  heap,      \* the nodes allocated and not freed
  next,      \* the next of each, also of freed ones
  head,      \* the caller's list
  pc,        \* "idle" between calls, "call" at the start of one, or the loop it is in
  call,      \* the call: op, index, node
  cur, i,    \* the locals list and i of the loops
  node,      \* the local node of list_insert
  answer,    \* what the last call returned
  nodes      \* history: the nodes the calls have put in the list, in order

vars == <<heap, next, head, pc, call, cur, i, node, answer, nodes>>

Index == 0..MaxIndex

\* list_remove is given a node of this list or of another one, or NULL.
Call ==
  [op : {"insert", "remove_at", "get"}, index : Index, node : {NULL}]
  \cup [op : {"remove"}, index : {0}, node : Node \cup {Other, NULL}]
  \cup [op : {"count", "pop"}, index : {0}, node : {NULL}]

Init ==
  /\ heap = {} /\ nodes = <<>>
  /\ next \in [Node -> {NULL}]
  /\ head = NULL /\ cur = NULL /\ node = NULL /\ answer = NULL
  /\ pc = "idle" /\ i = 0
  /\ call \in {c \in Call : c.op = "pop"}

Begin ==
  /\ pc = "idle"
  /\ call' \in Call
  /\ pc' = "call"
  /\ UNCHANGED <<heap, next, head, cur, i, node, answer, nodes>>

\* The call returns a pointer, the caller's list from now on.
ReturnList(list) == pc' = "idle" /\ answer' = list /\ head' = list

\* The call returns something else.
Return(result) == pc' = "idle" /\ answer' = result /\ UNCHANGED head

Enter(loop) == pc' = loop /\ cur' = head /\ UNCHANGED <<head, answer>>

Step(loop) ==
  /\ pc = loop /\ next[cur] # NULL
  /\ cur' = next[cur]
  /\ UNCHANGED <<heap, next, head, pc, call, node, answer, nodes>>

-----------------------------------------------------------------------------
(* list_insert, list_insert_begin and _end, queue_push, stack_push.        *)

\* Where a new node goes: behind as many nodes as the index says, or all.
Position(index) == IF index < Len(nodes) THEN index ELSE Len(nodes)

InsertFails ==
  /\ pc = "call" /\ call.op = "insert"
  /\ Return(NULL)
  /\ UNCHANGED <<heap, next, call, cur, i, node, nodes>>

\* calloc, and the two cases without a loop: a list that is empty, index 0.
Insert ==
  /\ pc = "call" /\ call.op = "insert"
  /\ \E n \in Node \ heap :
       /\ heap' = heap \cup {n}
       /\ node' = n
       /\ IF head = NULL \/ call.index = 0
          THEN /\ next' = [next EXCEPT ![n] = head]
               /\ nodes' = InsertAt(nodes, 1, n)
               /\ ReturnList(n)
               /\ UNCHANGED <<cur, i>>
          ELSE /\ next' = [next EXCEPT ![n] = NULL]
               /\ i' = 0
               /\ Enter("insert")
               /\ UNCHANGED nodes
  /\ UNCHANGED call

InsertWalk == Step("insert") /\ i < call.index - 1 /\ i' = i + 1

\* Mutant of InsertLink: what followed is cut off.
InsertLinkLast ==
  /\ pc = "insert"
  /\ next[cur] = NULL \/ i >= call.index - 1
  /\ next' = [next EXCEPT ![cur] = node]
  /\ nodes' = InsertAt(nodes, Position(call.index) + 1, node)
  /\ ReturnList(head)
  /\ UNCHANGED <<heap, call, cur, i, node>>

InsertLink ==
  /\ pc = "insert"
  /\ next[cur] = NULL \/ i >= call.index - 1
  /\ next' = [next EXCEPT ![node] = next[cur], ![cur] = node]
  /\ nodes' = InsertAt(nodes, Position(call.index) + 1, node)
  /\ ReturnList(head)
  /\ UNCHANGED <<heap, call, cur, i, node>>

-----------------------------------------------------------------------------
(* list_remove, list_remove_at, queue_pop, stack_pop.                      *)

\* The first node is taken away and freed.
TakeFirst ==
  /\ heap' = heap \ {head}
  /\ nodes' = RemoveAt(nodes, 1)
  /\ ReturnList(next[head])

Target == call.node

RemoveNode ==
  /\ pc = "call" /\ call.op = "remove"
  /\ \/ /\ head = NULL \/ Target = NULL
        /\ ReturnList(head)
        /\ UNCHANGED <<heap, cur, nodes>>
     \/ /\ head # NULL /\ Target = head
        /\ TakeFirst
        /\ UNCHANGED cur
     \/ /\ head # NULL /\ Target \notin {NULL, head}
        /\ Enter("remove")
        /\ UNCHANGED <<heap, nodes>>
  /\ UNCHANGED <<next, call, i, node>>

\* Mutant of RemoveWalk: the next of the first node, not of this one.
RemoveWalkBack ==
  /\ pc = "remove" /\ next[cur] \notin {NULL, Target}
  /\ cur' = next[head]
  /\ UNCHANGED <<heap, next, head, pc, call, i, node, answer, nodes>>

RemoveWalk == Step("remove") /\ next[cur] # Target /\ i' = i

\* The node is found, or it is not of this list.
RemoveEnd ==
  /\ pc = "remove"
  /\ \/ /\ next[cur] = Target
        /\ next' = [next EXCEPT ![cur] = next[Target]]
        /\ heap' = heap \ {Target}
        /\ \E k \in DOMAIN nodes : nodes[k] = Target /\ nodes' = RemoveAt(nodes, k)
     \/ next[cur] = NULL /\ UNCHANGED <<next, heap, nodes>>
  /\ ReturnList(head)
  /\ UNCHANGED <<call, cur, i, node>>

\* queue_pop
Pop ==
  /\ pc = "call" /\ call.op = "pop"
  /\ IF head = NULL THEN ReturnList(NULL) /\ UNCHANGED <<heap, nodes>> ELSE TakeFirst
  /\ UNCHANGED <<next, call, cur, i, node>>

-----------------------------------------------------------------------------
(* list_get_node, and list_remove_at, which removes what it finds; the     *)
(* index of a node past the end is that of the last.                       *)

Found(n) ==
  IF call.op = "get"
  THEN Return(n) /\ UNCHANGED call
  ELSE pc' = "call" /\ call' = [call EXCEPT !.op = "remove", !.node = n]
       /\ UNCHANGED <<answer, head>>

GetNode ==
  /\ pc = "call" /\ call.op \in {"get", "remove_at"}
  /\ IF head = NULL \/ call.index = 0
     THEN Found(head) /\ UNCHANGED <<cur, i>>
     ELSE Enter("get") /\ i' = 0 /\ UNCHANGED call
  /\ UNCHANGED <<heap, next, node, nodes>>

GetWalk == Step("get") /\ i < call.index /\ i' = i + 1

\* Mutant of GetEnd: a node past the end is not found.
GetEndExact ==
  /\ pc = "get"
  /\ next[cur] = NULL \/ i >= call.index
  /\ Found(IF i = call.index THEN cur ELSE NULL)
  /\ UNCHANGED <<heap, next, cur, i, node, nodes>>

GetEnd ==
  /\ pc = "get"
  /\ next[cur] = NULL \/ i >= call.index
  /\ Found(cur)
  /\ UNCHANGED <<heap, next, cur, i, node, nodes>>

-----------------------------------------------------------------------------
(* list_get_count, queue_size.                                             *)

Count ==
  /\ pc = "call" /\ call.op = "count"
  /\ IF head = NULL
     THEN Return(0) /\ UNCHANGED <<cur, i>>
     ELSE Enter("count") /\ i' = 1
  /\ UNCHANGED <<heap, next, call, node, nodes>>

CountWalk == Step("count") /\ i' = i + 1

CountEnd ==
  /\ pc = "count" /\ next[cur] = NULL
  /\ Return(i)
  /\ UNCHANGED <<heap, next, call, cur, i, node, nodes>>

-----------------------------------------------------------------------------
Work ==
  \/ InsertFails \/ Insert \/ InsertWalk \/ InsertLink
  \/ RemoveNode \/ RemoveWalk \/ RemoveEnd \/ Pop
  \/ GetNode \/ GetWalk \/ GetEnd
  \/ Count \/ CountWalk \/ CountEnd

Next == Begin \/ Work

Spec == Init /\ [][Next]_vars

\* A call that has begun goes on: its thread runs, and calloc answers.
FairSpec == Spec /\ WF_vars(Work)

-----------------------------------------------------------------------------
(* Properties                                                              *)

\* From pointer first, by the pointers in nx, the nodes of s are reached, in
\* order and each once, and then NULL.
Linked(s, first, nx) ==
  /\ s \in Seq(Node)
  /\ \A j, k \in DOMAIN s : s[j] = s[k] => j = k
  /\ first = IF s = <<>> THEN NULL ELSE s[1]
  /\ \A k \in DOMAIN s : nx[s[k]] = IF k = Len(s) THEN NULL ELSE s[k + 1]

\* The nodes reached from the caller's pointer are those the calls have put
\* there, in that order, each once, and no others are allocated: nothing leaks
\* or is freed twice, and the list has no loop and no dangling end.
Represents ==
  /\ Linked(nodes, head, next)
  /\ heap = Range(nodes) \cup (IF pc = "insert" THEN {node} ELSE {})

\* What a call answers is right for the list: the node an index names, the
\* last one for an index past the end; the number of nodes; the list itself,
\* or the NULL of a failed insertion.
AnswersRight ==
  pc = "idle" =>
    CASE call.op = "get" ->
           answer = IF nodes = <<>> THEN NULL
                    ELSE nodes[IF call.index < Len(nodes) THEN call.index + 1 ELSE Len(nodes)]
      [] call.op = "count" -> answer = Len(nodes)
      [] OTHER -> answer \in {head, NULL}

\* The list on the heap behaves as a sequence.
ListAsSequence == Represents /\ AnswersRight

\* Every call returns: its loop comes to an end of the list, however the index
\* or the node was chosen.
CallsReturn == pc # "idle" ~> pc = "idle"
=============================================================================
