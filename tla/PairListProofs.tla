--------------------------- MODULE PairListProofs ---------------------------
(***************************************************************************)
(* PairList, for every number of threads, names, cells and descriptors:    *)
(* type correctness, memory safety of the list, the validity of the index  *)
(* accept uses under the mutex, and what one thread keeps in order.        *)
(***************************************************************************)
EXTENDS PairList, ListLemmas

-----------------------------------------------------------------------------
(* Type correctness.                                                       *)

ControlOK == pc \in [Thread -> PC] /\ loc \in [Thread -> Locals]

LEMMA GotoType ==
  ASSUME TypeOK, NEW t \in Thread, NEW label \in PC, Goto(t, label)
  PROVE  pc' \in [Thread -> PC]
BY DEF TypeOK, Goto

LEMMA LocalsFacts ==
  /\ NoLocals \in Locals
  /\ \A r \in Request \cup {NoRequest}, c \in Codes \cup {"none"} :
       [NoLocals EXCEPT !.req = r, !.code = c] \in Locals
  /\ \A l \in Locals :
       /\ l.req \in Request \cup {NoRequest}
       /\ \A x \in Addr \cup {None, Junk} : [l EXCEPT !.pair = x] \in Locals
       /\ \A x \in Nat : [l EXCEPT !.index = x] \in Locals
       /\ \A x \in Fd \cup {BadFd} : [l EXCEPT !.socket = x] \in Locals
       /\ \A x \in Addr \cup {None} : [l EXCEPT !.new_pair = x] \in Locals
       /\ \A x \in BOOLEAN : [l EXCEPT !.overwritten = x] \in Locals
       /\ \A x \in Addr \cup {None, Junk}, k \in Nat :
            /\ [l EXCEPT !.pair = x, !.index = k] \in Locals
            /\ [l EXCEPT !.pair = x, !.index = k, !.overwritten = TRUE]
                 \in Locals
<1>1. NoLocals \in Locals
  BY DEF Locals, NoLocals
<1>2. ASSUME NEW r \in Request \cup {NoRequest}, NEW c \in Codes \cup {"none"}
      PROVE  [NoLocals EXCEPT !.req = r, !.code = c] \in Locals
  BY DEF Locals, NoLocals
<1>3. ASSUME NEW l \in Locals
      PROVE  /\ l.req \in Request \cup {NoRequest}
             /\ \A x \in Addr \cup {None, Junk} : [l EXCEPT !.pair = x] \in Locals
             /\ \A x \in Nat : [l EXCEPT !.index = x] \in Locals
             /\ \A x \in Fd \cup {BadFd} : [l EXCEPT !.socket = x] \in Locals
             /\ \A x \in Addr \cup {None} : [l EXCEPT !.new_pair = x] \in Locals
             /\ \A x \in BOOLEAN : [l EXCEPT !.overwritten = x] \in Locals
             /\ \A x \in Addr \cup {None, Junk}, k \in Nat :
                  /\ [l EXCEPT !.pair = x, !.index = k] \in Locals
                  /\ [l EXCEPT !.pair = x, !.index = k, !.overwritten = TRUE]
                       \in Locals
  BY Zenon DEF Locals
<1> QED
  BY <1>1, <1>2, <1>3

LEMMA ReplyType ==
  ASSUME TypeOK, NEW t \in Thread, NEW code \in Codes, Reply(t, code)
  PROVE  ControlOK'
<1>1. "done" \in PC
  BY DEF PC
<1>2. pc' \in [Thread -> PC]
  BY <1>1 DEF Reply, Goto, TypeOK
<1>3. [NoLocals EXCEPT !.req = loc[t].req, !.code = code] \in Locals
  BY LocalsFacts DEF TypeOK
<1> QED
  BY <1>2, <1>3 DEF Reply, TypeOK, ControlOK

LEMMA SocketsOfType ==
  ASSUME TypeOK, NEW a \in Addr, NEW x \in SocketsOf(a)
  PROVE  x \in Fd \cup {BadFd}
BY DEF TypeOK, SocketsOf, IdSocketPair

LEMMA ClosedType ==
  ASSUME TypeOK, NEW f
  PROVE  Closed(f) \in [Fd -> Id \cup {None}]
BY DEF TypeOK, Closed

LEMMA FreedType ==
  ASSUME TypeOK, NEW a
  PROVE  Freed(a) \in [Addr -> IdSocketPair]
BY DEF TypeOK, Freed, IdSocketPair

LEMMA AddedType ==
  ASSUME TypeOK, NEW a \in Addr, AddPair(a) \/ AddPairFails
  PROVE  pair_list' \in Seq(Addr \cup {Junk})
<1>1. pair_list \in Seq(Addr \cup {Junk})
  BY DEF TypeOK
<1>2. \A x \in Addr \cup {Junk} :
        Append(pair_list, x) \in Seq(Addr \cup {Junk})
  BY <1>1
<1> QED
  BY <1>2 DEF AddPair, AddPairFails

LEMMA RemovePairType ==
  ASSUME TypeOK, NEW k, RemovePair(k)
  PROVE  heap' \in [Addr -> IdSocketPair] /\ pair_list' \in Seq(Addr \cup {Junk})
<1>1. CASE k \in DOMAIN pair_list
  <2>1. heap' \in [Addr -> IdSocketPair]
    <3>1. \A a \in Addr : /\ heap[a] \in IdSocketPair
                          /\ [heap[a] EXCEPT !.live = FALSE] \in IdSocketPair
      BY DEF TypeOK, IdSocketPair
    <3> QED
      BY <1>1, <3>1 DEF RemovePair
  <2>2. pair_list' \in Seq(Addr \cup {Junk})
    <3>1. pair_list \in Seq(Addr \cup {Junk})
      BY DEF TypeOK
    <3>2. RemoveAt(pair_list, k) \in Seq(Addr \cup {Junk})
      BY <1>1, <3>1, RemoveAtProperties
    <3>3. pair_list' = RemoveAt(pair_list, k)
      BY <1>1 DEF RemovePair
    <3> QED
      BY <3>2, <3>3
  <2> QED
    BY <2>1, <2>2
<1>2. CASE k \notin DOMAIN pair_list
  BY <1>2 DEF TypeOK, RemovePair
<1> QED
  BY <1>1, <1>2

LEMMA NewPairType ==
  ASSUME TypeOK, NEW t \in Thread, NEW id \in Id \cup {None}, NEW f \in Fd,
         NewPair(t, id, f)
  PROVE  heap' \in [Addr -> IdSocketPair] /\ loc' \in [Thread -> Locals]
<1>1. PICK a \in Addr :
        /\ heap' = [heap EXCEPT ![a] =
                      [live |-> TRUE, id |-> id, socket |-> f]]
        /\ loc' = [loc EXCEPT ![t].new_pair = a]
  BY DEF NewPair
<1>2. heap' \in [Addr -> IdSocketPair]
  BY <1>1 DEF TypeOK, IdSocketPair
<1>3. [loc[t] EXCEPT !.new_pair = a] \in Locals
  BY LocalsFacts DEF TypeOK
<1> QED
  BY <1>1, <1>2, <1>3 DEF TypeOK

LEMMA RequestType ==
  \A r \in Request : /\ r.id \in Id \cup {None}
                     /\ r.new \in Id \cup {None}
                     /\ r.cmd \in AllCmds
                     /\ Entry(r.cmd) \in PC
<1> SUFFICES ASSUME NEW r \in Request
             PROVE  /\ r.id \in Id \cup {None}
                    /\ r.new \in Id \cup {None}
                    /\ r.cmd \in AllCmds
                    /\ Entry(r.cmd) \in PC
  OBVIOUS
<1>1. /\ r.id \in Id \cup {None}
      /\ r.new \in Id \cup {None}
      /\ r.cmd \in AllCmds
  BY ConstantsAssumption DEF Request
<1>2. Entry(r.cmd) \in PC
  BY <1>1 DEF Entry, PC, AllCmds
<1> QED
  BY <1>1, <1>2

LEMMA RequestedNames ==
  ASSUME TypeOK, NEW t \in Thread
  PROVE  /\ loc[t].req.id \in Id \cup {None}
         /\ loc[t].req.new \in Id \cup {None}
<1>1. loc[t].req \in Request \cup {NoRequest}
  BY LocalsFacts DEF TypeOK
<1>2. CASE loc[t].req \in Request
  BY <1>2, RequestType
<1>3. CASE loc[t].req = NoRequest
  BY <1>3 DEF NoRequest
<1> QED
  BY <1>1, <1>2, <1>3

\* The pointers a thread reads a pair through are pointers, not null.
PairRead ==
  \A t \in Thread :
    pc[t] \in {"new_shutdown", "accept_block", "use_read", "accept_close"}
      => loc[t].pair \in Addr

LEMMA FindsAddr ==
  ASSUME TypeOK, NEW k \in DOMAIN pair_list, NEW id, Finds(id, k)
  PROVE  pair_list[k] \in Addr /\ heap[pair_list[k]].id = id
<1>1. pair_list[k] \in Addr \cup {Junk}
  BY DEF TypeOK
<1> QED
  BY <1>1 DEF Finds, Named, Wild

\* The lookup leaves a pointer and a label, or what OnMiss leaves.
LEMMA GetPairType ==
  ASSUME TypeOK, NEW t \in Thread, NEW id, NEW found \in PC, NEW OnMiss,
         GetPair(t, id, found, OnMiss), OnMiss => ControlOK'
  PROVE  ControlOK'
<1>1. CASE \E k \in DOMAIN pair_list :
             /\ loc' = [loc EXCEPT ![t].pair = pair_list[k], ![t].index = k]
             /\ Goto(t, found)
  <2>1. PICK k \in DOMAIN pair_list :
             /\ loc' = [loc EXCEPT ![t].pair = pair_list[k], ![t].index = k]
             /\ Goto(t, found)
    BY <1>1
  <2>2. pair_list[k] \in Addr \cup {Junk} /\ k \in Nat
    BY DEF TypeOK
  <2>3. [loc[t] EXCEPT !.pair = pair_list[k], !.index = k] \in Locals
    BY <2>2, LocalsFacts DEF TypeOK
  <2> QED
    BY <2>1, <2>3, GotoType DEF TypeOK, ControlOK
<1>2. CASE OnMiss
  BY <1>2
<1> QED
  BY <1>1, <1>2 DEF GetPair

\* Every step keeps the types.
LEMMA TypeStep ==
  ASSUME TypeOK, ListSound, PairRead, [Next]_vars
  PROVE  TypeOK'
<1> USE DEF At, PC
<1>s. /\ server' = server => server' \in {"up", "exited", "crashed"}
      /\ fds' = fds => fds' \in [Fd -> Id \cup {None}]
  BY DEF TypeOK
<1>u. UNCHANGED vars => TypeOK'
  BY DEF vars, TypeOK
<1>1. ASSUME NEW t \in Thread, ServeClient(t) PROVE TypeOK'
  <2>1. PICK r \in Request : /\ loc' = [loc EXCEPT ![t].req = r]
                             /\ Goto(t, Entry(r.cmd))
    BY <1>1 DEF ServeClient
  <2>2. [loc[t] EXCEPT !.req = r] \in Locals
    BY Zenon DEF TypeOK, Locals
  <2>3. pc' \in [Thread -> PC]
    BY <2>1, RequestType, GotoType
  <2> QED
    BY <1>1, <2>1, <2>2, <2>3 DEF ServeClient, TypeOK
<1>2. ASSUME NEW t \in Thread, EndRequest(t) PROVE TypeOK'
  BY <1>2, LocalsFacts DEF EndRequest, TypeOK, Goto
<1>3. ASSUME NEW t \in Thread, NewGetPair(t) PROVE TypeOK'
  <2>1. Goto(t, "new_socket") /\ UNCHANGED loc => ControlOK'
    BY DEF Goto, TypeOK, ControlOK
  <2>2. ControlOK'
    BY <1>3, <2>1, GetPairType DEF NewGetPair
  <2> QED
    BY <1>3, <2>2 DEF NewGetPair, GetPair, TypeOK, ControlOK
<1>4. ASSUME NEW t \in Thread, AcceptGetPair(t) PROVE TypeOK'
  <2>1. Reply(t, "NOT_FOUND") => ControlOK'
    BY ReplyType DEF Codes
  <2>2. ControlOK'
    BY <1>4, <2>1, GetPairType DEF AcceptGetPair
  <2> QED
    BY <1>4, <2>2 DEF AcceptGetPair, GetPair, TypeOK, ControlOK
<1>5. ASSUME NEW t \in Thread, UseGetPair(t) PROVE TypeOK'
  <2>1. Reply(t, "NOT_FOUND") => ControlOK'
    BY ReplyType DEF Codes
  <2>2. ControlOK'
    BY <1>5, <2>1, GetPairType DEF UseGetPair
  <2> QED
    BY <1>5, <2>2 DEF UseGetPair, GetPair, TypeOK, ControlOK
<1>6. ASSUME NEW t \in Thread, NewShutdown(t) PROVE TypeOK'
  <2>1. loc[t].pair \in Addr
    BY <1>6 DEF NewShutdown, PairRead
  <2>2. PICK s \in SocketsOf(loc[t].pair) : loc' = [loc EXCEPT ![t].socket = s]
    BY <1>6 DEF NewShutdown
  <2>3. [loc[t] EXCEPT !.socket = s] \in Locals
    BY <2>1, SocketsOfType, LocalsFacts DEF TypeOK
  <2> QED
    BY <1>6, <2>2, <2>3 DEF NewShutdown, TypeOK, Goto
<1>7. ASSUME NEW t \in Thread, UseRead(t) PROVE TypeOK'
  <2>1. loc[t].pair \in Addr
    BY <1>7 DEF UseRead, PairRead
  <2>2. PICK s \in SocketsOf(loc[t].pair) : loc' = [loc EXCEPT ![t].socket = s]
    BY <1>7 DEF UseRead
  <2>3. [loc[t] EXCEPT !.socket = s] \in Locals
    BY <2>1, SocketsOfType, LocalsFacts DEF TypeOK
  <2> QED
    BY <1>7, <2>2, <2>3 DEF UseRead, TypeOK, Goto
<1>8. ASSUME NEW t \in Thread, NewClose(t) PROVE TypeOK'
  BY <1>8, ClosedType DEF NewClose, TypeOK, Goto
<1>9. ASSUME NEW t \in Thread, NewRemove(t) PROVE TypeOK'
  <2>1. [loc[t] EXCEPT !.overwritten = TRUE] \in Locals
    BY LocalsFacts DEF TypeOK
  <2>2. heap' \in [Addr -> IdSocketPair] /\ pair_list' \in Seq(Addr \cup {Junk})
    BY <1>9, RemovePairType DEF NewRemove
  <2> QED
    BY <1>9, <2>1, <2>2 DEF NewRemove, TypeOK, Goto
<1>10. ASSUME NEW t \in Thread, FreeClose(t) PROVE TypeOK'
  <2>1. ControlOK'
    BY <1>10, ReplyType DEF FreeClose, Codes
  <2> QED
    BY <1>10, <2>1, ClosedType DEF FreeClose, TypeOK, ControlOK
<1>11. ASSUME NEW t \in Thread, UseReturns(t) PROVE TypeOK'
  <2>1. ControlOK'
    BY <1>11, ReplyType DEF UseReturns, Codes
  <2> QED
    BY <1>11, <2>1 DEF UseReturns, TypeOK, ControlOK
<1>12. ASSUME NEW t \in Thread, ListLock(t) PROVE TypeOK'
  <2>1. [loc[t] EXCEPT !.index = 1] \in Locals
    BY LocalsFacts DEF TypeOK
  <2> QED
    BY <1>12, <2>1 DEF ListLock, TypeOK, Goto
<1>13. ASSUME NEW t \in Thread, ListSend(t) PROVE TypeOK'
  <2>1. loc[t].index + 1 \in Nat
    BY DEF TypeOK, Locals
  <2>2. [loc[t] EXCEPT !.index = loc[t].index + 1] \in Locals
    BY <2>1, LocalsFacts DEF TypeOK
  <2>3. CASE UNCHANGED <<pair_mutex, pc>>
             /\ loc' = [loc EXCEPT ![t].index = @ + 1]
    BY <1>13, <2>2, <2>3 DEF ListSend, TypeOK
  <2>4. CASE pair_mutex' = None /\ Reply(t, "SUCCESS")
    <3>1. ControlOK'
      BY <2>4, ReplyType DEF Codes
    <3> QED
      BY <1>13, <2>4, <3>1 DEF ListSend, TypeOK, ControlOK
  <2> QED
    BY <1>13, <2>3, <2>4 DEF ListSend
<1>14. ASSUME NEW t \in Thread, ExitLock(t) PROVE TypeOK'
  BY <1>14 DEF ExitLock, TypeOK, Goto
<1>15. ASSUME NEW t \in Thread, ExitClose(t) PROVE TypeOK'
  <2>1. CASE RemovePair(1) /\ fds' = Closed(heap[pair_list[1]].socket)
             /\ UNCHANGED server
    BY <1>15, <2>1, RemovePairType, ClosedType DEF ExitClose, TypeOK
  <2>2. CASE server' = "exited" /\ UNCHANGED <<fds, heap, pair_list>>
    BY <1>15, <2>2 DEF ExitClose, TypeOK
  <2> QED
    BY <1>15, <2>1, <2>2 DEF ExitClose
<1>16. ASSUME NEW t \in Thread, JunkCrash(t) PROVE TypeOK'
  BY <1>16 DEF JunkCrash, TypeOK
<1>17. ASSUME NEW t \in Thread, NewSocket(t) PROVE TypeOK'
  <2>1. CASE \E code \in Codes : Reply(t, code) /\ UNCHANGED <<heap, fds>>
    <3>1. ControlOK'
      BY <2>1, ReplyType
    <3> QED
      BY <1>17, <2>1, <3>1 DEF NewSocket, TypeOK, ControlOK
  <2>2. CASE \E f \in Fd : /\ NewPair(t, loc[t].req.id, f)
                           /\ fds' = [fds EXCEPT ![f] = loc[t].req.id]
                           /\ Goto(t, "new_add")
    <3>1. loc[t].req.id \in Id \cup {None}
      BY RequestedNames
    <3>2. heap' \in [Addr -> IdSocketPair] /\ loc' \in [Thread -> Locals]
      BY <2>2, <3>1, NewPairType
    <3> QED
      BY <1>17, <2>2, <3>1, <3>2 DEF NewSocket, TypeOK, Goto
  <2> QED
    BY <1>17, <2>1, <2>2 DEF NewSocket, Codes
<1>18. ASSUME NEW t \in Thread, AcceptReturns(t) PROVE TypeOK'
  <2>1. CASE \E code \in Codes : Reply(t, code) /\ UNCHANGED <<heap, fds>>
    <3>1. ControlOK'
      BY <2>1, ReplyType
    <3> QED
      BY <1>18, <2>1, <3>1 DEF AcceptReturns, TypeOK, ControlOK
  <2>2. CASE \E f \in Fd : /\ NewPair(t, loc[t].req.new, f)
                           /\ fds' = [fds EXCEPT ![f] = loc[t].req.new]
                           /\ Goto(t, "accept_lock")
    <3>1. loc[t].req.new \in Id \cup {None}
      BY RequestedNames
    <3>2. heap' \in [Addr -> IdSocketPair] /\ loc' \in [Thread -> Locals]
      BY <2>2, <3>1, NewPairType
    <3> QED
      BY <1>18, <2>2, <3>1, <3>2 DEF AcceptReturns, TypeOK, Goto
  <2> QED
    BY <1>18, <2>1, <2>2 DEF AcceptReturns, Codes
<1>19. ASSUME NEW t \in Thread, NewAdd(t) PROVE TypeOK'
  <2>1. loc[t].new_pair \in Addr
    BY <1>19 DEF NewAdd, ListSound, Building
  <2>2. pair_list' \in Seq(Addr \cup {Junk})
    BY <1>19, <2>1, AddedType DEF NewAdd
  <2>3. AddCode(t) \in Codes
    BY DEF AddCode, Codes
  <2>4. ControlOK'
    BY <1>19, <2>3, ReplyType DEF NewAdd, Codes
  <2> QED
    BY <1>19, <2>2, <2>4, ClosedType, FreedType DEF NewAdd, TypeOK, ControlOK
<1>20. ASSUME NEW t \in Thread, AcceptAdd(t) PROVE TypeOK'
  <2>1. loc[t].new_pair \in Addr
    BY <1>20 DEF AcceptAdd, ListSound, Building
  <2>2. pair_list' \in Seq(Addr \cup {Junk})
    BY <1>20, <2>1, AddedType DEF AcceptAdd
  <2>3. AddCode(t) \in Codes
    BY DEF AddCode, Codes
  <2>4. ControlOK'
    <3>1. CASE \E code \in Codes : Reply(t, code)
      BY <3>1, ReplyType
    <3>2. CASE UNCHANGED <<pc, loc>>
      BY <3>2 DEF TypeOK, ControlOK
    <3> QED
      BY <1>20, <2>3, <3>1, <3>2 DEF AcceptAdd, Codes
  <2>5. fds' \in [Fd -> Id \cup {None}]
    BY <1>20, <1>s, ClosedType DEF AcceptAdd
  <2>6. heap' \in [Addr -> IdSocketPair]
    BY <1>20, FreedType DEF AcceptAdd, TypeOK
  <2>7. server' \in {"up", "exited", "crashed"}
    BY <1>20 DEF AcceptAdd, TypeOK
  <2> QED
    BY <1>20, <2>2, <2>4, <2>5, <2>6, <2>7 DEF AcceptAdd, TypeOK, ControlOK
<1>21. ASSUME NEW t \in Thread, FreeRemove(t) PROVE TypeOK'
  <2>1. CASE \E k \in DOMAIN pair_list :
               /\ Finds(loc[t].req.id, k)
               /\ loc' = [loc EXCEPT ![t].socket = heap[pair_list[k]].socket]
               /\ RemovePair(k)
               /\ Goto(t, "free_close")
    <3>1. PICK k \in DOMAIN pair_list :
               /\ Finds(loc[t].req.id, k)
               /\ loc' = [loc EXCEPT ![t].socket = heap[pair_list[k]].socket]
               /\ RemovePair(k)
               /\ Goto(t, "free_close")
      BY <2>1
    <3>2. heap[pair_list[k]].socket \in Fd \cup {BadFd}
      BY <3>1, FindsAddr DEF TypeOK, IdSocketPair
    <3>3. [loc[t] EXCEPT !.socket = heap[pair_list[k]].socket] \in Locals
      BY <3>2, LocalsFacts DEF TypeOK
    <3>4. heap' \in [Addr -> IdSocketPair] /\ pair_list' \in Seq(Addr \cup {Junk})
      BY <3>1, RemovePairType
    <3> QED
      BY <1>21, <3>1, <3>3, <3>4 DEF FreeRemove, TypeOK, Goto
  <2>2. CASE Reply(t, "NOT_FOUND") /\ UNCHANGED <<heap, pair_list>>
    <3>1. ControlOK'
      BY <2>2, ReplyType DEF Codes
    <3> QED
      BY <1>21, <2>2, <3>1 DEF FreeRemove, TypeOK, ControlOK
  <2> QED
    BY <1>21, <2>1, <2>2 DEF FreeRemove
<1>22. ASSUME NEW t \in Thread, AcceptBlock(t) PROVE TypeOK'
  <2>1. CASE Reply(t, "NETWORK_ERROR")
    <3>1. ControlOK'
      BY <2>1, ReplyType DEF Codes
    <3> QED
      BY <1>22, <3>1 DEF AcceptBlock, TypeOK, ControlOK
  <2>2. CASE \E s \in Fd : /\ Goto(t, "accept_wait")
                           /\ loc' = [loc EXCEPT ![t].socket = s]
    <3>1. PICK s \in Fd : /\ Goto(t, "accept_wait")
                          /\ loc' = [loc EXCEPT ![t].socket = s]
      BY <2>2
    <3>2. [loc[t] EXCEPT !.socket = s] \in Locals
      BY LocalsFacts DEF TypeOK
    <3> QED
      BY <1>22, <3>1, <3>2 DEF AcceptBlock, TypeOK, Goto
  <2> QED
    BY <1>22, <2>1, <2>2 DEF AcceptBlock
<1>23. ASSUME NEW t \in Thread, AcceptLock(t) PROVE TypeOK'
  <2>1. CASE \E k \in DOMAIN pair_list :
               /\ loc' = [loc EXCEPT ![t].pair = pair_list[k], ![t].index = k,
                                     ![t].overwritten = TRUE]
               /\ pair_mutex' = t
               /\ Goto(t, "accept_close")
    <3>1. PICK k \in DOMAIN pair_list :
               /\ loc' = [loc EXCEPT ![t].pair = pair_list[k], ![t].index = k,
                                     ![t].overwritten = TRUE]
               /\ pair_mutex' = t
               /\ Goto(t, "accept_close")
      BY <2>1
    <3>2. pair_list[k] \in Addr \cup {Junk} /\ k \in Nat
      BY DEF TypeOK
    <3>3. [loc[t] EXCEPT !.pair = pair_list[k], !.index = k,
                         !.overwritten = TRUE] \in Locals
      BY <3>2, LocalsFacts DEF TypeOK
    <3> QED
      BY <1>23, <3>1, <3>3 DEF AcceptLock, TypeOK, Goto
  <2>2. CASE /\ loc' = [loc EXCEPT ![t].pair = None]
             /\ Goto(t, "accept_add")
             /\ UNCHANGED pair_mutex
    <3>1. [loc[t] EXCEPT !.pair = None] \in Locals
      BY LocalsFacts DEF TypeOK
    <3> QED
      BY <1>23, <2>2, <3>1 DEF AcceptLock, TypeOK, Goto
  <2> QED
    BY <1>23, <2>1, <2>2 DEF AcceptLock
<1>24. ASSUME NEW t \in Thread, AcceptClose(t) PROVE TypeOK'
  BY <1>24, ClosedType, RemovePairType DEF AcceptClose, TypeOK, Goto
<1>25. ASSUME NEW t \in Thread, Step(t) PROVE TypeOK'
  BY <1>1, <1>2, <1>3, <1>4, <1>5, <1>6, <1>7, <1>8, <1>9, <1>10, <1>11,
     <1>12, <1>13, <1>14, <1>15, <1>16, <1>17, <1>18, <1>19, <1>20, <1>21,
     <1>22, <1>23, <1>24, <1>25 DEF Step, Progress
<1> QED
  BY <1>25, <1>u DEF Next, Stopped

-----------------------------------------------------------------------------
(* Memory safety of the list: what each kind of change does to it.         *)

\* No thread but those in S starts to build a pair or changes the one it
\* builds.
BuildsOnly(S) ==
  \A u \in Thread \ S :
    Building(u)' => Building(u) /\ loc'[u].new_pair = loc[u].new_pair

LEMMA QuietSound ==
  ASSUME ListSound, BuildsOnly({}), UNCHANGED <<pair_list, heap>>
  PROVE  ListSound'
BY DEF ListSound, BuildsOnly, Wild

\* Removing a pair frees one cell, which no other slot holds.
LEMMA RemoveSound ==
  ASSUME TypeOK, ListSound, BuildsOnly({}), NEW k, RemovePair(k)
  PROVE  ListSound'
<1>1. CASE k \notin DOMAIN pair_list
  BY <1>1, QuietSound DEF RemovePair
<1>2. CASE k \in DOMAIN pair_list
  <2> DEFINE n == Len(pair_list)
             Old(j) == IF j < k THEN j ELSE j + 1
  <2>1. pair_list \in Seq(Addr \cup {Junk}) /\ n \in Nat /\ k \in 1..n
    BY <1>2 DEF TypeOK
  <2>2. /\ DOMAIN pair_list' = 1..(n - 1)
        /\ \A j \in 1..(n - 1) : pair_list'[j] = pair_list[Old(j)]
    <3>1. pair_list' = RemoveAt(pair_list, k)
      BY <1>2 DEF RemovePair
    <3>2. /\ RemoveAt(pair_list, k) \in Seq(Addr \cup {Junk})
          /\ Len(RemoveAt(pair_list, k)) = n - 1
          /\ \A j \in 1..(n - 1) :
               RemoveAt(pair_list, k)[j]
                 = IF j < k THEN pair_list[j] ELSE pair_list[j + 1]
      BY <1>2, <2>1, RemoveAtProperties
    <3> QED
      BY <3>1, <3>2
  <2>3. \A j \in 1..(n - 1) :
          /\ Old(j) \in DOMAIN pair_list
          /\ Old(j) # k
          /\ \A i \in 1..(n - 1) : Old(i) = Old(j) => i = j
    BY <2>1
  <2>4. \A a \in Addr : /\ a # pair_list[k] => heap'[a] = heap[a]
                        /\ heap'[a].live => heap[a].live
    BY <1>2 DEF RemovePair, TypeOK, IdSocketPair
  <2> HIDE DEF Old
  <2>5. ASSUME NEW i \in DOMAIN pair_list', NEW j \in DOMAIN pair_list',
               pair_list'[i] = pair_list'[j], pair_list'[i] # Junk
        PROVE  i = j
    BY <2>2, <2>3, <2>5 DEF ListSound, Wild
  <2>6. ASSUME NEW j \in DOMAIN pair_list', pair_list'[j] # Junk
        PROVE  heap'[pair_list'[j]].live
    <3>1. /\ Old(j) \in DOMAIN pair_list /\ Old(j) # k
          /\ pair_list'[j] = pair_list[Old(j)]
      BY <2>2, <2>3
    <3>2. pair_list[Old(j)] \in Addr /\ pair_list[Old(j)] # pair_list[k]
      BY <1>2, <2>1, <2>6, <3>1 DEF ListSound, Wild
    <3> QED
      BY <2>4, <2>6, <3>1, <3>2 DEF ListSound, Wild
  <2>7. ASSUME NEW u \in Thread, Building(u)'
        PROVE  /\ loc'[u].new_pair \in Addr
               /\ heap'[loc'[u].new_pair].live
               /\ \A j \in DOMAIN pair_list' : pair_list'[j] # loc'[u].new_pair
    <3>1. /\ Building(u) /\ loc'[u].new_pair = loc[u].new_pair
          /\ loc[u].new_pair \in Addr
          /\ heap[loc[u].new_pair].live
          /\ \A j \in DOMAIN pair_list : pair_list[j] # loc[u].new_pair
      BY <2>7 DEF BuildsOnly, ListSound
    <3> QED
      BY <1>2, <2>2, <2>3, <2>4, <3>1
  <2>8. \A u, v \in Thread : Building(u)' /\ Building(v)' /\ u # v
          => loc'[u].new_pair # loc'[v].new_pair
    BY DEF BuildsOnly, ListSound
  <2> QED
    BY <2>5, <2>6, <2>7, <2>8 DEF ListSound, Wild
<1> QED
  BY <1>1, <1>2

LEMMA AppendFacts ==
  ASSUME TypeOK, NEW x \in Addr \cup {Junk}, pair_list' = Append(pair_list, x)
  PROVE  /\ DOMAIN pair_list' = DOMAIN pair_list \cup {Len(pair_list) + 1}
         /\ Len(pair_list) + 1 \notin DOMAIN pair_list
         /\ pair_list'[Len(pair_list) + 1] = x
         /\ \A j \in DOMAIN pair_list : pair_list'[j] = pair_list[j]
<1>1. pair_list \in Seq(Addr \cup {Junk})
  BY DEF TypeOK
<1> QED
  BY <1>1

\* A pair is listed by the thread that built it, which then forgets it.
LEMMA AddSound ==
  ASSUME TypeOK, ListSound, BuildsOnly({}), NEW t \in Thread,
         Building(t), ~Building(t)', AddPair(loc[t].new_pair), UNCHANGED heap
  PROVE  ListSound'
<1> DEFINE a == loc[t].new_pair
           last == Len(pair_list) + 1
<1>1. /\ a \in Addr /\ heap[a].live
      /\ \A j \in DOMAIN pair_list : pair_list[j] # a
      /\ \A u \in Thread : Building(u) /\ u # t => loc[u].new_pair # a
  BY DEF ListSound
<1>2. /\ DOMAIN pair_list' = DOMAIN pair_list \cup {last}
      /\ last \notin DOMAIN pair_list
      /\ pair_list'[last] = a
      /\ \A j \in DOMAIN pair_list : pair_list'[j] = pair_list[j]
  BY <1>1, AppendFacts DEF AddPair
<1> HIDE DEF a, last
<1>3. \A i, j \in DOMAIN pair_list' :
        pair_list'[i] = pair_list'[j] /\ pair_list'[i] # Junk => i = j
  BY <1>1, <1>2 DEF ListSound, Wild
<1>4. \A j \in DOMAIN pair_list' :
        pair_list'[j] # Junk => heap'[pair_list'[j]].live
  BY <1>1, <1>2 DEF ListSound, Wild
<1>5. ASSUME NEW u \in Thread, Building(u)'
      PROVE  /\ loc'[u].new_pair \in Addr
             /\ heap'[loc'[u].new_pair].live
             /\ \A j \in DOMAIN pair_list' : pair_list'[j] # loc'[u].new_pair
  BY <1>1, <1>2, <1>5 DEF ListSound, BuildsOnly
<1>6. \A u, v \in Thread : Building(u)' /\ Building(v)' /\ u # v
        => loc'[u].new_pair # loc'[v].new_pair
  BY DEF BuildsOnly, ListSound
<1> QED
  BY <1>3, <1>4, <1>5, <1>6 DEF ListSound, Wild

\* When the list cannot grow, the pair that was built is freed, unlisted.
LEMMA AddFailsSound ==
  ASSUME TypeOK, ListSound, BuildsOnly({}), NEW t \in Thread, Building(t),
         AddPairFails,
         \/ ~Building(t)' /\ heap' = Freed(loc[t].new_pair)
         \/ UNCHANGED heap
  PROVE  ListSound'
<1> DEFINE a == loc[t].new_pair
           last == Len(pair_list) + 1
<1>1. /\ a \in Addr
      /\ \A j \in DOMAIN pair_list : pair_list[j] # a
      /\ \A u \in Thread : Building(u) /\ u # t => loc[u].new_pair # a
  BY DEF ListSound
<1>2. /\ DOMAIN pair_list' = DOMAIN pair_list \cup {last}
      /\ last \notin DOMAIN pair_list
      /\ pair_list'[last] = Junk
      /\ \A j \in DOMAIN pair_list : pair_list'[j] = pair_list[j]
  BY AppendFacts DEF AddPairFails
<1>3. \A b \in Addr : b # a => heap'[b] = heap[b]
  BY DEF Freed, TypeOK
<1> HIDE DEF last
<1>4. \A i, j \in DOMAIN pair_list' :
        pair_list'[i] = pair_list'[j] /\ pair_list'[i] # Junk => i = j
  BY <1>2 DEF ListSound, Wild
<1>5. ASSUME NEW j \in DOMAIN pair_list', pair_list'[j] # Junk
      PROVE  heap'[pair_list'[j]].live
  <2>1. /\ j \in DOMAIN pair_list /\ pair_list'[j] = pair_list[j]
        /\ pair_list[j] # a /\ heap[pair_list[j]].live
    BY <1>1, <1>2, <1>5 DEF ListSound, Wild
  <2>2. pair_list[j] \in Addr
    BY <1>5, <2>1 DEF TypeOK
  <2> QED
    BY <1>3, <2>1, <2>2
<1>6. ASSUME NEW u \in Thread, Building(u)'
      PROVE  /\ loc'[u].new_pair \in Addr
             /\ heap'[loc'[u].new_pair].live
             /\ \A j \in DOMAIN pair_list' : pair_list'[j] # loc'[u].new_pair
  <2>1. /\ Building(u) /\ loc'[u].new_pair = loc[u].new_pair
        /\ loc[u].new_pair \in Addr /\ heap[loc[u].new_pair].live
        /\ \A j \in DOMAIN pair_list : pair_list[j] # loc[u].new_pair
    BY <1>6 DEF BuildsOnly, ListSound
  <2>2. heap'[loc[u].new_pair].live
    BY <1>1, <1>3, <1>6, <2>1
  <2> QED
    BY <1>2, <2>1, <2>2, ConstantsAssumption DEF ConstantsAssumption
<1>7. \A u, v \in Thread : Building(u)' /\ Building(v)' /\ u # v
        => loc'[u].new_pair # loc'[v].new_pair
  BY DEF BuildsOnly, ListSound
<1> QED
  BY <1>4, <1>5, <1>6, <1>7 DEF ListSound, Wild

\* malloc returns a free cell: neither listed nor known to another builder.
LEMMA NewPairSound ==
  ASSUME TypeOK, ListSound, NEW t \in Thread, BuildsOnly({t}), NEW id, NEW f,
         NewPair(t, id, f), UNCHANGED pair_list
  PROVE  ListSound'
<1>1. PICK a \in Addr :
        /\ ~heap[a].live
        /\ heap' = [heap EXCEPT ![a] =
                      [live |-> TRUE, id |-> id, socket |-> f]]
        /\ loc' = [loc EXCEPT ![t].new_pair = a]
  BY DEF NewPair
<1>2. /\ loc'[t].new_pair = a /\ heap'[a].live
      /\ \A b \in Addr : b # a => heap'[b] = heap[b]
  BY <1>1 DEF TypeOK, Locals
<1>3. \A j \in DOMAIN pair_list : ~Wild(j) =>
        pair_list[j] # a /\ heap'[pair_list[j]].live
  BY <1>1, <1>2 DEF ListSound, TypeOK, Wild
<1>4. \A u \in Thread \ {t} : Building(u)' =>
        /\ Building(u) /\ loc'[u].new_pair = loc[u].new_pair
        /\ loc[u].new_pair \in Addr /\ loc[u].new_pair # a
        /\ heap'[loc[u].new_pair].live
        /\ \A j \in DOMAIN pair_list : pair_list[j] # loc[u].new_pair
  BY <1>1, <1>2 DEF BuildsOnly, ListSound
<1>5. \A j \in DOMAIN pair_list : pair_list[j] # a
  BY <1>3, ConstantsAssumption DEF ConstantsAssumption, Wild
<1> QED
  BY <1>2, <1>3, <1>4, <1>5 DEF ListSound, Wild

-----------------------------------------------------------------------------
(* The list stays sound.                                                   *)

\* A step of t changes neither the label nor the locals of another thread.
LEMMA OthersStay ==
  ASSUME TypeOK, NEW t \in Thread, Step(t), NEW u \in Thread, u # t
  PROVE  pc'[u] = pc[u] /\ loc'[u] = loc[u]
<1> USE DEF TypeOK, Goto, Reply, GetPair, NewPair
<1>1. CASE Progress(t)
  BY <1>1 DEF Progress, EndRequest, NewGetPair, NewShutdown, NewClose,
     NewRemove, NewSocket, NewAdd, FreeRemove, FreeClose, AcceptGetPair,
     AcceptBlock, AcceptLock, AcceptClose, AcceptAdd, UseGetPair, UseRead,
     ListLock, ListSend, ExitLock, ExitClose
<1>2. CASE ServeClient(t) \/ AcceptReturns(t) \/ UseReturns(t) \/ JunkCrash(t)
  BY <1>2 DEF ServeClient, AcceptReturns, UseReturns, JunkCrash
<1> QED
  BY <1>1, <1>2 DEF Step

LEMMA OthersBuild ==
  ASSUME TypeOK, NEW t \in Thread, Step(t)
  PROVE  /\ BuildsOnly({t})
         /\ (Building(t)' => Building(t) /\ loc'[t].new_pair = loc[t].new_pair)
              => BuildsOnly({})
BY OthersStay DEF BuildsOnly, Building

\* The steps that start no pair.
LEMMA ReplyBuilds ==
  ASSUME TypeOK, NEW t \in Thread, NEW code, Reply(t, code)
  PROVE  ~Building(t)'
BY DEF Reply, Goto, TypeOK, Building

LEMMA GotoBuilds ==
  ASSUME TypeOK, NEW t \in Thread, NEW label, Goto(t, label)
  PROVE  /\ pc'[t] = label
         /\ label \notin {"new_add", "accept_lock", "accept_close", "accept_add"}
              => ~Building(t)'
BY DEF Goto, TypeOK, Building

LEMMA SoundStep ==
  ASSUME TypeOK, ListSound, [Next]_vars
  PROVE  ListSound'
<1>u. UNCHANGED vars => ListSound'
  BY DEF vars, ListSound, Building, Wild
<1>1. ASSUME NEW t \in Thread, Step(t),
             Building(t)' => Building(t) /\ loc'[t].new_pair = loc[t].new_pair,
             UNCHANGED <<pair_list, heap>>
      PROVE  ListSound'
  BY <1>1, OthersBuild, QuietSound
<1> USE DEF Step, Progress
<1>2. ASSUME NEW t \in Thread, ServeClient(t) PROVE ListSound'
  <2>1. PICK r \in Request : Goto(t, Entry(r.cmd))
    BY <1>2 DEF ServeClient
  <2>2. Entry(r.cmd) \in {"new_get", "free_remove", "accept_get", "use_get",
                          "list_lock", "exit_lock"}
    BY RequestType DEF Entry, AllCmds
  <2> QED
    BY <1>1, <1>2, <2>1, <2>2, GotoBuilds DEF ServeClient
<1>3. ASSUME NEW t \in Thread,
             EndRequest(t) \/ NewShutdown(t) \/ NewClose(t) \/ FreeClose(t)
               \/ AcceptBlock(t) \/ UseRead(t) \/ UseReturns(t) \/ ListLock(t)
               \/ ExitLock(t)
      PROVE  ListSound'
  <2>1. \/ Goto(t, "idle") \/ Goto(t, "new_close") \/ Goto(t, "new_remove")
        \/ Goto(t, "accept_wait") \/ Goto(t, "use_io")
        \/ Goto(t, "list_send") \/ Goto(t, "exit_close")
        \/ \E code : Reply(t, code)
    BY <1>3 DEF EndRequest, NewShutdown, NewClose, FreeClose, AcceptBlock,
                UseRead, UseReturns, ListLock, ExitLock
  <2>2. ~Building(t)'
    BY <2>1, GotoBuilds, ReplyBuilds
  <2>3. UNCHANGED <<pair_list, heap>>
    BY <1>3 DEF EndRequest, NewShutdown, NewClose, FreeClose, AcceptBlock,
                UseRead, UseReturns, ListLock, ExitLock
  <2> QED
    BY <1>1, <1>3, <2>2, <2>3
<1>4. ASSUME NEW t \in Thread,
             NewGetPair(t) \/ AcceptGetPair(t) \/ UseGetPair(t)
      PROVE  ListSound'
  <2>1. \/ Goto(t, "new_shutdown") \/ Goto(t, "accept_block")
        \/ Goto(t, "use_read") \/ Goto(t, "new_socket")
        \/ Reply(t, "NOT_FOUND")
    BY <1>4 DEF NewGetPair, AcceptGetPair, UseGetPair, GetPair
  <2>2. ~Building(t)'
    BY <2>1, GotoBuilds, ReplyBuilds
  <2>3. UNCHANGED <<pair_list, heap>>
    BY <1>4 DEF NewGetPair, AcceptGetPair, UseGetPair, GetPair
  <2> QED
    BY <1>1, <1>4, <2>2, <2>3
<1>5. ASSUME NEW t \in Thread, ListSend(t) \/ JunkCrash(t)
      PROVE  ListSound'
  <2>1. CASE UNCHANGED pc
    <3>1. ~Building(t) \/ loc'[t].new_pair = loc[t].new_pair
      BY <1>5 DEF ListSend, JunkCrash, At, Building
    <3> QED
      BY <1>1, <1>5, <2>1, <3>1 DEF ListSend, JunkCrash, Building
  <2>2. CASE Reply(t, "SUCCESS")
    BY <1>1, <1>5, <2>2, ReplyBuilds DEF ListSend, JunkCrash
  <2> QED
    BY <1>5, <2>1, <2>2 DEF ListSend, JunkCrash
<1>6. ASSUME NEW t \in Thread, AcceptLock(t) PROVE ListSound'
  <2>1. Building(t) /\ loc'[t].new_pair = loc[t].new_pair
    BY <1>6, Zenon DEF AcceptLock, At, Building, TypeOK, Locals
  <2> QED
    BY <1>1, <1>6, <2>1 DEF AcceptLock
<1>7. ASSUME NEW t \in Thread, Step(t), NEW k, RemovePair(k),
             Building(t)' => Building(t) /\ loc'[t].new_pair = loc[t].new_pair
      PROVE  ListSound'
  BY <1>7, OthersBuild, RemoveSound
<1>8. ASSUME NEW t \in Thread, NewRemove(t) \/ AcceptClose(t) PROVE ListSound'
  <2>1. Building(t)' => Building(t) /\ loc'[t].new_pair = loc[t].new_pair
    BY <1>8, GotoBuilds DEF NewRemove, AcceptClose, At, Building
  <2> QED
    BY <1>7, <1>8, <2>1 DEF NewRemove, AcceptClose
<1>9. ASSUME NEW t \in Thread, FreeRemove(t) PROVE ListSound'
  <2>1. ~Building(t)'
    BY <1>9, GotoBuilds, ReplyBuilds DEF FreeRemove
  <2> QED
    BY <1>1, <1>7, <1>9, <2>1 DEF FreeRemove
<1>10. ASSUME NEW t \in Thread, ExitClose(t) PROVE ListSound'
  <2>1. ~Building(t)'
    BY <1>10 DEF ExitClose, At, Building
  <2> QED
    BY <1>1, <1>7, <1>10, <2>1 DEF ExitClose
<1>11. ASSUME NEW t \in Thread, NewSocket(t) PROVE ListSound'
  <2>1. CASE \E code : Reply(t, code) /\ UNCHANGED heap
    BY <1>1, <1>11, <2>1, ReplyBuilds DEF NewSocket
  <2>2. CASE \E f : NewPair(t, loc[t].req.id, f)
    BY <1>11, <2>2, OthersBuild, NewPairSound DEF NewSocket
  <2> QED
    BY <1>11, <2>1, <2>2 DEF NewSocket
<1>12. ASSUME NEW t \in Thread, AcceptReturns(t) PROVE ListSound'
  <2>1. CASE \E code : Reply(t, code) /\ UNCHANGED heap
    BY <1>1, <1>12, <2>1, ReplyBuilds DEF AcceptReturns
  <2>2. CASE \E f : NewPair(t, loc[t].req.new, f)
    BY <1>12, <2>2, OthersBuild, NewPairSound DEF AcceptReturns
  <2> QED
    BY <1>12, <2>1, <2>2 DEF AcceptReturns
<1>13. ASSUME NEW t \in Thread, NewAdd(t) PROVE ListSound'
  <2>1. Building(t) /\ ~Building(t)'
    BY <1>13, ReplyBuilds DEF NewAdd, At, Building
  <2>2. BuildsOnly({})
    BY <1>13, <2>1, OthersBuild
  <2> QED
    BY <1>13, <2>1, <2>2, AddSound, AddFailsSound DEF NewAdd
<1>14. ASSUME NEW t \in Thread, AcceptAdd(t) PROVE ListSound'
  <2>1. Building(t)
    BY <1>14 DEF AcceptAdd, At, Building
  <2>2. CASE \E code : Reply(t, code)
    <3>1. ~Building(t)'
      BY <2>2, ReplyBuilds
    <3>2. BuildsOnly({})
      BY <1>14, <3>1, OthersBuild
    <3>3. CASE AddPair(loc[t].new_pair) /\ UNCHANGED heap
      BY <2>1, <3>1, <3>2, <3>3, AddSound
    <3>4. CASE AddPairFails /\ heap' = Freed(loc[t].new_pair)
      BY <2>1, <3>1, <3>2, <3>4, AddFailsSound
    <3>5. CASE AddPairFails /\ UNCHANGED heap
      BY <2>1, <3>2, <3>5, AddFailsSound
    <3> QED
      BY <1>14, <3>3, <3>4, <3>5 DEF AcceptAdd
  <2>3. CASE AddPairFails /\ UNCHANGED <<heap, pc, loc>>
    <3>1. BuildsOnly({})
      BY <1>14, <2>3, OthersBuild DEF Building
    <3> QED
      BY <2>1, <2>3, <3>1, AddFailsSound
  <2> QED
    BY <1>14, <2>2, <2>3 DEF AcceptAdd
<1>15. ASSUME NEW t \in Thread, Step(t) PROVE ListSound'
  BY <1>2, <1>3, <1>4, <1>5, <1>6, <1>8, <1>9, <1>10, <1>11, <1>12, <1>13,
     <1>14, <1>15
<1> QED
  BY <1>15, <1>u DEF Next, Stopped

-----------------------------------------------------------------------------
(* Who holds the mutex, and what the holder may rely on.                   *)

\* The labels between taking the mutex and releasing it.
Holding == {"accept_close", "list_send", "exit_close"}

MutexHolder == \A t \in Thread : pc[t] \in Holding => pair_mutex = t

\* The inductive invariant.
IInv == TypeOK /\ ListSound /\ PairRead /\ MutexHolder /\ LockedIndexValid

\* A step leaves the mutex alone, or takes it when it is free, or is the
\* holder's; a thread starts to hold the mutex by taking it.
LEMMA MutexSteps ==
  ASSUME TypeOK, MutexHolder, NEW t \in Thread, Step(t)
  PROVE  /\ \/ UNCHANGED pair_mutex
            \/ Unlocked /\ pair_mutex' = t
            \/ pair_mutex = t /\ pair_mutex' = None /\ pc'[t] \notin Holding
         /\ pc'[t] \in Holding => pair_mutex' = t
<1> USE DEF At, Unlocked, Holding, MutexHolder, TypeOK, Goto, Reply
<1>1. CASE ServeClient(t)
  <2>1. PICK r \in Request : Goto(t, Entry(r.cmd))
    BY <1>1 DEF ServeClient
  <2>2. Entry(r.cmd) \in {"new_get", "free_remove", "accept_get", "use_get",
                          "list_lock", "exit_lock"}
    BY RequestType DEF Entry, AllCmds
  <2> QED
    BY <1>1, <2>1, <2>2 DEF ServeClient
<1>2. CASE \/ EndRequest(t) \/ NewShutdown(t) \/ NewClose(t) \/ NewRemove(t)
           \/ NewSocket(t) \/ NewAdd(t) \/ FreeRemove(t) \/ FreeClose(t)
           \/ AcceptBlock(t) \/ AcceptReturns(t) \/ AcceptAdd(t)
           \/ UseRead(t) \/ UseReturns(t)
  <2>1. UNCHANGED pair_mutex
    BY <1>2 DEF EndRequest, NewShutdown, NewClose, NewRemove, NewSocket,
       NewAdd, FreeRemove, FreeClose, AcceptBlock, AcceptReturns, AcceptAdd,
       UseRead, UseReturns
  <2>2. pc'[t] \notin Holding
    BY <1>2 DEF EndRequest, NewShutdown, NewClose, NewRemove, NewSocket,
       NewAdd, FreeRemove, FreeClose, AcceptBlock, AcceptReturns, AcceptAdd,
       UseRead, UseReturns
  <2> QED
    BY <2>1, <2>2
<1>3. CASE NewGetPair(t) \/ AcceptGetPair(t) \/ UseGetPair(t)
  BY <1>3 DEF NewGetPair, AcceptGetPair, UseGetPair, GetPair
<1>4. CASE \/ AcceptLock(t) \/ AcceptClose(t) \/ ListLock(t) \/ ListSend(t)
           \/ ExitLock(t) \/ ExitClose(t) \/ JunkCrash(t)
  BY <1>4 DEF AcceptLock, AcceptClose, ListLock, ListSend, ExitLock,
     ExitClose, JunkCrash
<1> QED
  BY <1>1, <1>2, <1>3, <1>4 DEF Step, Progress

LEMMA MutexHolderStep ==
  ASSUME TypeOK, MutexHolder, [Next]_vars
  PROVE  MutexHolder'
<1>1. CASE UNCHANGED vars
  BY <1>1 DEF vars, MutexHolder
<1>2. ASSUME NEW t \in Thread, Step(t) PROVE MutexHolder'
  <2>1. ASSUME NEW u \in Thread, pc'[u] \in Holding PROVE pair_mutex' = u
    <3>1. CASE u = t
      BY <1>2, <2>1, <3>1, MutexSteps
    <3>2. CASE u # t
      <4>1. pc[u] \in Holding /\ pair_mutex = u
        BY <1>2, <2>1, <3>2, OthersStay DEF MutexHolder
      <4>2. u # None
        BY ConstantsAssumption DEF ConstantsAssumption
      <4> QED
        BY <1>2, <3>2, <4>1, <4>2, MutexSteps DEF Unlocked
    <3> QED
      BY <3>1, <3>2
  <2> QED
    BY <2>1 DEF MutexHolder
<1> QED
  BY <1>1, <1>2 DEF Next, Stopped

\* The labels at which a thread reads a pair through its pointer, and the
\* steps that lead there: the lookups.
Reading == {"new_shutdown", "accept_block", "use_read", "accept_close"}

Lookup(t) ==
  \/ NewGetPair(t) \/ AcceptGetPair(t) \/ UseGetPair(t) \/ AcceptLock(t)

LEMMA ReadingSteps ==
  ASSUME TypeOK, NEW t \in Thread, Step(t), pc'[t] \in Reading
  PROVE  \/ Lookup(t)
         \/ JunkCrash(t) /\ UNCHANGED <<pair_mutex, pair_list, heap, pc, loc>>
<1> USE DEF At, Reading, TypeOK, Goto, Reply, Lookup
<1>1. CASE ServeClient(t)
  <2>1. PICK r \in Request : Goto(t, Entry(r.cmd))
    BY <1>1 DEF ServeClient
  <2>2. Entry(r.cmd) \in {"new_get", "free_remove", "accept_get", "use_get",
                          "list_lock", "exit_lock"}
    BY RequestType DEF Entry, AllCmds
  <2> QED
    BY <1>1, <2>1, <2>2
<1>2. CASE \/ EndRequest(t) \/ NewShutdown(t) \/ NewClose(t) \/ NewRemove(t)
           \/ NewSocket(t) \/ NewAdd(t) \/ FreeRemove(t) \/ FreeClose(t)
           \/ AcceptBlock(t) \/ AcceptReturns(t) \/ AcceptAdd(t)
           \/ UseRead(t) \/ UseReturns(t)
  BY <1>2 DEF EndRequest, NewShutdown, NewClose, NewRemove, NewSocket,
     NewAdd, FreeRemove, FreeClose, AcceptBlock, AcceptReturns, AcceptAdd,
     UseRead, UseReturns
<1>3. CASE \/ AcceptClose(t) \/ ListLock(t) \/ ListSend(t)
           \/ ExitLock(t) \/ ExitClose(t) \/ JunkCrash(t)
  BY <1>3 DEF AcceptClose, ListLock, ListSend, ExitLock, ExitClose, JunkCrash
<1> QED
  BY <1>1, <1>2, <1>3 DEF Step, Progress

\* What a lookup that finds a pair leaves in the thread's locals.
LEMMA LookupFinds ==
  ASSUME TypeOK, NEW t \in Thread, Lookup(t), pc'[t] \in Reading
  PROVE  /\ UNCHANGED <<pair_list, heap>>
         /\ \E k \in DOMAIN pair_list :
              /\ loc'[t].pair = pair_list[k] /\ loc'[t].index = k
              /\ pair_list[k] \in Addr
              /\ pc'[t] = "accept_close" =>
                   /\ loc'[t].req.new = loc[t].req.new
                   /\ heap[pair_list[k]].id = loc[t].req.new
                   /\ pair_mutex' = t
<1> USE DEF At, Reading, Goto, Reply
<1>1. CASE NewGetPair(t) \/ AcceptGetPair(t) \/ UseGetPair(t)
  <2>1. PICK k \in DOMAIN pair_list :
          /\ Finds(loc[t].req.id, k)
          /\ loc' = [loc EXCEPT ![t].pair = pair_list[k], ![t].index = k]
          /\ pc'[t] # "accept_close"
    BY <1>1 DEF NewGetPair, AcceptGetPair, UseGetPair, GetPair, TypeOK
  <2>2. pair_list[k] \in Addr
    BY <2>1, FindsAddr
  <2>3. loc'[t].pair = pair_list[k] /\ loc'[t].index = k
    BY <2>1 DEF TypeOK, Locals
  <2> QED
    BY <1>1, <2>1, <2>2, <2>3
       DEF NewGetPair, AcceptGetPair, UseGetPair, GetPair
<1>2. CASE AcceptLock(t)
  <2>1. PICK k \in DOMAIN pair_list :
          /\ Finds(loc[t].req.new, k)
          /\ loc' = [loc EXCEPT ![t].pair = pair_list[k], ![t].index = k,
                                ![t].overwritten = TRUE]
          /\ pair_mutex' = t
    BY <1>2 DEF AcceptLock, TypeOK
  <2>2. pair_list[k] \in Addr /\ heap[pair_list[k]].id = loc[t].req.new
    BY <2>1, FindsAddr
  <2>3. /\ loc'[t].pair = pair_list[k] /\ loc'[t].index = k
        /\ loc'[t].req.new = loc[t].req.new
    BY <2>1 DEF TypeOK, Locals
  <2> QED
    BY <1>2, <2>1, <2>2, <2>3 DEF AcceptLock
<1> QED
  BY <1>1, <1>2 DEF Lookup

LEMMA PairReadStep ==
  ASSUME TypeOK, PairRead, [Next]_vars
  PROVE  PairRead'
<1>1. CASE UNCHANGED vars
  BY <1>1 DEF vars, PairRead
<1>2. ASSUME NEW t \in Thread, Step(t),
             NEW u \in Thread, pc'[u] \in Reading
      PROVE  loc'[u].pair \in Addr
  <2>1. CASE u # t
    BY <1>2, <2>1, OthersStay DEF PairRead, Reading
  <2>2. CASE u = t
    <3>1. CASE Lookup(t)
      BY <1>2, <2>2, <3>1, LookupFinds
    <3>2. CASE UNCHANGED <<pc, loc>>
      BY <1>2, <2>2, <3>2 DEF PairRead, Reading
    <3> QED
      BY <1>2, <2>2, <3>1, <3>2, ReadingSteps
  <2> QED
    BY <2>1, <2>2
<1> QED
  BY <1>1, <1>2 DEF Next, Stopped, PairRead, Reading

\* A thread that changes the list found the mutex free or holds it; a pair
\* that is listed keeps its name as long as the list does not change.
LEMMA ListSteps ==
  ASSUME TypeOK, ListSound, MutexHolder, NEW t \in Thread, Step(t)
  PROVE  \/ Unlocked
         \/ pair_mutex = t /\ pc[t] \in {"accept_close", "exit_close"}
         \/ /\ UNCHANGED pair_list
            /\ \A a \in Addr : heap[a].live => heap'[a].id = heap[a].id
<1> USE DEF TypeOK
<1>1. CASE \/ ServeClient(t) \/ EndRequest(t) \/ NewShutdown(t) \/ NewClose(t)
           \/ FreeClose(t) \/ AcceptBlock(t) \/ UseRead(t) \/ UseReturns(t)
           \/ ListSend(t) \/ JunkCrash(t)
  BY <1>1 DEF ServeClient, EndRequest, NewShutdown, NewClose, FreeClose,
     AcceptBlock, UseRead, UseReturns, ListSend, JunkCrash
<1>2. CASE \/ NewGetPair(t) \/ AcceptGetPair(t) \/ UseGetPair(t)
           \/ NewRemove(t) \/ NewAdd(t) \/ FreeRemove(t) \/ AcceptLock(t)
           \/ AcceptAdd(t) \/ ListLock(t) \/ ExitLock(t)
  BY <1>2 DEF NewGetPair, AcceptGetPair, UseGetPair, GetPair, NewRemove,
     NewAdd, FreeRemove, AcceptLock, AcceptAdd, ListLock, ExitLock
<1>3. CASE AcceptClose(t) \/ ExitClose(t)
  BY <1>3 DEF AcceptClose, ExitClose, At, MutexHolder, Holding
<1>4. CASE NewSocket(t) \/ AcceptReturns(t)
  <2>1. UNCHANGED pair_list
    BY <1>4 DEF NewSocket, AcceptReturns
  <2>2. \/ UNCHANGED heap
        \/ \E a \in Addr : ~heap[a].live /\ \E p : heap' = [heap EXCEPT ![a] = p]
    BY <1>4 DEF NewSocket, AcceptReturns, NewPair
  <2> QED
    BY <2>1, <2>2
<1> QED
  BY <1>1, <1>2, <1>3, <1>4 DEF Step, Progress

LEMMA LockedIndexStep ==
  ASSUME IInv, [Next]_vars
  PROVE  LockedIndexValid'
<1> USE DEF IInv
<1>1. CASE UNCHANGED vars
  BY <1>1 DEF vars, LockedIndexValid
<1>2. ASSUME NEW t \in Thread, Step(t),
             NEW u \in Thread, pc'[u] = "accept_close"
      PROVE  /\ pair_mutex' = u
             /\ loc'[u].index \in DOMAIN pair_list'
             /\ pair_list'[loc'[u].index] = loc'[u].pair
             /\ loc'[u].pair \in Addr =>
                  heap'[loc'[u].pair].id = loc'[u].req.new
  <2>0. u # None
    BY ConstantsAssumption DEF ConstantsAssumption
  <2>1. pair_mutex' = u
    BY <1>2, MutexHolderStep DEF MutexHolder, Holding, Next
  <2>2. CASE u # t
    <3>1. /\ pc[u] = "accept_close" /\ loc'[u] = loc[u]
          /\ pair_mutex = u
          /\ loc[u].index \in DOMAIN pair_list
          /\ pair_list[loc[u].index] = loc[u].pair
          /\ loc[u].pair \in Addr => heap[loc[u].pair].id = loc[u].req.new
      BY <1>2, <2>2, OthersStay DEF LockedIndexValid
    <3>2. /\ UNCHANGED pair_list
          /\ \A a \in Addr : heap[a].live => heap'[a].id = heap[a].id
      BY <1>2, <2>0, <2>2, <3>1, ListSteps DEF Unlocked
    <3>3. loc[u].pair \in Addr => heap[loc[u].pair].live
      BY <3>1, ConstantsAssumption DEF ListSound, Wild, ConstantsAssumption
    <3> QED
      BY <2>1, <3>1, <3>2, <3>3
  <2>3. CASE u = t
    <3>1. CASE Lookup(t)
      BY <1>2, <2>1, <2>3, <3>1, LookupFinds DEF Reading
    <3>2. CASE UNCHANGED <<pair_mutex, pair_list, heap, pc, loc>>
      BY <1>2, <2>3, <3>2 DEF LockedIndexValid
    <3> QED
      BY <1>2, <2>3, <3>1, <3>2, ReadingSteps DEF Reading
  <2> QED
    BY <2>2, <2>3
<1> QED
  BY <1>1, <1>2 DEF Next, Stopped, LockedIndexValid

-----------------------------------------------------------------------------
(* The theorems.                                                           *)

LEMMA InitIInv == Init => IInv
<1> SUFFICES ASSUME Init PROVE IInv
  OBVIOUS
<1>1. TypeOK
  <2>1. heap \in [Addr -> IdSocketPair]
    <3>1. [live |-> FALSE, id |-> None, socket |-> BadFd] \in IdSocketPair
      BY DEF IdSocketPair
    <3> QED
      BY <3>1 DEF Init
  <2>2. pair_list \in Seq(Addr \cup {Junk})
    BY DEF Init
  <2>3. pc \in [Thread -> PC] /\ loc \in [Thread -> Locals]
    BY LocalsFacts DEF Init, PC
  <2> QED
    BY <2>1, <2>2, <2>3 DEF Init, TypeOK
<1>2. ListSound /\ PairRead /\ MutexHolder /\ LockedIndexValid
  BY DEF Init, ListSound, PairRead, MutexHolder, LockedIndexValid, Building,
     Holding
<1> QED
  BY <1>1, <1>2 DEF IInv

LEMMA NextIInv == IInv /\ [Next]_vars => IInv'
BY TypeStep, SoundStep, PairReadStep, MutexHolderStep, LockedIndexStep
   DEF IInv

LEMMA SpecIInv == Spec => []IInv
BY InitIInv, NextIInv, PTL DEF Spec

\* Every variable keeps its type: in particular no thread ever reads a pair
\* through a null pointer outside accept's failure path.
THEOREM TypeCorrect == Spec => []TypeOK
BY SpecIInv, PTL DEF IInv

\* Memory safety of the pair list (server_add_pair, server_remove_pair), for
\* any number of server threads and whatever allocations fail.
THEOREM ListIsSound == Spec => []ListSound
BY SpecIInv, PTL DEF IInv

\* accept removes the pair it looked up (server_cmd_accept.c).
THEOREM LockedIndexIsValid == Spec => []LockedIndexValid
BY SpecIInv, PTL DEF IInv

\* list shows the list of one moment (server_cmd_list.c).
THEOREM ListingIsStable == Spec => ListingStable
<1>1. IInv /\ [Next]_vars =>
        [\A t \in Thread :
           pc[t] = "list_send" /\ pc'[t] = "list_send" => UNCHANGED pair_list]_vars
  <2> SUFFICES ASSUME IInv, NEW t \in Thread, Step(t), NEW u \in Thread,
                      pc[u] = "list_send", pc'[u] = "list_send"
               PROVE  UNCHANGED pair_list
    BY DEF Next, Stopped
  <2>1. pair_mutex = u /\ u # None
    BY ConstantsAssumption DEF IInv, MutexHolder, Holding, ConstantsAssumption
  <2>2. ~(pair_mutex = t /\ pc[t] \in {"accept_close", "exit_close"})
    BY <2>1
  <2> QED
    BY <2>1, <2>2, ListSteps DEF IInv, Unlocked
<1> QED
  BY <1>1, SpecIInv, PTL DEF Spec, ListingStable

-----------------------------------------------------------------------------
(***************************************************************************)
(* The registry of a server with one thread (-t:1), for any names, cells   *)
(* and descriptors: its sockets are those of its list, its commands act on *)
(* the sockets they were asked about, and it implements SocketNames.       *)
(***************************************************************************)
OneThread == \E t : Thread = {t}

-----------------------------------------------------------------------------
(* The list as a set of pairs.                                             *)

Listed  == {a \in Addr : \E k \in DOMAIN pair_list : pair_list[k] = a}
HasJunk == \E k \in DOMAIN pair_list : Wild(k)

\* The pair's socket is open under the pair's name; it is closed.
Owned(a) == heap[a].socket \in Fd /\ fds[heap[a].socket] = heap[a].id
Shut(a)  == heap[a].socket \in Fd /\ fds[heap[a].socket] = None

-----------------------------------------------------------------------------
(***************************************************************************)
(* The invariant of the thread that is alone.  What it looked up is still  *)
(* listed and still has its name, what it did not find is still missing,   *)
(* and every open socket is of a listed pair, of the pair being built or   *)
(* about to be closed.                                                     *)
(***************************************************************************)
Serves(t, cmd) == loc[t].req \in Request /\ loc[t].req.cmd = cmd

Control(t) ==
  /\ pc[t] = "idle" => loc[t].req = NoRequest
  /\ pc[t] \in {"new_get", "new_shutdown", "new_close", "new_remove",
               "new_socket", "new_add"} => Serves(t, "new")
  /\ pc[t] \in {"free_remove", "free_close"} => Serves(t, "free")
  /\ pc[t] \in {"accept_get", "accept_block", "accept_wait", "accept_lock",
               "accept_close", "accept_add"} => Serves(t, "accept")
  /\ pc[t] \in {"use_get", "use_read", "use_io"} => Serves(t, "use")
  /\ pc[t] \in {"list_lock", "list_send"} => Serves(t, "list")
  /\ pc[t] \in {"exit_lock", "exit_close"} => Serves(t, "exit")
  /\ pc[t] = "done" <=> loc[t].code # "none"
  /\ loc[t].overwritten =>
       pc[t] \in {"new_socket", "new_add", "accept_close", "accept_add"}
  /\ pc[t] = "accept_close" => loc[t].overwritten

Ids ==
  \A a \in Listed :
    /\ heap[a].id \in Id
    /\ \A b \in Listed : heap[a].id = heap[b].id => a = b

HasName(id) == \E a \in Listed : heap[a].id = id

Replacing == {"new_shutdown", "new_close", "new_remove"}

Lookups(t) ==
  /\ pc[t] \in Replacing =>
       loc[t].index \in DOMAIN pair_list /\ pair_list[loc[t].index] = loc[t].pair
  /\ pc[t] \in Replacing \cup {"use_read"} =>
       loc[t].pair \in Listed /\ heap[loc[t].pair].id = loc[t].req.id
  /\ pc[t] = "use_io" => HasName(loc[t].req.id)
  /\ pc[t] \in {"new_socket", "new_add"} => ~HasName(loc[t].req.id)
  /\ pc[t] = "accept_add" => ~HasName(loc[t].req.new)

Target(t) == IF loc[t].req.cmd = "accept" THEN loc[t].req.new ELSE loc[t].req.id

Sockets(t) ==
  /\ \A a \in Listed :
       IF pc[t] = "new_remove" /\ a = loc[t].pair THEN Shut(a) ELSE Owned(a)
  /\ pc[t] = "new_close" => loc[t].socket = heap[loc[t].pair].socket
  /\ pc[t] = "free_close" => \A a \in Listed : heap[a].socket # loc[t].socket
  /\ Building(t) =>
       /\ heap[loc[t].new_pair].id = Target(t)
       /\ Owned(loc[t].new_pair)
       /\ \A a \in Listed : heap[a].socket # heap[loc[t].new_pair].socket
  /\ pc[t] = "accept_add" /\ loc[t].overwritten =>
       loc[t].pair \in Addr /\ Shut(loc[t].pair)

NoLeak(t) ==
  HasJunk \/
    \A f \in Fd : fds[f] # None =>
      \/ \E a \in Listed : heap[a].socket = f
      \/ Building(t) /\ heap[loc[t].new_pair].socket = f
      \/ pc[t] = "free_close" /\ loc[t].socket = f

Alone(t) == Control(t) /\ Ids /\ Lookups(t) /\ Sockets(t) /\ NoLeak(t)

AllAlone == \A t \in Thread : Alone(t)

-----------------------------------------------------------------------------
(* What the list operations do to the set.                                 *)

LEMMA ListedPairs ==
  ASSUME TypeOK
  PROVE  /\ Listed \subseteq Addr
         /\ \A k \in DOMAIN pair_list : Wild(k) \/ pair_list[k] \in Listed
         /\ \A a \in Listed : \E k \in DOMAIN pair_list :
              pair_list[k] = a /\ ~Wild(k)
<1>1. \A k \in DOMAIN pair_list : pair_list[k] \in Addr \cup {Junk}
  BY DEF TypeOK
<1> QED
  BY <1>1, ConstantsAssumption DEF Listed, Wild, ConstantsAssumption

LEMMA FindsListed ==
  ASSUME TypeOK, NEW id, NEW k \in DOMAIN pair_list, Finds(id, k)
  PROVE  pair_list[k] \in Listed /\ heap[pair_list[k]].id = id
BY ListedPairs DEF Finds, Named

LEMMA MissesListed ==
  ASSUME TypeOK, NEW id, Misses(id)
  PROVE  ~HasName(id)
BY ListedPairs DEF Misses, Named, HasName

LEMMA ListedLive ==
  ASSUME TypeOK, ListSound
  PROVE  \A a \in Listed : heap[a].live
BY ListedPairs DEF ListSound

\* One pair less, for there is no second slot with it.
LEMMA RemoveListed ==
  ASSUME TypeOK, ListSound, NEW k \in DOMAIN pair_list, ~Wild(k), RemovePair(k)
  PROVE  /\ Listed' = Listed \ {pair_list[k]}
         /\ HasJunk' <=> HasJunk
         /\ \A a \in Addr : /\ heap'[a].id = heap[a].id
                            /\ heap'[a].socket = heap[a].socket
<1> DEFINE n == Len(pair_list)
           Old(j) == IF j < k THEN j ELSE j + 1
           New(j) == IF j < k THEN j ELSE j - 1
<1>1. pair_list \in Seq(Addr \cup {Junk}) /\ n \in Nat /\ k \in 1..n
  BY DEF TypeOK
<1>2. /\ DOMAIN pair_list' = 1..(n - 1)
      /\ \A j \in 1..(n - 1) : pair_list'[j] = pair_list[Old(j)]
  <2>1. pair_list' = RemoveAt(pair_list, k)
    BY DEF RemovePair
  <2>2. /\ RemoveAt(pair_list, k) \in Seq(Addr \cup {Junk})
        /\ Len(RemoveAt(pair_list, k)) = n - 1
        /\ \A j \in 1..(n - 1) :
             RemoveAt(pair_list, k)[j]
               = IF j < k THEN pair_list[j] ELSE pair_list[j + 1]
    BY <1>1, RemoveAtProperties
  <2> QED
    BY <2>1, <2>2
<1>3. \A j \in 1..(n - 1) : Old(j) \in DOMAIN pair_list /\ Old(j) # k
  BY <1>1
<1>4. \A i \in DOMAIN pair_list : i # k => New(i) \in 1..(n - 1) /\ Old(New(i)) = i
  BY <1>1
<1> HIDE DEF n, Old, New
<1>5. \A i \in DOMAIN pair_list : i # k =>
        \E j \in DOMAIN pair_list' : pair_list'[j] = pair_list[i]
  BY <1>2, <1>4
<1>6. \A j \in DOMAIN pair_list' : \E i \in DOMAIN pair_list :
        i # k /\ pair_list'[j] = pair_list[i]
  BY <1>2, <1>3
<1>7. \A i \in DOMAIN pair_list : pair_list[i] = pair_list[k] => i = k
  BY DEF ListSound, Wild
<1>8. Listed' = Listed \ {pair_list[k]}
  BY <1>5, <1>6, <1>7 DEF Listed
<1>9. HasJunk' <=> HasJunk
  BY <1>5, <1>6 DEF HasJunk, Wild
<1>10. \A a \in Addr : heap'[a].id = heap[a].id /\ heap'[a].socket = heap[a].socket
  BY DEF RemovePair, TypeOK, IdSocketPair
<1> QED
  BY <1>8, <1>9, <1>10

LEMMA AddListed ==
  ASSUME TypeOK, NEW a \in Addr, AddPair(a)
  PROVE  Listed' = Listed \cup {a} /\ (HasJunk' <=> HasJunk)
<1>1. a # Junk
  BY ConstantsAssumption DEF ConstantsAssumption
<1>2. /\ DOMAIN pair_list' = DOMAIN pair_list \cup {Len(pair_list) + 1}
      /\ pair_list'[Len(pair_list) + 1] = a
      /\ \A j \in DOMAIN pair_list : pair_list'[j] = pair_list[j]
  BY AppendFacts DEF AddPair
<1>3. Listed' = Listed \cup {a}
  BY <1>2 DEF Listed
<1> QED
  BY <1>1, <1>2, <1>3 DEF HasJunk, Wild

LEMMA AddFailsListed ==
  ASSUME TypeOK, AddPairFails
  PROVE  Listed' = Listed /\ HasJunk'
<1>1. Junk \notin Addr
  BY ConstantsAssumption DEF ConstantsAssumption
<1>2. /\ DOMAIN pair_list' = DOMAIN pair_list \cup {Len(pair_list) + 1}
      /\ pair_list'[Len(pair_list) + 1] = Junk
      /\ \A j \in DOMAIN pair_list : pair_list'[j] = pair_list[j]
  BY AppendFacts DEF AddPairFails
<1>3. Listed' = Listed
  BY <1>1, <1>2 DEF Listed
<1> QED
  BY <1>2, <1>3 DEF HasJunk, Wild

LEMMA SameListed ==
  UNCHANGED pair_list => Listed' = Listed /\ (HasJunk' <=> HasJunk)
BY DEF Listed, HasJunk, Wild

-----------------------------------------------------------------------------
(* Steps that leave list, memory and descriptors as they are.              *)

Frame == UNCHANGED <<pair_list, heap, fds>>

LEMMA FrameFacts ==
  ASSUME Frame
  PROVE  /\ Listed' = Listed /\ (HasJunk' <=> HasJunk)
         /\ Ids => Ids'
         /\ \A a : (Owned(a)' <=> Owned(a)) /\ (Shut(a)' <=> Shut(a))
         /\ \A id : HasName(id)' <=> HasName(id)
BY SameListed DEF Frame, Ids, Owned, Shut, HasName

LEMMA ReplyLeaves ==
  ASSUME TypeOK, NEW t \in Thread, NEW code \in Codes, Reply(t, code)
  PROVE  /\ pc'[t] = "done"
         /\ loc'[t].req = loc[t].req /\ loc'[t].code = code
         /\ loc'[t].code # "none" /\ loc'[t].overwritten = FALSE
BY DEF Reply, Goto, TypeOK, NoLocals, Codes

\* With its answer sent, a thread promises nothing but that the registry is
\* in order.
LEMMA DoneAlone ==
  ASSUME TypeOK, NEW t \in Thread, NEW code \in Codes, Reply(t, code),
         Ids', \A a \in Listed' : Owned(a)',
         HasJunk' \/ \A f \in Fd : fds'[f] # None =>
                       \E a \in Listed' : heap'[a].socket = f
  PROVE  Alone(t)'
<1>1. /\ pc'[t] = "done"
      /\ loc'[t].code # "none" /\ loc'[t].overwritten = FALSE
  BY ReplyLeaves
<1> QED
  BY <1>1 DEF Alone, Control, Lookups, Sockets, NoLeak, Building, Replacing

\* The thread fails before it built anything, or has nothing to undo.
LEMMA ReplyAlone ==
  ASSUME TypeOK, NEW t \in Thread, Alone(t), NEW code \in Codes, Reply(t, code),
         Frame, ~Building(t), pc[t] \notin {"new_remove", "free_close"}
  PROVE  Alone(t)'
<1>1. Ids' /\ (\A a \in Listed' : Owned(a)')
  BY FrameFacts DEF Alone, Sockets
<1>2. HasJunk' \/ \A f \in Fd : fds'[f] # None =>
                    \E a \in Listed' : heap'[a].socket = f
  BY FrameFacts DEF Alone, NoLeak, Frame
<1> QED
  BY <1>1, <1>2, DoneAlone

\* The labels at which a thread holds no promise and makes none.
Plain == {"idle", "new_get", "free_remove", "accept_get", "accept_block",
          "accept_wait", "use_get", "list_lock", "list_send", "exit_lock",
          "exit_close"}

LEMMA PlainAlone ==
  ASSUME NEW t \in Thread, Alone(t), Frame, pc'[t] \in Plain, Control(t)',
         pc[t] \in Plain \cup {"done"}
  PROVE  Alone(t)'
BY FrameFacts
   DEF Alone, Control, Lookups, Sockets, NoLeak, Building, Replacing, Plain, Frame

-----------------------------------------------------------------------------
(* The invariant, one action at a time.                                    *)

LEMMA ServeClientAlone ==
  ASSUME TypeOK, NEW t \in Thread, Alone(t), ServeClient(t)
  PROVE  Alone(t)'
<1>1. PICK r \in Request : /\ loc' = [loc EXCEPT ![t].req = r]
                           /\ Goto(t, Entry(r.cmd))
  BY DEF ServeClient
<1>2. /\ pc'[t] = Entry(r.cmd) /\ loc'[t].req = r
      /\ loc'[t].code = loc[t].code /\ loc'[t].overwritten = loc[t].overwritten
  BY <1>1 DEF Goto, TypeOK, Locals
<1>3. r.cmd \in AllCmds
  BY RequestType
<1>4. Entry(r.cmd) \in Plain /\ Control(t)'
  BY <1>2, <1>3 DEF ServeClient, At, Alone, Control, Serves, Entry, AllCmds, Plain
<1> QED
  BY <1>2, <1>4, PlainAlone DEF ServeClient, At, Frame, Plain

LEMMA EndRequestAlone ==
  ASSUME TypeOK, NEW t \in Thread, Alone(t), EndRequest(t)
  PROVE  Alone(t)'
<1>1. pc'[t] = "idle" /\ loc'[t] = NoLocals
  BY DEF EndRequest, Goto, TypeOK
<1>2. pc'[t] \in Plain /\ Control(t)'
  BY <1>1 DEF Control, NoLocals, Plain
<1> QED
  BY <1>2, PlainAlone DEF EndRequest, At, Frame

\* A lookup that found the name.
LEMMA LookedUp ==
  ASSUME TypeOK, NEW t \in Thread, NEW id, NEW k \in DOMAIN pair_list,
         Finds(id, k),
         loc' = [loc EXCEPT ![t].pair = pair_list[k], ![t].index = k],
         UNCHANGED <<pair_list, heap>>
  PROVE  /\ loc'[t].pair \in Listed /\ heap[loc'[t].pair].id = id
         /\ loc'[t].index \in DOMAIN pair_list
         /\ pair_list[loc'[t].index] = loc'[t].pair
         /\ loc'[t].req = loc[t].req /\ loc'[t].code = loc[t].code
         /\ loc'[t].overwritten = loc[t].overwritten
<1>1. /\ loc'[t].pair = pair_list[k] /\ loc'[t].index = k
      /\ loc'[t].req = loc[t].req /\ loc'[t].code = loc[t].code
      /\ loc'[t].overwritten = loc[t].overwritten
  BY DEF TypeOK, Locals
<1> QED
  BY <1>1, FindsListed

LEMMA NewGetPairAlone ==
  ASSUME TypeOK, NEW t \in Thread, Alone(t), NewGetPair(t)
  PROVE  Alone(t)'
<1>0. pc[t] = "new_get" /\ Frame
  BY DEF NewGetPair, GetPair, At, Frame
<1>1. CASE \E k \in DOMAIN pair_list :
             /\ Finds(loc[t].req.id, k)
             /\ loc' = [loc EXCEPT ![t].pair = pair_list[k], ![t].index = k]
             /\ Goto(t, "new_shutdown")
  <2>1. PICK k \in DOMAIN pair_list :
             /\ Finds(loc[t].req.id, k)
             /\ loc' = [loc EXCEPT ![t].pair = pair_list[k], ![t].index = k]
             /\ Goto(t, "new_shutdown")
    BY <1>1
  <2>2. pc'[t] = "new_shutdown"
    BY <2>1 DEF Goto, TypeOK
  <2>3. /\ loc'[t].pair \in Listed /\ heap[loc'[t].pair].id = loc[t].req.id
        /\ loc'[t].index \in DOMAIN pair_list
        /\ pair_list[loc'[t].index] = loc'[t].pair
        /\ loc'[t].req = loc[t].req /\ loc'[t].code = loc[t].code
        /\ loc'[t].overwritten = loc[t].overwritten
    BY <1>0, <2>1, LookedUp DEF Frame
  <2> QED
    BY <1>0, <2>2, <2>3, FrameFacts
       DEF Alone, Control, Serves, Lookups, Sockets, NoLeak, Building, Replacing,
           Frame
<1>2. CASE Misses(loc[t].req.id) /\ Goto(t, "new_socket") /\ UNCHANGED loc
  <2>1. pc'[t] = "new_socket"
    BY <1>2 DEF Goto, TypeOK
  <2>2. ~HasName(loc[t].req.id)
    BY <1>2, MissesListed
  <2> QED
    BY <1>0, <1>2, <2>1, <2>2, FrameFacts
       DEF Alone, Control, Serves, Lookups, Sockets, NoLeak, Building, Replacing,
           Frame
<1> QED
  BY <1>1, <1>2 DEF NewGetPair, GetPair

LEMMA NewShutdownAlone ==
  ASSUME TypeOK, ListSound, NEW t \in Thread, Alone(t), NewShutdown(t)
  PROVE  Alone(t)'
<1>0. pc[t] = "new_shutdown" /\ Frame
  BY DEF NewShutdown, At, Frame
<1>1. loc[t].pair \in Listed
  BY <1>0 DEF Alone, Lookups, Replacing
<1>2. SocketsOf(loc[t].pair) = {heap[loc[t].pair].socket}
  BY <1>1, ListedLive DEF SocketsOf
<1>3. /\ pc'[t] = "new_close"
      /\ loc'[t].socket = heap[loc[t].pair].socket
      /\ loc'[t].pair = loc[t].pair /\ loc'[t].index = loc[t].index
      /\ loc'[t].req = loc[t].req /\ loc'[t].code = loc[t].code
      /\ loc'[t].overwritten = loc[t].overwritten
  BY <1>2 DEF NewShutdown, Goto, TypeOK, Locals
<1> QED
  BY <1>0, <1>3, FrameFacts
     DEF Alone, Control, Serves, Lookups, Sockets, NoLeak, Building, Replacing,
         Frame

\* Closing a pair's socket disturbs no pair of another name.
LEMMA CloseKeeps ==
  ASSUME TypeOK, NEW a \in Addr, Owned(a), fds' = Closed(heap[a].socket)
  PROVE  /\ \A b \in Addr : Owned(b) /\ heap[b].id # heap[a].id =>
              fds'[heap[b].socket] = heap[b].id
         /\ fds'[heap[a].socket] = None
         /\ \A f \in Fd : fds'[f] # None => fds[f] # None /\ f # heap[a].socket
BY DEF Owned, Closed

LEMMA NewCloseAlone ==
  ASSUME TypeOK, NEW t \in Thread, Alone(t), NewClose(t)
  PROVE  Alone(t)'
<1>0. /\ pc[t] = "new_close" /\ pc'[t] = "new_remove"
      /\ UNCHANGED <<pair_list, heap, loc>>
  BY DEF NewClose, At, Goto, TypeOK
<1>1. PICK a \in Addr : /\ a = loc[t].pair
                         /\ a \in Listed /\ Owned(a)
                         /\ fds' = Closed(heap[a].socket)
  BY <1>0, ListedPairs DEF Alone, Lookups, Sockets, Replacing, NewClose
<1>2. /\ \A b \in Addr : Owned(b) /\ heap[b].id # heap[a].id =>
              fds'[heap[b].socket] = heap[b].id
      /\ fds'[heap[a].socket] = None
      /\ \A f \in Fd : fds'[f] # None => fds[f] # None /\ f # heap[a].socket
  BY <1>1, CloseKeeps
<1>3. Listed' = Listed /\ (HasJunk' <=> HasJunk)
  BY <1>0, SameListed
<1>4. Shut(a)' /\ \A b \in Listed : b # a => Owned(b)'
  BY <1>0, <1>1, <1>2, ListedPairs DEF Alone, Ids, Sockets, Owned, Shut
<1>5. Control(t)' /\ Ids' /\ Lookups(t)'
  BY <1>0, <1>3
     DEF Alone, Control, Serves, Ids, Lookups, Replacing, HasName
<1>6. Sockets(t)'
  BY <1>0, <1>1, <1>3, <1>4 DEF Sockets, Building
<1>7. NoLeak(t)'
  BY <1>0, <1>2, <1>3 DEF Alone, NoLeak, Building
<1> QED
  BY <1>5, <1>6, <1>7 DEF Alone

\* Without the pair a, the rest of the list is as it was.
LEMMA RemovedKeeps ==
  ASSUME TypeOK, ListSound, Ids, NEW k \in DOMAIN pair_list, ~Wild(k),
         RemovePair(k), NEW a, a = pair_list[k]
  PROVE  /\ a \in Listed /\ Listed' = Listed \ {a} /\ Ids'
         /\ \A b \in Listed' : b \in Addr /\ b # a /\ heap[b].id # heap[a].id
         /\ \A b \in Addr :
              heap'[b].id = heap[b].id /\ heap'[b].socket = heap[b].socket
         /\ \A id : HasName(id)' <=> HasName(id) /\ id # heap[a].id
         /\ HasJunk' <=> HasJunk
<1>1. /\ a \in Listed /\ Listed \subseteq Addr /\ Listed' = Listed \ {a}
      /\ HasJunk' <=> HasJunk
      /\ \A b \in Addr : /\ heap'[b].id = heap[b].id
                         /\ heap'[b].socket = heap[b].socket
  BY ListedPairs, RemoveListed
<1>2. \A b \in Listed' : b \in Addr /\ b # a /\ heap[b].id # heap[a].id
  BY <1>1 DEF Ids
<1> QED
  BY <1>1, <1>2 DEF Ids, HasName

LEMMA NewRemoveAlone ==
  ASSUME TypeOK, ListSound, NEW t \in Thread, Alone(t), NewRemove(t)
  PROVE  Alone(t)'
<1>0. /\ pc[t] = "new_remove" /\ pc'[t] = "new_socket" /\ UNCHANGED fds
      /\ loc'[t].req = loc[t].req /\ loc'[t].code = loc[t].code
      /\ RemovePair(loc[t].index)
  BY DEF NewRemove, At, Goto, TypeOK, Locals
<1>1. PICK a \in Addr, k \in DOMAIN pair_list :
        /\ k = loc[t].index /\ a = loc[t].pair /\ a = pair_list[k] /\ ~Wild(k)
        /\ heap[a].id = loc[t].req.id /\ Shut(a)
        /\ \A b \in Listed : b # a => Owned(b)
  <2>1. loc[t].pair \in Addr
    BY <1>0, ListedPairs DEF Alone, Lookups, Replacing
  <2> QED
    BY <1>0, <2>1, ConstantsAssumption
       DEF Alone, Lookups, Sockets, Replacing, Wild, ConstantsAssumption
<1>2. /\ a \in Listed /\ Listed' = Listed \ {a} /\ Ids'
      /\ \A b \in Addr : /\ heap'[b].id = heap[b].id
                         /\ heap'[b].socket = heap[b].socket
      /\ \A id : HasName(id)' <=> HasName(id) /\ id # heap[a].id
      /\ HasJunk' <=> HasJunk
  BY <1>0, <1>1, RemovedKeeps DEF Alone
<1>3. \A b \in Listed' : Owned(b)'
  BY <1>0, <1>1, <1>2, ListedPairs DEF Owned
<1>4. Control(t)'
  BY <1>0 DEF Alone, Control, Serves
<1>5. Lookups(t)'
  BY <1>0, <1>1, <1>2 DEF Lookups, Replacing
<1>6. Sockets(t)'
  BY <1>0, <1>3 DEF Sockets, Building
<1>7. NoLeak(t)'
  BY <1>0, <1>1, <1>2, ListedPairs DEF Alone, NoLeak, Building, Shut
<1> QED
  BY <1>2, <1>4, <1>5, <1>6, <1>7 DEF Alone

LEMMA FreeRemoveAlone ==
  ASSUME TypeOK, ListSound, NEW t \in Thread, Alone(t), FreeRemove(t)
  PROVE  Alone(t)'
<1>0. pc[t] = "free_remove" /\ UNCHANGED fds
  BY DEF FreeRemove, At
<1>1. CASE \E k \in DOMAIN pair_list :
             /\ Finds(loc[t].req.id, k)
             /\ loc' = [loc EXCEPT ![t].socket = heap[pair_list[k]].socket]
             /\ RemovePair(k)
             /\ Goto(t, "free_close")
  <2>1. PICK k \in DOMAIN pair_list :
             /\ Finds(loc[t].req.id, k)
             /\ loc' = [loc EXCEPT ![t].socket = heap[pair_list[k]].socket]
             /\ RemovePair(k)
             /\ Goto(t, "free_close")
    BY <1>1
  <2>2. PICK a \in Addr : a = pair_list[k] /\ heap[a].id = loc[t].req.id /\ ~Wild(k)
    BY <2>1, FindsAddr DEF Finds, Named
  <2>3. /\ a \in Listed /\ Listed' = Listed \ {a} /\ Ids'
        /\ \A b \in Listed' : b \in Addr /\ b # a /\ heap[b].id # heap[a].id
        /\ \A b \in Addr : /\ heap'[b].id = heap[b].id
                           /\ heap'[b].socket = heap[b].socket
        /\ HasJunk' <=> HasJunk
    BY <2>1, <2>2, RemovedKeeps DEF Alone
  <2>4. /\ pc'[t] = "free_close" /\ loc'[t].socket = heap[a].socket
        /\ loc'[t].req = loc[t].req /\ loc'[t].code = loc[t].code
        /\ loc'[t].overwritten = loc[t].overwritten
    BY <2>1, <2>2 DEF Goto, TypeOK, Locals
  <2>5. \A b \in Listed : Owned(b)
    BY <1>0 DEF Alone, Sockets
  <2>6. \A b \in Listed' : Owned(b)' /\ heap'[b].socket # loc'[t].socket
    BY <1>0, <2>3, <2>4, <2>5 DEF Owned
  <2>7. Control(t)' /\ Lookups(t)'
    BY <1>0, <2>4 DEF Alone, Control, Serves, Lookups, Replacing
  <2>8. Sockets(t)'
    BY <2>4, <2>6 DEF Sockets, Building
  <2>9. NoLeak(t)'
    BY <1>0, <2>3, <2>4, ListedPairs DEF Alone, NoLeak, Building
  <2> QED
    BY <2>3, <2>7, <2>8, <2>9 DEF Alone
<1>2. CASE Reply(t, "NOT_FOUND") /\ UNCHANGED <<heap, pair_list>>
  BY <1>0, <1>2, ReplyAlone DEF Frame, Building, Codes
<1> QED
  BY <1>1, <1>2 DEF FreeRemove

LEMMA FreeCloseAlone ==
  ASSUME TypeOK, NEW t \in Thread, Alone(t), FreeClose(t)
  PROVE  Alone(t)'
<1>0. /\ pc[t] = "free_close" /\ UNCHANGED <<pair_list, heap>>
      /\ fds' = Closed(loc[t].socket)
      /\ Reply(t, "SUCCESS") /\ "SUCCESS" \in Codes
  BY DEF FreeClose, At, Codes
<1>1. Listed' = Listed /\ (HasJunk' <=> HasJunk)
  BY <1>0, SameListed
<1>2. Ids'
  BY <1>0, <1>1 DEF Alone, Ids
<1>3. \A a \in Listed' : Owned(a)'
  BY <1>0, <1>1 DEF Alone, Sockets, Owned, Closed
<1>4. HasJunk' \/ \A f \in Fd : fds'[f] # None =>
                    \E a \in Listed' : heap'[a].socket = f
  BY <1>0, <1>1 DEF Alone, NoLeak, Building, Closed
<1> QED
  BY <1>0, <1>2, <1>3, <1>4, DoneAlone

Opened(f, id) == fds' = [fds EXCEPT ![f] = id]

\* A new pair takes a cell and a descriptor that no listed pair has.
LEMMA NewPairBuilt ==
  ASSUME TypeOK, ListSound, NEW t \in Thread, Ids, \A a \in Listed : Owned(a),
         NEW id \in Id, NEW f \in Fd, LowestFree(f), NewPair(t, id, f),
         Opened(f, id), UNCHANGED pair_list
  PROVE  /\ \E a \in Addr :
              /\ loc'[t].new_pair = a
              /\ heap'[a].id = id /\ heap'[a].socket = f /\ Owned(a)'
         /\ Listed' = Listed /\ (HasJunk' <=> HasJunk) /\ Ids'
         /\ \A b \in Listed : /\ Owned(b)' /\ heap'[b].id = heap[b].id
                              /\ heap'[b].socket = heap[b].socket
                              /\ heap'[b].socket # f
         /\ loc'[t].req = loc[t].req /\ loc'[t].code = loc[t].code
         /\ loc'[t].overwritten = loc[t].overwritten
<1>1. PICK a \in Addr :
        /\ ~heap[a].live
        /\ heap' = [heap EXCEPT ![a] = [live |-> TRUE, id |-> id, socket |-> f]]
        /\ loc' = [loc EXCEPT ![t].new_pair = a]
  BY DEF NewPair
<1>2. /\ loc'[t].new_pair = a /\ loc'[t].req = loc[t].req
      /\ loc'[t].code = loc[t].code /\ loc'[t].overwritten = loc[t].overwritten
  BY <1>1 DEF TypeOK, Locals
<1>3. Listed' = Listed /\ (HasJunk' <=> HasJunk) /\ a \notin Listed
  BY <1>1, SameListed, ListedLive
<1>4. /\ heap'[a].id = id /\ heap'[a].socket = f
      /\ \A b \in Listed : heap'[b] = heap[b]
  BY <1>1, <1>3, ListedPairs DEF TypeOK
<1>5. id # None /\ fds[f] = None /\ fds'[f] = id
  BY ConstantsAssumption DEF ConstantsAssumption, LowestFree, Opened, TypeOK
<1>6. \A b \in Listed : heap[b].id # None
  BY ConstantsAssumption DEF ConstantsAssumption, Ids
<1>7. \A b \in Listed : heap[b].socket # f /\ Owned(b)'
  BY <1>4, <1>5, <1>6 DEF Owned, Opened, TypeOK
<1>8. Owned(a)'
  BY <1>4, <1>5 DEF Owned
<1>9. Ids'
  BY <1>3, <1>4 DEF Ids
<1> QED
  BY <1>2, <1>3, <1>4, <1>7, <1>8, <1>9

LEMMA ServedNames ==
  ASSUME NEW t \in Thread
  PROVE  /\ Serves(t, "new") => loc[t].req.id \in Id /\ Target(t) = loc[t].req.id
         /\ Serves(t, "accept") => loc[t].req.new \in Id /\ Target(t) = loc[t].req.new
BY DEF Serves, Request, Target

LEMMA NewSocketAlone ==
  ASSUME TypeOK, ListSound, NEW t \in Thread, Alone(t), NewSocket(t)
  PROVE  Alone(t)'
<1>0. pc[t] = "new_socket" /\ UNCHANGED pair_list
  BY DEF NewSocket, At
<1>1. CASE \E code \in Codes : Reply(t, code) /\ UNCHANGED <<heap, fds>>
  BY <1>0, <1>1, ReplyAlone DEF Frame, Building
<1>2. CASE \E f \in Fd : /\ LowestFree(f) /\ NewPair(t, loc[t].req.id, f)
                         /\ fds' = [fds EXCEPT ![f] = loc[t].req.id]
                         /\ Goto(t, "new_add")
  <2>1. PICK id \in Id, f \in Fd :
          /\ id = loc[t].req.id /\ id = Target(t) /\ ~HasName(id)
          /\ LowestFree(f) /\ NewPair(t, id, f)
          /\ Opened(f, id) /\ Goto(t, "new_add")
    BY <1>0, <1>2, ServedNames DEF Alone, Control, Lookups, Opened
  <2>2. Ids /\ \A a \in Listed : Owned(a)
    BY <1>0 DEF Alone, Sockets
  <2>3. PICK a \in Addr :
              /\ loc'[t].new_pair = a
              /\ heap'[a].id = id /\ heap'[a].socket = f /\ Owned(a)'
    BY <1>0, <2>1, <2>2, NewPairBuilt
  <2>4. /\ Listed' = Listed /\ (HasJunk' <=> HasJunk) /\ Ids'
        /\ \A b \in Listed : /\ Owned(b)' /\ heap'[b].id = heap[b].id
                             /\ heap'[b].socket = heap[b].socket
                             /\ heap'[b].socket # f
        /\ loc'[t].req = loc[t].req /\ loc'[t].code = loc[t].code
        /\ loc'[t].overwritten = loc[t].overwritten
    BY <1>0, <2>1, <2>2, NewPairBuilt
  <2>5. pc'[t] = "new_add"
    BY <2>1 DEF Goto, TypeOK
  <2>6. Control(t)'
    BY <1>0, <2>4, <2>5 DEF Alone, Control, Serves
  <2>7. Lookups(t)'
    BY <2>1, <2>4, <2>5 DEF Lookups, Replacing, HasName
  <2>8. Sockets(t)'
    BY <2>1, <2>3, <2>4, <2>5 DEF Sockets, Target
  <2>9. NoLeak(t)'
    BY <1>0, <2>1, <2>3, <2>4, <2>5 DEF Alone, NoLeak, Building, Opened, TypeOK
  <2> QED
    BY <2>4, <2>6, <2>7, <2>8, <2>9 DEF Alone
<1> QED
  BY <1>1, <1>2 DEF NewSocket, Codes

\* The pair that was built is listed: it is the only one of its name.
LEMMA AddedKeeps ==
  ASSUME TypeOK, Ids, \A a \in Listed : Owned(a), UNCHANGED <<heap, fds>>,
         NEW a \in Addr, AddPair(a), heap[a].id \in Id, Owned(a),
         ~HasName(heap[a].id)
  PROVE  /\ Ids' /\ \A b \in Listed' : Owned(b)'
         /\ Listed' = Listed \cup {a} /\ (HasJunk' <=> HasJunk)
<1>1. Listed' = Listed \cup {a} /\ (HasJunk' <=> HasJunk)
  BY AddListed
<1> QED
  BY <1>1 DEF Ids, Owned, HasName

LEMMA NewAddAlone ==
  ASSUME TypeOK, ListSound, NEW t \in Thread, Alone(t), NewAdd(t)
  PROVE  Alone(t)'
<1>0. PICK a \in Addr :
        /\ a = loc[t].new_pair /\ pc[t] = "new_add" /\ Owned(a)
        /\ heap[a].id \in Id /\ ~HasName(heap[a].id)
        /\ \A b \in Listed : Owned(b) /\ heap[b].socket # heap[a].socket
  BY ServedNames
     DEF NewAdd, At, ListSound, Building, Alone, Control, Lookups, Sockets
<1>1. CASE AddPair(a) /\ Reply(t, AddCode(t)) /\ UNCHANGED <<heap, fds>>
  <2>1. /\ Ids' /\ \A b \in Listed' : Owned(b)'
        /\ Listed' = Listed \cup {a} /\ (HasJunk' <=> HasJunk)
    BY <1>0, <1>1, AddedKeeps DEF Alone
  <2>2. HasJunk' \/ \A f \in Fd : fds'[f] # None =>
                      \E b \in Listed' : heap'[b].socket = f
    BY <1>0, <1>1, <2>1 DEF Alone, NoLeak
  <2>3. AddCode(t) \in Codes
    BY DEF AddCode, Codes
  <2> QED
    BY <1>1, <2>1, <2>2, <2>3, DoneAlone
<1>2. CASE /\ AddPairFails /\ Reply(t, "OUT_OF_MEMORY")
           /\ fds' = Closed(heap[a].socket) /\ heap' = Freed(a)
  <2>1. Listed' = Listed /\ HasJunk'
    BY <1>2, AddFailsListed
  <2>2. \A b \in Addr : heap'[b].id = heap[b].id /\ heap'[b].socket = heap[b].socket
    BY <1>2 DEF Freed, TypeOK, IdSocketPair
  <2>3. Ids'
    BY <2>1, <2>2, ListedPairs DEF Alone, Ids
  <2>4. \A b \in Listed' : Owned(b)'
    BY <1>0, <1>2, <2>1, <2>2, ListedPairs DEF Owned, Closed
  <2>5. "OUT_OF_MEMORY" \in Codes
    BY DEF Codes
  <2> QED
    BY <1>2, <2>1, <2>3, <2>4, <2>5, DoneAlone
<1> QED
  BY <1>0, <1>1, <1>2 DEF NewAdd

LEMMA AcceptGetPairAlone ==
  ASSUME TypeOK, NEW t \in Thread, Alone(t), AcceptGetPair(t)
  PROVE  Alone(t)'
<1>0. pc[t] = "accept_get" /\ Frame
  BY DEF AcceptGetPair, GetPair, At, Frame
<1>1. CASE \E k \in DOMAIN pair_list :
             /\ loc' = [loc EXCEPT ![t].pair = pair_list[k], ![t].index = k]
             /\ Goto(t, "accept_block")
  <2>1. /\ pc'[t] = "accept_block"
        /\ loc'[t].req = loc[t].req /\ loc'[t].code = loc[t].code
        /\ loc'[t].overwritten = loc[t].overwritten
    BY <1>1 DEF Goto, TypeOK, Locals
  <2>2. pc'[t] \in Plain /\ Control(t)'
    BY <1>0, <2>1 DEF Alone, Control, Serves, Plain
  <2> QED
    BY <1>0, <2>2, PlainAlone DEF Plain
<1>2. CASE Reply(t, "NOT_FOUND")
  BY <1>0, <1>2, ReplyAlone DEF Building, Codes
<1> QED
  BY <1>1, <1>2 DEF AcceptGetPair, GetPair

LEMMA AcceptBlockAlone ==
  ASSUME TypeOK, NEW t \in Thread, Alone(t), AcceptBlock(t)
  PROVE  Alone(t)'
<1>0. pc[t] = "accept_block" /\ Frame
  BY DEF AcceptBlock, At, Frame
<1>1. CASE \E s : Goto(t, "accept_wait") /\ loc' = [loc EXCEPT ![t].socket = s]
  <2>1. /\ pc'[t] = "accept_wait"
        /\ loc'[t].req = loc[t].req /\ loc'[t].code = loc[t].code
        /\ loc'[t].overwritten = loc[t].overwritten
    BY <1>1 DEF Goto, TypeOK, Locals
  <2>2. pc'[t] \in Plain /\ Control(t)'
    BY <1>0, <2>1 DEF Alone, Control, Serves, Plain
  <2> QED
    BY <1>0, <2>2, PlainAlone DEF Plain
<1>2. CASE Reply(t, "NETWORK_ERROR")
  BY <1>0, <1>2, ReplyAlone DEF Building, Codes
<1> QED
  BY <1>1, <1>2 DEF AcceptBlock

LEMMA AcceptReturnsAlone ==
  ASSUME TypeOK, ListSound, NEW t \in Thread, Alone(t), AcceptReturns(t)
  PROVE  Alone(t)'
<1>0. pc[t] = "accept_wait" /\ UNCHANGED pair_list
  BY DEF AcceptReturns, At
<1>1. CASE \E code \in Codes : Reply(t, code) /\ UNCHANGED <<heap, fds>>
  BY <1>0, <1>1, ReplyAlone DEF Frame, Building
<1>2. CASE \E f \in Fd : /\ LowestFree(f) /\ NewPair(t, loc[t].req.new, f)
                         /\ fds' = [fds EXCEPT ![f] = loc[t].req.new]
                         /\ Goto(t, "accept_lock")
  <2>1. PICK id \in Id, f \in Fd :
          /\ id = Target(t)
          /\ LowestFree(f) /\ NewPair(t, id, f)
          /\ Opened(f, id) /\ Goto(t, "accept_lock")
    BY <1>0, <1>2, ServedNames DEF Alone, Control, Opened
  <2>2. Ids /\ \A a \in Listed : Owned(a)
    BY <1>0 DEF Alone, Sockets
  <2>3. PICK a \in Addr :
              /\ loc'[t].new_pair = a
              /\ heap'[a].id = id /\ heap'[a].socket = f /\ Owned(a)'
    BY <1>0, <2>1, <2>2, NewPairBuilt
  <2>4. /\ Listed' = Listed /\ (HasJunk' <=> HasJunk) /\ Ids'
        /\ \A b \in Listed : /\ Owned(b)' /\ heap'[b].id = heap[b].id
                             /\ heap'[b].socket = heap[b].socket
                             /\ heap'[b].socket # f
        /\ loc'[t].req = loc[t].req /\ loc'[t].code = loc[t].code
        /\ loc'[t].overwritten = loc[t].overwritten
    BY <1>0, <2>1, <2>2, NewPairBuilt
  <2>5. pc'[t] = "accept_lock"
    BY <2>1 DEF Goto, TypeOK
  <2>6. Control(t)' /\ Lookups(t)'
    BY <1>0, <2>4, <2>5 DEF Alone, Control, Serves, Lookups, Replacing
  <2>7. Sockets(t)'
    BY <2>1, <2>3, <2>4, <2>5 DEF Sockets, Target
  <2>8. NoLeak(t)'
    BY <1>0, <2>1, <2>3, <2>4, <2>5 DEF Alone, NoLeak, Building, Opened, TypeOK
  <2> QED
    BY <2>4, <2>6, <2>7, <2>8 DEF Alone
<1> QED
  BY <1>1, <1>2 DEF AcceptReturns, Codes

\* The pair being built stays as it is while its name is looked up.
LEMMA AcceptLockAlone ==
  ASSUME TypeOK, NEW t \in Thread, Alone(t), AcceptLock(t)
  PROVE  Alone(t)'
<1>0. pc[t] = "accept_lock" /\ Frame
  BY DEF AcceptLock, At, Frame
<1>1. /\ loc'[t].req = loc[t].req /\ loc'[t].code = loc[t].code
      /\ loc'[t].new_pair = loc[t].new_pair
  <2>1. CASE \E k : loc' = [loc EXCEPT ![t].pair = pair_list[k], ![t].index = k,
                                      ![t].overwritten = TRUE]
    BY <2>1 DEF TypeOK, Locals
  <2>2. CASE loc' = [loc EXCEPT ![t].pair = None]
    BY <2>2 DEF TypeOK, Locals
  <2> QED
    BY <2>1, <2>2 DEF AcceptLock
<1>2. \/ pc'[t] = "accept_close" /\ loc'[t].overwritten
      \/ /\ pc'[t] = "accept_add" /\ loc'[t].overwritten = loc[t].overwritten
         /\ ~HasName(loc[t].req.new)
  <2>1. CASE /\ Goto(t, "accept_close")
             /\ \E k : loc' = [loc EXCEPT ![t].pair = pair_list[k], ![t].index = k,
                                         ![t].overwritten = TRUE]
    BY <2>1 DEF Goto, TypeOK, Locals
  <2>2. CASE /\ Misses(loc[t].req.new) /\ Goto(t, "accept_add")
             /\ loc' = [loc EXCEPT ![t].pair = None]
    <3>1. ~HasName(loc[t].req.new)
      BY <2>2, MissesListed
    <3>2. pc'[t] = "accept_add" /\ loc'[t].overwritten = loc[t].overwritten
      BY <2>2 DEF Goto, TypeOK, Locals
    <3> QED
      BY <3>1, <3>2
  <2> QED
    BY <2>1, <2>2 DEF AcceptLock
<1>3. Building(t) /\ Building(t)' /\ Target(t)' = Target(t)
  BY <1>0, <1>1, <1>2 DEF Building, Target
<1>4. Listed' = Listed /\ Ids' /\ (HasJunk' <=> HasJunk)
  BY <1>0, FrameFacts DEF Alone
<1>5. Control(t)'
  BY <1>0, <1>1, <1>2 DEF Alone, Control, Serves
<1>6. Lookups(t)'
  BY <1>0, <1>1, <1>2, FrameFacts DEF Lookups, Replacing
<1>7. \A a : (Owned(a)' <=> Owned(a)) /\ (Shut(a)' <=> Shut(a))
  BY <1>0, FrameFacts
<1>8. Sockets(t)'
  <2>1. Owned(loc[t].new_pair)'
    BY <1>0, <1>1, <1>3 DEF Alone, Sockets, Owned, Frame
  <2>2. ~loc'[t].overwritten \/ pc'[t] # "accept_add"
    BY <1>0, <1>2 DEF Alone, Control
  <2>3. \A a \in Listed' : Owned(a)'
    BY <1>0, <1>4, <1>7 DEF Alone, Sockets
  <2>4. /\ heap'[loc'[t].new_pair].id = Target(t)'
        /\ \A a \in Listed' : heap'[a].socket # heap'[loc'[t].new_pair].socket
    BY <1>0, <1>1, <1>3, <1>4 DEF Alone, Sockets, Frame
  <2> QED
    BY <1>2, <2>1, <2>2, <2>3, <2>4 DEF Sockets
<1>9. NoLeak(t)'
  BY <1>0, <1>1, <1>3, <1>4 DEF Alone, NoLeak, Frame
<1> QED
  BY <1>4, <1>5, <1>6, <1>8, <1>9 DEF Alone

LEMMA AcceptCloseAlone ==
  ASSUME IInv, NEW t \in Thread, Alone(t), AcceptClose(t)
  PROVE  Alone(t)'
<1> USE DEF IInv
<1>0. /\ pc[t] = "accept_close" /\ pc'[t] = "accept_add" /\ UNCHANGED loc
      /\ fds' = Closed(heap[loc[t].pair].socket) /\ RemovePair(loc[t].index)
  BY DEF AcceptClose, At, Goto, TypeOK
<1>1. PICK a \in Addr, k \in DOMAIN pair_list :
        /\ k = loc[t].index /\ a = loc[t].pair /\ a = pair_list[k] /\ ~Wild(k)
        /\ heap[a].id = loc[t].req.new /\ a \in Listed /\ Owned(a)
  <2>1. PICK a \in Addr, k \in DOMAIN pair_list :
          /\ k = loc[t].index /\ a = loc[t].pair /\ a = pair_list[k]
          /\ heap[a].id = loc[t].req.new
    BY <1>0 DEF LockedIndexValid, PairRead
  <2>2. a \in Listed /\ ~Wild(k)
    BY <2>1, ConstantsAssumption DEF Listed, Wild, ConstantsAssumption
  <2>3. Owned(a)
    BY <1>0, <2>2 DEF Alone, Sockets
  <2> QED
    BY <2>1, <2>2, <2>3
<1>2. PICK n \in Addr :
        /\ n = loc[t].new_pair /\ heap[n].id = Target(t) /\ Owned(n)
        /\ \A b \in Listed : heap[b].socket # heap[n].socket
  BY <1>0 DEF ListSound, Building, Alone, Sockets
<1>3. /\ Listed' = Listed \ {a} /\ Ids'
      /\ \A b \in Listed' : b \in Addr /\ b # a /\ heap[b].id # heap[a].id
      /\ \A b \in Addr : /\ heap'[b].id = heap[b].id
                         /\ heap'[b].socket = heap[b].socket
      /\ \A id : HasName(id)' <=> HasName(id) /\ id # heap[a].id
      /\ HasJunk' <=> HasJunk
  BY <1>0, <1>1, RemovedKeeps DEF Alone
<1>4. /\ \A b \in Addr : Owned(b) /\ heap[b].id # heap[a].id =>
              fds'[heap[b].socket] = heap[b].id
      /\ fds'[heap[a].socket] = None
      /\ \A f \in Fd : fds'[f] # None => fds[f] # None /\ f # heap[a].socket
  BY <1>0, <1>1, CloseKeeps
<1>5. \A b \in Listed' : Owned(b)'
  BY <1>0, <1>3, <1>4 DEF Alone, Sockets, Owned
<1>6. Owned(n)' /\ Shut(a)'
  BY <1>0, <1>1, <1>2, <1>3, <1>4 DEF Owned, Shut, Closed
<1>7. Control(t)' /\ Lookups(t)'
  BY <1>0, <1>1, <1>3 DEF Alone, Control, Serves, Lookups, Replacing
<1>8. Sockets(t)'
  BY <1>0, <1>1, <1>2, <1>3, <1>5, <1>6 DEF Sockets, Target
<1>9. NoLeak(t)'
  BY <1>0, <1>1, <1>2, <1>3, <1>4, ListedPairs DEF Alone, NoLeak, Building
<1> QED
  BY <1>3, <1>7, <1>8, <1>9 DEF Alone

\* When the list cannot grow the code closes the socket of the pair that was
\* removed, a second time: nothing more is closed.
LEMMA AcceptAddAlone ==
  ASSUME TypeOK, ListSound, NEW t \in Thread, Alone(t), AcceptAdd(t)
  PROVE  Alone(t)'
<1>0. PICK a \in Addr :
        /\ a = loc[t].new_pair /\ pc[t] = "accept_add" /\ Owned(a)
        /\ heap[a].id \in Id /\ ~HasName(heap[a].id)
        /\ \A b \in Listed : Owned(b) /\ heap[b].socket # heap[a].socket
  BY ServedNames
     DEF AcceptAdd, At, ListSound, Building, Alone, Control, Lookups, Sockets
<1>1. CASE AddPair(a) /\ Reply(t, AddCode(t)) /\ UNCHANGED <<heap, fds>>
  <2>1. /\ Ids' /\ \A b \in Listed' : Owned(b)'
        /\ Listed' = Listed \cup {a} /\ (HasJunk' <=> HasJunk)
    BY <1>0, <1>1, AddedKeeps DEF Alone
  <2>2. HasJunk' \/ \A f \in Fd : fds'[f] # None =>
                      \E b \in Listed' : heap'[b].socket = f
    BY <1>0, <1>1, <2>1 DEF Alone, NoLeak
  <2>3. AddCode(t) \in Codes
    BY DEF AddCode, Codes
  <2> QED
    BY <1>1, <2>1, <2>2, <2>3, DoneAlone
<1>2. CASE /\ AddPairFails /\ loc[t].overwritten
           /\ \E s \in SocketsOf(loc[t].pair) : fds' = Closed(s)
           /\ heap' = Freed(a) /\ Reply(t, "OUT_OF_MEMORY")
  <2>1. Listed' = Listed /\ HasJunk'
    BY <1>2, AddFailsListed
  <2>2. \A b \in Addr : heap'[b].id = heap[b].id /\ heap'[b].socket = heap[b].socket
    BY <1>2 DEF Freed, TypeOK, IdSocketPair
  <2>3. Ids'
    BY <2>1, <2>2, ListedPairs DEF Alone, Ids
  <2>4. \A f \in Fd : fds'[f] = fds[f]
    BY <1>0, <1>2 DEF Alone, Sockets, Shut, SocketsOf, Closed, BadFd, Fd
  <2>5. \A b \in Listed' : Owned(b)'
    BY <1>0, <2>1, <2>2, <2>4, ListedPairs DEF Owned
  <2>6. "OUT_OF_MEMORY" \in Codes
    BY DEF Codes
  <2> QED
    BY <1>2, <2>1, <2>3, <2>5, <2>6, DoneAlone
<1>3. CASE AddPairFails /\ UNCHANGED <<heap, fds, pc, loc>>
  <2>1. Listed' = Listed /\ HasJunk'
    BY <1>3, AddFailsListed
  <2>2. Control(t)' /\ Ids' /\ NoLeak(t)'
    BY <1>0, <1>3, <2>1 DEF Alone, Control, Serves, Ids, NoLeak
  <2>3. Lookups(t)'
    BY <1>0, <1>3, <2>1 DEF Alone, Lookups, Replacing, HasName
  <2>4. Sockets(t)'
    BY <1>0, <1>3, <2>1 DEF Alone, Sockets, Owned, Shut, Building, Target
  <2> QED
    BY <2>2, <2>3, <2>4 DEF Alone
<1> QED
  BY <1>0, <1>1, <1>2, <1>3 DEF AcceptAdd

LEMMA UseGetPairAlone ==
  ASSUME TypeOK, NEW t \in Thread, Alone(t), UseGetPair(t)
  PROVE  Alone(t)'
<1>0. pc[t] = "use_get" /\ Frame
  BY DEF UseGetPair, GetPair, At, Frame
<1>1. CASE \E k \in DOMAIN pair_list :
             /\ Finds(loc[t].req.id, k)
             /\ loc' = [loc EXCEPT ![t].pair = pair_list[k], ![t].index = k]
             /\ Goto(t, "use_read")
  <2>1. PICK k \in DOMAIN pair_list :
             /\ Finds(loc[t].req.id, k)
             /\ loc' = [loc EXCEPT ![t].pair = pair_list[k], ![t].index = k]
             /\ Goto(t, "use_read")
    BY <1>1
  <2>2. pc'[t] = "use_read"
    BY <2>1 DEF Goto, TypeOK
  <2>3. /\ loc'[t].pair \in Listed /\ heap[loc'[t].pair].id = loc[t].req.id
        /\ loc'[t].req = loc[t].req /\ loc'[t].code = loc[t].code
        /\ loc'[t].overwritten = loc[t].overwritten
    BY <1>0, <2>1, LookedUp DEF Frame
  <2> QED
    BY <1>0, <2>2, <2>3, FrameFacts
       DEF Alone, Control, Serves, Lookups, Sockets, NoLeak, Building, Replacing,
           Frame
<1>2. CASE Reply(t, "NOT_FOUND")
  BY <1>0, <1>2, ReplyAlone DEF Building, Codes
<1> QED
  BY <1>1, <1>2 DEF UseGetPair, GetPair

LEMMA UseReadAlone ==
  ASSUME TypeOK, NEW t \in Thread, Alone(t), UseRead(t)
  PROVE  Alone(t)'
<1>0. pc[t] = "use_read" /\ Frame
  BY DEF UseRead, At, Frame
<1>1. /\ pc'[t] = "use_io"
      /\ loc'[t].req = loc[t].req /\ loc'[t].code = loc[t].code
      /\ loc'[t].overwritten = loc[t].overwritten
  BY DEF UseRead, Goto, TypeOK, Locals
<1>2. HasName(loc[t].req.id)
  BY <1>0 DEF Alone, Lookups, HasName
<1> QED
  BY <1>0, <1>1, <1>2, FrameFacts
     DEF Alone, Control, Serves, Lookups, Sockets, NoLeak, Building, Replacing,
         Frame

LEMMA UseReturnsAlone ==
  ASSUME TypeOK, NEW t \in Thread, Alone(t), UseReturns(t)
  PROVE  Alone(t)'
BY ReplyAlone DEF UseReturns, At, Frame, Building, Codes

LEMMA ListLockAlone ==
  ASSUME TypeOK, NEW t \in Thread, Alone(t), ListLock(t)
  PROVE  Alone(t)'
<1>0. pc[t] = "list_lock" /\ Frame
  BY DEF ListLock, At, Frame
<1>1. /\ pc'[t] = "list_send"
      /\ loc'[t].req = loc[t].req /\ loc'[t].code = loc[t].code
      /\ loc'[t].overwritten = loc[t].overwritten
  BY DEF ListLock, Goto, TypeOK, Locals
<1>2. pc'[t] \in Plain /\ Control(t)'
  BY <1>0, <1>1 DEF Alone, Control, Serves, Plain
<1> QED
  BY <1>0, <1>2, PlainAlone DEF Plain

LEMMA ListSendAlone ==
  ASSUME TypeOK, NEW t \in Thread, Alone(t), ListSend(t)
  PROVE  Alone(t)'
<1>0. pc[t] = "list_send" /\ Frame
  BY DEF ListSend, At, Frame
<1>1. CASE UNCHANGED pc /\ loc' = [loc EXCEPT ![t].index = @ + 1]
  <2>1. /\ pc'[t] = "list_send"
        /\ loc'[t].req = loc[t].req /\ loc'[t].code = loc[t].code
        /\ loc'[t].overwritten = loc[t].overwritten
    BY <1>0, <1>1 DEF TypeOK, Locals
  <2>2. pc'[t] \in Plain /\ Control(t)'
    BY <1>0, <2>1 DEF Alone, Control, Serves, Plain
  <2> QED
    BY <1>0, <2>2, PlainAlone DEF Plain
<1>2. CASE Reply(t, "SUCCESS")
  BY <1>0, <1>2, ReplyAlone DEF Building, Codes
<1> QED
  BY <1>1, <1>2 DEF ListSend

LEMMA ExitLockAlone ==
  ASSUME TypeOK, NEW t \in Thread, Alone(t), ExitLock(t)
  PROVE  Alone(t)'
<1>0. /\ pc[t] = "exit_lock" /\ Frame
      /\ pc'[t] = "exit_close" /\ UNCHANGED loc
  BY DEF ExitLock, At, Goto, TypeOK, Frame
<1>1. pc'[t] \in Plain /\ Control(t)'
  BY <1>0 DEF Alone, Control, Serves, Plain
<1> QED
  BY <1>0, <1>1, PlainAlone DEF Plain

LEMMA ExitCloseAlone ==
  ASSUME TypeOK, ListSound, NEW t \in Thread, Alone(t), ExitClose(t)
  PROVE  Alone(t)'
<1>0. pc[t] = "exit_close" /\ UNCHANGED <<pc, loc>>
  BY DEF ExitClose, At
<1>1. CASE /\ pair_list # <<>> /\ ~Wild(1) /\ RemovePair(1)
           /\ fds' = Closed(heap[pair_list[1]].socket)
  <2>1. 1 \in DOMAIN pair_list
    BY <1>1 DEF TypeOK
  <2>2. PICK a \in Addr : a = pair_list[1] /\ a \in Listed /\ Owned(a)
    BY <1>0, <1>1, <2>1, ListedPairs DEF Alone, Sockets
  <2>3. /\ Listed' = Listed \ {a} /\ Ids'
        /\ \A b \in Listed' : b \in Addr /\ b # a /\ heap[b].id # heap[a].id
        /\ \A b \in Addr : /\ heap'[b].id = heap[b].id
                           /\ heap'[b].socket = heap[b].socket
        /\ HasJunk' <=> HasJunk
    BY <1>1, <2>1, <2>2, RemovedKeeps DEF Alone
  <2>4. /\ \A b \in Addr : Owned(b) /\ heap[b].id # heap[a].id =>
                fds'[heap[b].socket] = heap[b].id
        /\ \A f \in Fd : fds'[f] # None => fds[f] # None /\ f # heap[a].socket
    BY <1>1, <2>2, CloseKeeps
  <2>5. Control(t)' /\ Lookups(t)'
    BY <1>0 DEF Alone, Control, Serves, Lookups, Replacing
  <2>6. Sockets(t)'
    BY <1>0, <2>3, <2>4 DEF Alone, Sockets, Owned, Building
  <2>7. NoLeak(t)'
    BY <1>0, <2>2, <2>3, <2>4, ListedPairs DEF Alone, NoLeak, Building
  <2> QED
    BY <2>3, <2>5, <2>6, <2>7 DEF Alone
<1>2. CASE Frame
  BY <1>0, <1>2, PlainAlone DEF Alone, Control, Serves, Plain
<1> QED
  BY <1>1, <1>2 DEF ExitClose, Frame

\* A step that changes neither the registry nor what the thread does.
LEMMA StillAlone ==
  ASSUME NEW t \in Thread, Alone(t), Frame, UNCHANGED <<pc, loc>>
  PROVE  Alone(t)'
<1>1. /\ Listed' = Listed /\ (HasJunk' <=> HasJunk) /\ Ids'
      /\ \A a : (Owned(a)' <=> Owned(a)) /\ (Shut(a)' <=> Shut(a))
      /\ \A id : HasName(id)' <=> HasName(id)
  BY FrameFacts DEF Alone
<1>2. Control(t)' /\ Lookups(t)'
  BY <1>1 DEF Alone, Control, Serves, Lookups, Replacing, Frame
<1>3. Sockets(t)' /\ NoLeak(t)'
  BY <1>1 DEF Alone, Sockets, NoLeak, Owned, Shut, Building, Target, Frame
<1> QED
  BY <1>1, <1>2, <1>3 DEF Alone

LEMMA StepAlone ==
  ASSUME IInv, NEW t \in Thread, Alone(t), Step(t)
  PROVE  Alone(t)'
<1> USE DEF IInv
<1>1. CASE AcceptReturns(t)
  BY <1>1, AcceptReturnsAlone
<1>2. CASE AcceptAdd(t)
  BY <1>2, AcceptAddAlone
<1>3. CASE JunkCrash(t)
  BY <1>3, StillAlone DEF JunkCrash, Frame
<1>4. CASE ServeClient(t) \/ EndRequest(t) \/ UseReturns(t)
  BY <1>4, ServeClientAlone, EndRequestAlone, UseReturnsAlone
<1>5. CASE \/ NewGetPair(t) \/ NewShutdown(t) \/ NewClose(t) \/ NewRemove(t)
           \/ NewSocket(t) \/ NewAdd(t)
  BY <1>5, NewGetPairAlone, NewShutdownAlone, NewCloseAlone, NewRemoveAlone,
     NewSocketAlone, NewAddAlone
<1>6. CASE FreeRemove(t) \/ FreeClose(t)
  BY <1>6, FreeRemoveAlone, FreeCloseAlone
<1>7. CASE \/ AcceptGetPair(t) \/ AcceptBlock(t) \/ AcceptLock(t)
           \/ AcceptClose(t)
  BY <1>7, AcceptGetPairAlone, AcceptBlockAlone, AcceptLockAlone,
     AcceptCloseAlone
<1>8. CASE UseGetPair(t) \/ UseRead(t)
  BY <1>8, UseGetPairAlone, UseReadAlone
<1>9. CASE ListLock(t) \/ ListSend(t) \/ ExitLock(t) \/ ExitClose(t)
  BY <1>9, ListLockAlone, ListSendAlone, ExitLockAlone, ExitCloseAlone
<1> QED
  BY <1>1, <1>2, <1>3, <1>4, <1>5, <1>6, <1>7, <1>8, <1>9 DEF Step, Progress

LEMMA NextAlone ==
  ASSUME OneThread, IInv, AllAlone, [Next]_vars
  PROVE  AllAlone'
<1>1. ASSUME NEW t \in Thread, Step(t) PROVE AllAlone'
  BY <1>1, StepAlone DEF OneThread, AllAlone
<1>2. ASSUME UNCHANGED vars PROVE AllAlone'
  BY <1>2, StillAlone DEF vars, AllAlone, Frame
<1> QED
  BY <1>1, <1>2 DEF Next, Stopped

LEMMA InitAlone == Init => AllAlone
<1> SUFFICES ASSUME Init, NEW t \in Thread PROVE Alone(t)
  BY DEF AllAlone
<1>1. /\ pc[t] = "idle" /\ loc[t] = NoLocals /\ pair_list = <<>>
      /\ \A f \in Fd : fds[f] = None
  BY DEF Init
<1>2. Listed = {}
  BY <1>1 DEF Listed
<1> QED
  BY <1>1, <1>2 DEF Alone, Control, Ids, Lookups, Replacing, Sockets, NoLeak,
     Building, NoLocals

LEMMA SpecAlone ==
  ASSUME OneThread
  PROVE  Spec => [](IInv /\ AllAlone)
<1>1. Init => IInv /\ AllAlone
  BY InitIInv, InitAlone
<1>2. IInv /\ AllAlone /\ [Next]_vars => (IInv /\ AllAlone)'
  BY NextIInv, NextAlone
<1> QED
  BY <1>1, <1>2, PTL DEF Spec

-----------------------------------------------------------------------------
(* What the registry keeps with one thread.                                *)

\* Between commands the open sockets are those of the listed pairs, one each,
\* whatever was created, replaced, accepted or freed (znsock_close and
\* server_remove_pair in new, free and accept).
THEOREM SocketsAreListed ==
  ASSUME OneThread
  PROVE  Spec => []SocketsMatchList
<1>1. IInv /\ AllAlone => SocketsMatchList
  <2> SUFFICES ASSUME IInv, AllAlone, Quiet,
                      \A k \in DOMAIN pair_list : ~Wild(k)
               PROVE  /\ \A k \in DOMAIN pair_list : Owned(pair_list[k])
                      /\ \A f \in Fd : fds[f] # None =>
                           \E k \in DOMAIN pair_list : heap[pair_list[k]].socket = f
    BY DEF SocketsMatchList, Owned
  <2>1. PICK t \in Thread : TRUE
    BY DEF OneThread
  <2>2. pc[t] \in {"idle", "done"} /\ ~HasJunk
    BY DEF Quiet, HasJunk
  <2>3. \A a \in Listed : Owned(a)
    BY <2>2 DEF AllAlone, Alone, Sockets
  <2>4. \A f \in Fd : fds[f] # None => \E a \in Listed : heap[a].socket = f
    BY <2>2 DEF AllAlone, Alone, NoLeak, Building
  <2> QED
    BY <2>3, <2>4, ListedPairs DEF IInv
<1> QED
  BY <1>1, SpecAlone, PTL

LEMMA StepFrom ==
  ASSUME TypeOK, NEW t \in Thread, Step(t), pc'[t] # pc[t]
  PROVE  /\ pc[t] = "new_remove" => NewRemove(t)
         /\ pc[t] = "use_read" => UseRead(t)
<1> USE DEF At
<1>1. CASE \/ EndRequest(t)
           \/ NewGetPair(t) \/ NewShutdown(t) \/ NewClose(t) \/ NewRemove(t)
           \/ NewSocket(t) \/ NewAdd(t) \/ FreeRemove(t) \/ FreeClose(t)
  BY <1>1 DEF EndRequest, NewGetPair, NewShutdown, NewClose, NewRemove,
     NewSocket, NewAdd, FreeRemove, FreeClose
<1>2. CASE \/ AcceptGetPair(t) \/ AcceptBlock(t) \/ AcceptLock(t)
           \/ AcceptClose(t) \/ AcceptAdd(t) \/ UseGetPair(t) \/ UseRead(t)
  BY <1>2 DEF AcceptGetPair, AcceptBlock, AcceptLock, AcceptClose, AcceptAdd,
     UseGetPair, UseRead
<1>3. CASE \/ ListLock(t) \/ ListSend(t) \/ ExitLock(t) \/ ExitClose(t)
           \/ ServeClient(t) \/ AcceptReturns(t) \/ UseReturns(t) \/ JunkCrash(t)
  BY <1>3 DEF ListLock, ListSend, ExitLock, ExitClose, ServeClient,
     AcceptReturns, UseReturns, JunkCrash
<1> QED
  BY <1>1, <1>2, <1>3 DEF Step, Progress

\* The index new keeps over the graceful close of the old socket is still that
\* of the pair it found (NOTE of server_remove_pair).
THEOREM NewRemovesItsPair ==
  ASSUME OneThread
  PROVE  Spec => NewRemovesOldPair
<1>1. IInv /\ AllAlone /\ [Next]_vars =>
        [\A t \in Thread :
           pc[t] = "new_remove" /\ pc'[t] = "new_socket" =>
             \A a \in Addr :
               heap[a].live /\ ~heap'[a].live => a = loc[t].pair]_vars
  <2> SUFFICES ASSUME IInv, AllAlone, NEW u \in Thread, Step(u), NEW t \in Thread,
                      pc[t] = "new_remove", pc'[t] = "new_socket",
                      NEW a \in Addr, heap[a].live, ~heap'[a].live
               PROVE  a = loc[t].pair
    BY DEF Next, Stopped
  <2>1. NewRemove(t)
    BY StepFrom DEF IInv, OneThread
  <2>2. /\ loc[t].index \in DOMAIN pair_list
        /\ pair_list[loc[t].index] = loc[t].pair
    BY DEF AllAlone, Alone, Lookups, Replacing
  <2> QED
    BY <2>1, <2>2 DEF NewRemove, RemovePair, IInv, TypeOK
<1> QED
  BY <1>1, SpecAlone, PTL DEF Spec, NewRemovesOldPair

\* bind, connect, listen, recv, send, nms_recv, nms_send, info and poll act on
\* an open socket of the name they were given, although server_get_pair
\* released the mutex before they read it.
THEOREM UsesItsSocket ==
  ASSUME OneThread
  PROVE  Spec => UsesNamedSocket
<1>1. IInv /\ AllAlone /\ [Next]_vars =>
        [\A t \in Thread :
           pc[t] = "use_read" /\ pc'[t] = "use_io" =>
             /\ loc'[t].socket \in Fd
             /\ fds[loc'[t].socket] = loc[t].req.id]_vars
  <2> SUFFICES ASSUME IInv, AllAlone, NEW u \in Thread, Step(u), NEW t \in Thread,
                      pc[t] = "use_read", pc'[t] = "use_io"
               PROVE  /\ loc'[t].socket \in Fd
                      /\ fds[loc'[t].socket] = loc[t].req.id
    BY DEF Next, Stopped
  <2>1. UseRead(t)
    BY StepFrom DEF IInv, OneThread
  <2>2. /\ loc[t].pair \in Listed /\ heap[loc[t].pair].id = loc[t].req.id
        /\ Owned(loc[t].pair)
    BY DEF AllAlone, Alone, Lookups, Sockets
  <2>3. SocketsOf(loc[t].pair) = {heap[loc[t].pair].socket}
    BY <2>2, ListedLive DEF SocketsOf, IInv
  <2>4. loc'[t].socket = heap[loc[t].pair].socket
    BY <2>1, <2>3 DEF UseRead, IInv, TypeOK, Locals
  <2> QED
    BY <2>2, <2>4 DEF Owned
<1> QED
  BY <1>1, SpecAlone, PTL DEF Spec, UsesNamedSocket

-----------------------------------------------------------------------------
(***************************************************************************)
(* The refinement of SocketNames.  A removal is Drop (or Shut), the growth *)
(* of the list is Create, an answer is one of the answers; everything else *)
(* is a stutter.                                                           *)
(***************************************************************************)
HasGivenUp(t) ==
  pc[t] = "free_close" \/ (loc[t].overwritten /\ pc[t] # "accept_close")

LEMMA NamesAre ==
  TypeOK => \A id \in Id : id \in NamesListed <=> HasName(id)
BY ListedPairs DEF NamesListed, HasName, Named

LEMMA AbstractNow ==
  ASSUME TypeOK, NEW t \in Thread
  PROVE  /\ Asked[t] = loc[t].req /\ Answered[t] = loc[t].code
         /\ GaveUp[t] <=> HasGivenUp(t)
BY DEF Asked, Answered, GaveUp, HasGivenUp

\* What a step does not change of the thread, it does not change of the
\* abstract state.
LEMMA AbstractNext ==
  ASSUME TypeOK, NEW t \in Thread, Step(t)
  PROVE  /\ Asked' = [Asked EXCEPT ![t] = loc'[t].req]
         /\ Answered' = [Answered EXCEPT ![t] = loc'[t].code]
         /\ HasGivenUp(t)' => GaveUp' = [GaveUp EXCEPT ![t] = TRUE]
         /\ ~HasGivenUp(t)' => GaveUp' = [GaveUp EXCEPT ![t] = FALSE]
<1>1. \A u \in Thread : u # t => pc'[u] = pc[u] /\ loc'[u] = loc[u]
  BY OthersStay
<1>2. Asked' = [Asked EXCEPT ![t] = loc'[t].req]
  BY <1>1 DEF Asked
<1>3. Answered' = [Answered EXCEPT ![t] = loc'[t].code]
  BY <1>1 DEF Answered
<1>4. ASSUME HasGivenUp(t)' PROVE GaveUp' = [GaveUp EXCEPT ![t] = TRUE]
  BY <1>1, <1>4 DEF GaveUp, HasGivenUp
<1>5. ASSUME ~HasGivenUp(t)' PROVE GaveUp' = [GaveUp EXCEPT ![t] = FALSE]
  BY <1>1, <1>5 DEF GaveUp, HasGivenUp
<1> QED
  BY <1>2, <1>3, <1>4, <1>5

LEMMA AbstractSame ==
  ASSUME TypeOK, NEW t \in Thread, Step(t)
  PROVE  /\ loc'[t].req = loc[t].req => Asked' = Asked
         /\ loc'[t].code = loc[t].code => Answered' = Answered
         /\ (HasGivenUp(t)' <=> HasGivenUp(t)) => GaveUp' = GaveUp
<1>1. \A u \in Thread : u # t => pc'[u] = pc[u] /\ loc'[u] = loc[u]
  BY OthersStay
<1>2. loc'[t].req = loc[t].req => Asked' = Asked
  BY <1>1 DEF Asked
<1>3. loc'[t].code = loc[t].code => Answered' = Answered
  BY <1>1 DEF Answered
<1>4. (HasGivenUp(t)' <=> HasGivenUp(t)) => GaveUp' = GaveUp
  BY <1>1 DEF GaveUp, HasGivenUp
<1> QED
  BY <1>2, <1>3, <1>4

LEMMA NamesSame ==
  ASSUME IInv, [Next]_vars, \A id \in Id : HasName(id)' <=> HasName(id)
  PROVE  NamesListed' = NamesListed
<1>1. TypeOK /\ TypeOK'
  BY NextIInv DEF IInv
<1>2. TypeOK' => (\A id \in Id : id \in NamesListed <=> HasName(id))'
  BY NamesAre, PTL
<1> QED
  BY <1>1, <1>2, NamesAre DEF NamesListed

\* The kinds of steps.
LEMMA Stuttering ==
  ASSUME IInv, NEW t \in Thread, Step(t),
         \A id : HasName(id)' <=> HasName(id),
         loc'[t].req = loc[t].req, loc'[t].code = loc[t].code,
         HasGivenUp(t)' <=> HasGivenUp(t)
  PROVE  UNCHANGED Names!vars
<1>1. NamesListed' = NamesListed
  BY NamesSame DEF Next
<1>2. Asked' = Asked /\ Answered' = Answered /\ GaveUp' = GaveUp
  BY AbstractSame DEF IInv
<1> QED
  BY <1>1, <1>2 DEF Names!vars

LEMMA Answering ==
  ASSUME IInv, NEW t \in Thread, Step(t), NEW code \in Codes, Reply(t, code)
  PROVE  Asked' = Asked /\ Names!Answer(t, code)
<1>1. /\ pc'[t] = "done" /\ loc'[t].overwritten = FALSE
      /\ loc'[t].req = loc[t].req /\ loc'[t].code = code
  BY ReplyLeaves DEF IInv
<1>2. ~HasGivenUp(t)'
  BY <1>1 DEF HasGivenUp
<1>3. Answered' = [Answered EXCEPT ![t] = code]
  BY <1>1, AbstractNext DEF IInv
<1>4. GaveUp' = [GaveUp EXCEPT ![t] = FALSE]
  BY <1>2, AbstractNext DEF IInv
<1>5. Asked' = Asked
  BY <1>1, AbstractSame DEF IInv
<1> QED
  BY <1>3, <1>4, <1>5 DEF Names!Answer

LEMMA ServingNow ==
  ASSUME TypeOK, NEW t \in Thread, Alone(t), NEW cmd, Serves(t, cmd),
         pc[t] # "done"
  PROVE  /\ \A cmds : cmd \in cmds => Names!Serving(t, cmds)
         /\ Asked[t] = loc[t].req /\ Names!Target(Asked[t]) = Target(t)
BY AbstractNow DEF Names!Serving, Names!Target, Target, Serves, Alone, Control

LEMMA Failing ==
  ASSUME IInv, NEW t \in Thread, Alone(t), Step(t),
         NEW cmd \in {"new", "accept", "use"}, Serves(t, cmd), pc[t] # "done",
         NEW code \in {"NETWORK_ERROR", "OUT_OF_MEMORY", "INTERNAL_ERROR"},
         Reply(t, code), \A id : HasName(id)' <=> HasName(id)
  PROVE  Names!Fail(t)
<1>1. Asked' = Asked /\ Names!Answer(t, code)
  BY Answering DEF Codes
<1>2. NamesListed' = NamesListed
  BY NamesSame DEF Next
<1>3. Names!Serving(t, {"new", "accept", "use"})
  BY ServingNow DEF IInv
<1> QED
  BY <1>1, <1>2, <1>3 DEF Names!Fail

LEMMA NotFinding ==
  ASSUME IInv, NEW t \in Thread, Alone(t), Step(t),
         NEW cmd \in {"free", "accept", "use"}, Serves(t, cmd), pc[t] # "done",
         Reply(t, "NOT_FOUND"), UNCHANGED <<pair_list, heap, fds>>,
         Misses(loc[t].req.id)
  PROVE  Names!NotFound(t)
<1>1. Asked' = Asked /\ Names!Answer(t, "NOT_FOUND")
  BY Answering DEF Codes
<1>2. NamesListed' = NamesListed
  BY NamesSame, FrameFacts DEF Next, Frame
<1>3. Names!Serving(t, {"free", "accept", "use"}) /\ Asked[t] = loc[t].req
  BY ServingNow DEF IInv
<1>4. loc[t].req.id \notin NamesListed
  BY NamesAre, MissesListed DEF IInv, NamesListed
<1> QED
  BY <1>1, <1>2, <1>3, <1>4 DEF Names!NotFound

LEMMA Dropping ==
  ASSUME IInv, NEW t \in Thread, Alone(t), Step(t),
         NEW cmd \in {"new", "free", "accept"}, Serves(t, cmd), pc[t] # "done",
         loc'[t].req = loc[t].req, loc'[t].code = loc[t].code,
         ~HasGivenUp(t), HasGivenUp(t)',
         Target(t) \in Id, HasName(Target(t)),
         \A id : HasName(id)' <=> HasName(id) /\ id # Target(t)
  PROVE  Names!Drop(t)
<1>1. TypeOK /\ TypeOK'
  BY NextIInv DEF IInv, Next
<1>2. TypeOK' => (\A id \in Id : id \in NamesListed <=> HasName(id))'
  BY NamesAre, PTL
<1>3. \A id \in Id : id \in NamesListed' <=> id \in NamesListed /\ id # Target(t)
  BY <1>1, <1>2, NamesAre
<1>4. NamesListed' = NamesListed \ {Target(t)} /\ Target(t) \in NamesListed
  BY <1>1, <1>3, NamesAre DEF NamesListed
<1>5. /\ Names!Serving(t, {"new", "free", "accept"})
      /\ Names!Target(Asked[t]) = Target(t)
  BY <1>1, ServingNow
<1>6. ~GaveUp[t]
  BY <1>1, AbstractNow
<1>7. GaveUp' = [GaveUp EXCEPT ![t] = TRUE]
  BY <1>1, AbstractNext
<1>8. Asked' = Asked /\ Answered' = Answered
  BY <1>1, AbstractSame
<1> QED
  BY <1>4, <1>5, <1>6, <1>7, <1>8 DEF Names!Drop

LEMMA Creating ==
  ASSUME IInv, NEW t \in Thread, Alone(t), Step(t),
         NEW cmd \in {"new", "accept"}, Serves(t, cmd),
         pc[t] \in {"new_add", "accept_add"}, Reply(t, AddCode(t)),
         UNCHANGED heap, AddPair(loc[t].new_pair)
  PROVE  Names!Create(t)
<1>1. TypeOK /\ TypeOK'
  BY NextIInv DEF IInv, Next
<1>2. PICK a \in Addr : /\ a = loc[t].new_pair /\ heap[a].id = Target(t)
                        /\ Target(t) \in Id /\ ~HasName(Target(t))
  BY ServedNames DEF IInv, ListSound, Building, Alone, Control, Lookups, Sockets
<1>3. Listed' = Listed \cup {a}
  BY <1>1, <1>2, AddListed
<1>4. \A id : HasName(id)' <=> HasName(id) \/ id = Target(t)
  BY <1>2, <1>3 DEF HasName
<1>5. TypeOK' => (\A id \in Id : id \in NamesListed <=> HasName(id))'
  BY NamesAre, PTL
<1>6. \A id \in Id : id \in NamesListed' <=> id \in NamesListed \/ id = Target(t)
  BY <1>1, <1>4, <1>5, NamesAre
<1>7. NamesListed' = NamesListed \cup {Target(t)} /\ Target(t) \notin NamesListed
  BY <1>1, <1>2, <1>6, NamesAre DEF NamesListed
<1>8. /\ Names!Serving(t, {"new", "accept"})
      /\ Names!Target(Asked[t]) = Target(t)
  BY <1>1, ServingNow
<1>9. AddCode(t) = IF GaveUp[t] THEN "OVERWRITTEN" ELSE "SUCCESS"
  BY <1>1, AbstractNow DEF AddCode, HasGivenUp
<1>10. AddCode(t) \in Codes
  BY DEF AddCode, Codes
<1>11. Asked' = Asked /\ Names!Answer(t, IF GaveUp[t] THEN "OVERWRITTEN" ELSE "SUCCESS")
  BY <1>9, <1>10, Answering
<1> QED
  BY <1>7, <1>8, <1>11 DEF Names!Create

\* Every action, seen as a set of names.
Maps == Names!Next \/ UNCHANGED Names!vars

LEMMA FrameMaps ==
  ASSUME IInv, NEW t \in Thread, Step(t), UNCHANGED <<pair_list, heap, fds>>,
         loc'[t].req = loc[t].req, loc'[t].code = loc[t].code,
         HasGivenUp(t)' <=> HasGivenUp(t)
  PROVE  Maps
BY Stuttering, FrameFacts DEF Maps, Frame

LEMMA ServeClientMaps ==
  ASSUME IInv, NEW t \in Thread, Alone(t), ServeClient(t)
  PROVE  Maps
<1> USE DEF IInv
<1>0. Step(t)
  BY DEF Step
<1>1. PICK r \in Request : /\ loc' = [loc EXCEPT ![t].req = r]
                           /\ Goto(t, Entry(r.cmd))
  BY DEF ServeClient
<1>2. /\ pc'[t] = Entry(r.cmd) /\ loc'[t].req = r
      /\ loc'[t].code = loc[t].code /\ loc'[t].overwritten = loc[t].overwritten
  BY <1>1 DEF Goto, TypeOK, Locals
<1>3. pc[t] = "idle" /\ Frame /\ ~loc[t].overwritten /\ loc[t].req = NoRequest
  BY DEF ServeClient, At, Frame, Alone, Control
<1>4. pc'[t] # "free_close"
  BY <1>2, RequestType DEF Entry, AllCmds
<1>5. UNCHANGED <<NamesListed, GaveUp, Answered>>
  <2>1. NamesListed' = NamesListed
    BY <1>0, <1>3, NamesSame, FrameFacts DEF Next
  <2>2. HasGivenUp(t)' <=> HasGivenUp(t)
    BY <1>2, <1>3, <1>4 DEF HasGivenUp
  <2> QED
    BY <1>0, <1>2, <2>1, <2>2, AbstractSame
<1>6. Asked' = [Asked EXCEPT ![t] = r]
  BY <1>0, <1>2, AbstractNext
<1>7. Asked[t] = NoRequest
  BY <1>3, AbstractNow
<1>8. Names!Ask(t)
  BY <1>5, <1>6, <1>7 DEF Names!Ask
<1> QED
  BY <1>8 DEF Maps, Names!Next

LEMMA EndRequestMaps ==
  ASSUME IInv, NEW t \in Thread, Alone(t), EndRequest(t)
  PROVE  Maps
<1> USE DEF IInv
<1>0. Step(t)
  BY DEF Step, Progress
<1>1. pc[t] = "done" /\ Frame /\ pc'[t] = "idle" /\ loc'[t] = NoLocals
  BY DEF EndRequest, At, Frame, Goto, TypeOK
<1>2. /\ ~loc[t].overwritten /\ loc[t].code # "none"
      /\ ~loc'[t].overwritten
      /\ loc'[t].req = NoRequest /\ loc'[t].code = "none"
  BY <1>1 DEF Alone, Control, NoLocals
<1>3. NamesListed' = NamesListed
  BY <1>0, <1>1, NamesSame, FrameFacts DEF Next
<1>4. GaveUp' = GaveUp
  BY <1>0, <1>1, <1>2, AbstractSame DEF HasGivenUp
<1>5. /\ Asked' = [Asked EXCEPT ![t] = NoRequest]
      /\ Answered' = [Answered EXCEPT ![t] = "none"]
  BY <1>0, <1>2, AbstractNext
<1>6. Answered[t] # "none"
  BY <1>2, AbstractNow
<1>7. Names!Leave(t)
  BY <1>3, <1>4, <1>5, <1>6 DEF Names!Leave
<1> QED
  BY <1>7 DEF Maps, Names!Next

LEMMA LookupMaps ==
  ASSUME IInv, NEW t \in Thread, Alone(t),
         NewGetPair(t) \/ AcceptGetPair(t) \/ UseGetPair(t)
  PROVE  Maps
<1> USE DEF IInv
<1>0. Step(t) /\ Frame /\ pc[t] \in {"new_get", "accept_get", "use_get"}
  BY DEF Step, Progress, NewGetPair, AcceptGetPair, UseGetPair, GetPair, At, Frame
<1>1. CASE /\ \E k \in DOMAIN pair_list :
                loc' = [loc EXCEPT ![t].pair = pair_list[k], ![t].index = k]
           /\ \/ Goto(t, "new_shutdown") \/ Goto(t, "accept_block")
              \/ Goto(t, "use_read")
  <2>1. /\ loc'[t].req = loc[t].req /\ loc'[t].code = loc[t].code
        /\ loc'[t].overwritten = loc[t].overwritten
    BY <1>1 DEF TypeOK, Locals
  <2>2. pc'[t] \in {"new_shutdown", "accept_block", "use_read"}
    BY <1>1 DEF Goto, TypeOK
  <2>3. HasGivenUp(t)' <=> HasGivenUp(t)
    BY <1>0, <2>1, <2>2 DEF HasGivenUp
  <2> QED
    BY <1>0, <2>1, <2>3, FrameMaps DEF Frame
<1>2. CASE Goto(t, "new_socket") /\ UNCHANGED loc
  <2>1. HasGivenUp(t)' <=> HasGivenUp(t)
    BY <1>0, <1>2 DEF HasGivenUp, Goto, TypeOK
  <2> QED
    BY <1>0, <1>2, <2>1, FrameMaps DEF Frame
<1>3. CASE /\ AcceptGetPair(t) \/ UseGetPair(t)
           /\ Misses(loc[t].req.id) /\ Reply(t, "NOT_FOUND")
  <2>1. Serves(t, "accept") \/ Serves(t, "use")
    BY <1>3 DEF AcceptGetPair, UseGetPair, At, Alone, Control
  <2>2. Names!NotFound(t)
    BY <1>0, <1>3, <2>1, NotFinding DEF Frame
  <2> QED
    BY <2>2 DEF Maps, Names!Next
<1> QED
  BY <1>1, <1>2, <1>3 DEF NewGetPair, AcceptGetPair, UseGetPair, GetPair

LEMMA ShutdownMaps ==
  ASSUME IInv, NEW t \in Thread, Alone(t), NewShutdown(t) \/ UseRead(t)
  PROVE  Maps
<1> USE DEF IInv
<1>0. /\ Step(t) /\ Frame /\ pc[t] \in {"new_shutdown", "use_read"}
      /\ pc'[t] \in {"new_close", "use_io"}
  BY DEF Step, Progress, NewShutdown, UseRead, At, Frame, Goto, TypeOK
<1>1. PICK s : loc' = [loc EXCEPT ![t].socket = s]
  BY DEF NewShutdown, UseRead
<1>2. /\ loc'[t].req = loc[t].req /\ loc'[t].code = loc[t].code
      /\ loc'[t].overwritten = loc[t].overwritten
  BY <1>1 DEF TypeOK, Locals
<1> QED
  BY <1>0, <1>2, FrameMaps DEF HasGivenUp, Frame

LEMMA NewCloseMaps ==
  ASSUME IInv, NEW t \in Thread, Alone(t), NewClose(t)
  PROVE  Maps
<1> USE DEF IInv
<1>0. /\ Step(t) /\ pc[t] = "new_close" /\ pc'[t] = "new_remove"
      /\ UNCHANGED <<pair_list, heap, loc>>
  BY DEF Step, Progress, NewClose, At, Goto, TypeOK
<1>1. \A id : HasName(id)' <=> HasName(id)
  BY <1>0, SameListed DEF HasName
<1> QED
  BY <1>0, <1>1, Stuttering DEF HasGivenUp, Maps

LEMMA NewRemoveMaps ==
  ASSUME IInv, NEW t \in Thread, Alone(t), NewRemove(t)
  PROVE  Maps
<1> USE DEF IInv
<1>0. /\ Step(t) /\ pc[t] = "new_remove" /\ pc'[t] = "new_socket"
      /\ loc'[t].req = loc[t].req /\ loc'[t].code = loc[t].code
      /\ loc'[t].overwritten /\ RemovePair(loc[t].index)
  BY DEF Step, Progress, NewRemove, At, Goto, TypeOK, Locals
<1>1. Serves(t, "new") /\ ~loc[t].overwritten
  BY <1>0 DEF Alone, Control
<1>2. Target(t) = loc[t].req.id /\ Target(t) \in Id
  BY <1>1, ServedNames
<1>3. PICK a \in Addr, k \in DOMAIN pair_list :
        /\ k = loc[t].index /\ a = pair_list[k] /\ ~Wild(k)
        /\ heap[a].id = Target(t) /\ a \in Listed
  <2>1. loc[t].pair \in Addr
    BY <1>0, ListedPairs DEF Alone, Lookups, Replacing
  <2> QED
    BY <1>0, <1>2, <2>1, ConstantsAssumption
       DEF Alone, Lookups, Replacing, Wild, ConstantsAssumption
<1>4. \A id : HasName(id)' <=> HasName(id) /\ id # Target(t)
  BY <1>0, <1>3, RemovedKeeps DEF Alone
<1>5. HasName(Target(t)) /\ ~HasGivenUp(t) /\ HasGivenUp(t)'
  BY <1>0, <1>1, <1>3 DEF HasName, HasGivenUp
<1>6. Names!Drop(t)
  BY <1>0, <1>1, <1>2, <1>4, <1>5, Dropping
<1> QED
  BY <1>6 DEF Maps, Names!Next

\* A new socket has no name before its pair is listed.
LEMMA NewPairMaps ==
  ASSUME IInv, NEW t \in Thread, Alone(t), NewSocket(t) \/ AcceptReturns(t)
  PROVE  Maps
<1> USE DEF IInv
<1>0. /\ Step(t) /\ UNCHANGED pair_list
      /\ \/ pc[t] = "new_socket" /\ Serves(t, "new")
         \/ /\ pc[t] = "accept_wait" /\ Serves(t, "accept")
            /\ ~loc[t].overwritten
  BY DEF Step, Progress, NewSocket, AcceptReturns, At, Alone, Control
<1>1. CASE \E code \in {"NETWORK_ERROR", "OUT_OF_MEMORY", "INTERNAL_ERROR"} :
             Reply(t, code) /\ UNCHANGED <<heap, fds>>
  <2>1. \A id : HasName(id)' <=> HasName(id)
    BY <1>0, <1>1, FrameFacts DEF Frame
  <2>2. Names!Fail(t)
    BY <1>0, <1>1, <2>1, Failing
  <2> QED
    BY <2>2 DEF Maps, Names!Next
<1>2. CASE \E f \in Fd : /\ LowestFree(f) /\ NewPair(t, Target(t), f)
                         /\ Opened(f, Target(t))
                         /\ Goto(t, "new_add") \/ Goto(t, "accept_lock")
  <2>1. PICK id \in Id, f \in Fd :
          /\ LowestFree(f) /\ NewPair(t, id, f) /\ Opened(f, id)
          /\ Goto(t, "new_add") \/ Goto(t, "accept_lock")
    BY <1>0, <1>2, ServedNames
  <2>2. Ids /\ \A a \in Listed : Owned(a)
    BY <1>0 DEF Alone, Sockets
  <2>3. /\ Listed' = Listed
        /\ \A b \in Listed : heap'[b].id = heap[b].id
        /\ loc'[t].req = loc[t].req /\ loc'[t].code = loc[t].code
        /\ loc'[t].overwritten = loc[t].overwritten
    BY <1>0, <2>1, <2>2, NewPairBuilt
  <2>4. \A id_1 : HasName(id_1)' <=> HasName(id_1)
    BY <2>3 DEF HasName
  <2>5. pc'[t] \in {"new_add", "accept_lock"}
    BY <2>1 DEF Goto, TypeOK
  <2>6. HasGivenUp(t)' <=> HasGivenUp(t)
    BY <1>0, <2>3, <2>5 DEF HasGivenUp
  <2> QED
    BY <1>0, <2>3, <2>4, <2>6, Stuttering DEF Maps
<1> QED
  BY <1>0, <1>1, <1>2, ServedNames DEF NewSocket, AcceptReturns, Opened, At

LEMMA AddMaps ==
  ASSUME IInv, NEW t \in Thread, Alone(t), NewAdd(t) \/ AcceptAdd(t)
  PROVE  Maps
<1> USE DEF IInv
<1>0. /\ Step(t)
      /\ \/ pc[t] = "new_add" /\ Serves(t, "new")
         \/ pc[t] = "accept_add" /\ Serves(t, "accept")
  BY DEF Step, Progress, NewAdd, AcceptAdd, At, Alone, Control
<1>1. CASE /\ AddPair(loc[t].new_pair) /\ Reply(t, AddCode(t))
           /\ UNCHANGED heap
  <2>1. Names!Create(t)
    BY <1>0, <1>1, Creating
  <2> QED
    BY <2>1 DEF Maps, Names!Next
<1>2. CASE AddPairFails
  <2>1. Listed' = Listed
    BY <1>2, AddFailsListed
  <2>2. \A b \in Addr : heap'[b].id = heap[b].id
    <3>1. heap' = Freed(loc[t].new_pair) \/ heap' = heap
      BY <1>2 DEF NewAdd, AcceptAdd
    <3> QED
      BY <3>1 DEF Freed, TypeOK, IdSocketPair
  <2>3. \A id : HasName(id)' <=> HasName(id)
    BY <2>1, <2>2, ListedPairs DEF HasName
  <2>4. CASE Reply(t, "OUT_OF_MEMORY")
    <3>1. Names!Fail(t)
      BY <1>0, <2>3, <2>4, Failing
    <3> QED
      BY <3>1 DEF Maps, Names!Next
  <2>5. CASE UNCHANGED <<pc, loc>>
    BY <1>0, <2>3, <2>5, Stuttering DEF HasGivenUp, Maps
  <2>6. \/ AddPair(loc[t].new_pair) /\ Reply(t, AddCode(t)) /\ UNCHANGED heap
        \/ Reply(t, "OUT_OF_MEMORY")
        \/ UNCHANGED <<pc, loc>>
    BY DEF NewAdd, AcceptAdd
  <2> QED
    BY <1>1, <2>4, <2>5, <2>6
<1> QED
  BY <1>1, <1>2 DEF NewAdd, AcceptAdd

LEMMA FreeMaps ==
  ASSUME IInv, NEW t \in Thread, Alone(t), FreeRemove(t) \/ FreeClose(t)
  PROVE  Maps
<1> USE DEF IInv
<1>0. Step(t) /\ Serves(t, "free") /\ pc[t] \in {"free_remove", "free_close"}
      /\ ~loc[t].overwritten
  BY DEF Step, Progress, FreeRemove, FreeClose, At, Alone, Control
<1>t. Target(t) = loc[t].req.id /\ Target(t) \in Id
  BY <1>0 DEF Serves, Target, Request
<1>1. CASE /\ pc[t] = "free_remove"
           /\ \E k \in DOMAIN pair_list :
                /\ Finds(loc[t].req.id, k)
                /\ loc' = [loc EXCEPT ![t].socket = heap[pair_list[k]].socket]
                /\ RemovePair(k)
                /\ Goto(t, "free_close")
  <2>1. PICK k \in DOMAIN pair_list :
                /\ Finds(loc[t].req.id, k)
                /\ loc' = [loc EXCEPT ![t].socket = heap[pair_list[k]].socket]
                /\ RemovePair(k)
                /\ Goto(t, "free_close")
    BY <1>1
  <2>2. PICK a \in Addr :
          /\ a = pair_list[k] /\ heap[a].id = Target(t) /\ ~Wild(k) /\ a \in Listed
    BY <1>t, <2>1, FindsAddr, FindsListed DEF Finds, Named
  <2>3. \A id : HasName(id)' <=> HasName(id) /\ id # Target(t)
    BY <2>1, <2>2, RemovedKeeps DEF Alone
  <2>4. /\ pc'[t] = "free_close"
        /\ loc'[t].req = loc[t].req /\ loc'[t].code = loc[t].code
    BY <2>1 DEF Goto, TypeOK, Locals
  <2>5. HasName(Target(t)) /\ ~HasGivenUp(t) /\ HasGivenUp(t)'
    BY <1>0, <1>1, <2>2, <2>4 DEF HasName, HasGivenUp
  <2>6. Names!Drop(t)
    BY <1>0, <1>1, <1>t, <2>3, <2>4, <2>5, Dropping
  <2> QED
    BY <2>6 DEF Maps, Names!Next
<1>2. CASE /\ pc[t] = "free_remove"
           /\ Misses(loc[t].req.id) /\ Reply(t, "NOT_FOUND")
           /\ UNCHANGED <<heap, pair_list, fds>>
  <2>1. Names!NotFound(t)
    BY <1>0, <1>2, NotFinding
  <2> QED
    BY <2>1 DEF Maps, Names!Next
<1>3. CASE FreeClose(t)
  <2>0. /\ pc[t] = "free_close" /\ UNCHANGED <<pair_list, heap>>
        /\ Reply(t, "SUCCESS")
    BY <1>3 DEF FreeClose, At
  <2>1. \A id : HasName(id)' <=> HasName(id)
    BY <2>0, SameListed DEF HasName
  <2>2. NamesListed' = NamesListed
    BY <1>0, <2>1, NamesSame DEF Next
  <2>3. Asked' = Asked /\ Names!Answer(t, "SUCCESS")
    BY <1>0, <2>0, Answering DEF Codes
  <2>4. Names!Serving(t, {"free"})
    BY <1>0, ServingNow
  <2>5. GaveUp[t]
    BY <2>0, AbstractNow DEF HasGivenUp
  <2>6. Names!FreeDone(t)
    BY <2>2, <2>3, <2>4, <2>5 DEF Names!FreeDone
  <2> QED
    BY <2>6 DEF Maps, Names!Next
<1> QED
  BY <1>1, <1>2, <1>3 DEF FreeRemove, At

LEMMA AcceptBlockMaps ==
  ASSUME IInv, NEW t \in Thread, Alone(t), AcceptBlock(t)
  PROVE  Maps
<1> USE DEF IInv
<1>0. Step(t) /\ Frame /\ pc[t] = "accept_block" /\ Serves(t, "accept")
  BY DEF Step, Progress, AcceptBlock, At, Frame, Alone, Control
<1>1. CASE \E s : Goto(t, "accept_wait") /\ loc' = [loc EXCEPT ![t].socket = s]
  <2>1. /\ pc'[t] = "accept_wait"
        /\ loc'[t].req = loc[t].req /\ loc'[t].code = loc[t].code
        /\ loc'[t].overwritten = loc[t].overwritten
    BY <1>1 DEF Goto, TypeOK, Locals
  <2> QED
    BY <1>0, <2>1, FrameMaps DEF HasGivenUp, Frame
<1>2. CASE Reply(t, "NETWORK_ERROR")
  <2>1. Names!Fail(t)
    BY <1>0, <1>2, Failing, FrameFacts
  <2> QED
    BY <2>1 DEF Maps, Names!Next
<1> QED
  BY <1>1, <1>2 DEF AcceptBlock

LEMMA AcceptLockMaps ==
  ASSUME IInv, NEW t \in Thread, Alone(t), AcceptLock(t)
  PROVE  Maps
<1> USE DEF IInv
<1>0. /\ Step(t) /\ Frame /\ pc[t] = "accept_lock" /\ ~loc[t].overwritten
  BY DEF Step, Progress, AcceptLock, At, Frame, Alone, Control
<1>1. CASE /\ Goto(t, "accept_close")
           /\ \E k : loc' = [loc EXCEPT ![t].pair = pair_list[k], ![t].index = k,
                                        ![t].overwritten = TRUE]
  <2>1. /\ pc'[t] = "accept_close"
        /\ loc'[t].req = loc[t].req /\ loc'[t].code = loc[t].code
    BY <1>1 DEF Goto, TypeOK, Locals
  <2> QED
    BY <1>0, <2>1, FrameMaps DEF HasGivenUp, Frame
<1>2. CASE Goto(t, "accept_add") /\ loc' = [loc EXCEPT ![t].pair = None]
  <2>1. /\ pc'[t] = "accept_add"
        /\ loc'[t].req = loc[t].req /\ loc'[t].code = loc[t].code
        /\ loc'[t].overwritten = loc[t].overwritten
    BY <1>2 DEF Goto, TypeOK, Locals
  <2> QED
    BY <1>0, <2>1, FrameMaps DEF HasGivenUp, Frame
<1> QED
  BY <1>1, <1>2 DEF AcceptLock

LEMMA AcceptCloseMaps ==
  ASSUME IInv, NEW t \in Thread, Alone(t), AcceptClose(t)
  PROVE  Maps
<1> USE DEF IInv
<1>0. /\ Step(t) /\ pc[t] = "accept_close" /\ pc'[t] = "accept_add"
      /\ UNCHANGED loc /\ Serves(t, "accept") /\ RemovePair(loc[t].index)
      /\ loc[t].overwritten
  BY DEF Step, Progress, AcceptClose, At, Goto, TypeOK, Alone, Control
<1>1. Target(t) = loc[t].req.new /\ Target(t) \in Id
  BY <1>0, ServedNames
<1>2. PICK a \in Addr, k \in DOMAIN pair_list :
        /\ k = loc[t].index /\ a = pair_list[k] /\ ~Wild(k)
        /\ heap[a].id = Target(t) /\ a \in Listed
  <2>1. PICK a \in Addr, k \in DOMAIN pair_list :
          k = loc[t].index /\ a = pair_list[k] /\ heap[a].id = Target(t)
    BY <1>0, <1>1 DEF LockedIndexValid, PairRead
  <2> QED
    BY <2>1, ConstantsAssumption DEF Listed, Wild, ConstantsAssumption
<1>3. \A id : HasName(id)' <=> HasName(id) /\ id # Target(t)
  BY <1>0, <1>2, RemovedKeeps DEF Alone
<1>4. HasName(Target(t)) /\ ~HasGivenUp(t) /\ HasGivenUp(t)'
  BY <1>0, <1>2 DEF HasName, HasGivenUp
<1>5. Names!Drop(t)
  BY <1>0, <1>1, <1>3, <1>4, Dropping
<1> QED
  BY <1>5 DEF Maps, Names!Next

LEMMA UseReturnsMaps ==
  ASSUME IInv, NEW t \in Thread, Alone(t), UseReturns(t)
  PROVE  Maps
<1> USE DEF IInv
<1>0. /\ Step(t) /\ Frame /\ pc[t] = "use_io" /\ Serves(t, "use")
      /\ HasName(loc[t].req.id)
  BY DEF Step, UseReturns, At, Frame, Alone, Control, Lookups
<1>1. CASE Reply(t, "NETWORK_ERROR")
  <2>1. Names!Fail(t)
    BY <1>0, <1>1, Failing, FrameFacts
  <2> QED
    BY <2>1 DEF Maps, Names!Next
<1>2. CASE Reply(t, "SUCCESS")
  <2>1. Asked' = Asked /\ Names!Answer(t, "SUCCESS")
    BY <1>0, <1>2, Answering DEF Codes
  <2>2. NamesListed' = NamesListed
    BY <1>0, NamesSame, FrameFacts DEF Next
  <2>3. Names!Serving(t, {"use", "list"}) /\ Asked[t] = loc[t].req
    BY <1>0, ServingNow
  <2>4. loc[t].req.id \in NamesListed
    BY <1>0, NamesAre DEF Serves, Request
  <2>5. Names!Report(t)
    BY <2>1, <2>2, <2>3, <2>4 DEF Names!Report
  <2> QED
    BY <2>5 DEF Maps, Names!Next
<1> QED
  BY <1>1, <1>2 DEF UseReturns

LEMMA ListMaps ==
  ASSUME IInv, NEW t \in Thread, Alone(t), ListLock(t) \/ ListSend(t)
  PROVE  Maps
<1> USE DEF IInv
<1>0. /\ Step(t) /\ Frame /\ pc[t] \in {"list_lock", "list_send"}
      /\ Serves(t, "list") /\ ~loc[t].overwritten
  BY DEF Step, Progress, ListLock, ListSend, At, Frame, Alone, Control
<1>1. CASE /\ UNCHANGED pc \/ Goto(t, "list_send")
           /\ \E k : loc' = [loc EXCEPT ![t].index = k]
  <2>1. /\ pc'[t] \in {"list_lock", "list_send"}
        /\ loc'[t].req = loc[t].req /\ loc'[t].code = loc[t].code
        /\ loc'[t].overwritten = loc[t].overwritten
    BY <1>0, <1>1 DEF Goto, TypeOK, Locals
  <2> QED
    BY <1>0, <2>1, FrameMaps DEF HasGivenUp, Frame
<1>2. CASE Reply(t, "SUCCESS")
  <2>1. Asked' = Asked /\ Names!Answer(t, "SUCCESS")
    BY <1>0, <1>2, Answering DEF Codes
  <2>2. NamesListed' = NamesListed
    BY <1>0, NamesSame, FrameFacts DEF Next
  <2>3. Names!Serving(t, {"use", "list"}) /\ Asked[t] = loc[t].req
    BY <1>0, ServingNow
  <2>4. loc[t].req.cmd # "use"
    BY <1>0 DEF Serves
  <2>5. Names!Report(t)
    BY <2>1, <2>2, <2>3, <2>4 DEF Names!Report
  <2> QED
    BY <2>5 DEF Maps, Names!Next
<1> QED
  BY <1>1, <1>2 DEF ListLock, ListSend

\* exit removes the first pair, whose name is then free.
LEMMA ExitMaps ==
  ASSUME IInv, NEW t \in Thread, Alone(t), ExitLock(t) \/ ExitClose(t)
  PROVE  Maps
<1> USE DEF IInv
<1>0. /\ Step(t) /\ Serves(t, "exit") /\ UNCHANGED loc /\ ~loc[t].overwritten
      /\ pc[t] \in {"exit_lock", "exit_close"} /\ pc'[t] = "exit_close"
  BY DEF Step, Progress, ExitLock, ExitClose, At, Alone, Control, Goto, TypeOK
<1>g. HasGivenUp(t)' <=> HasGivenUp(t)
  BY <1>0 DEF HasGivenUp
<1>1. CASE Frame
  BY <1>0, <1>1, <1>g, FrameMaps DEF Frame
<1>2. CASE pair_list # <<>> /\ ~Wild(1) /\ RemovePair(1)
  <2>1. 1 \in DOMAIN pair_list
    BY <1>2 DEF TypeOK
  <2>2. PICK a \in Addr : a = pair_list[1] /\ a \in Listed
    BY <1>2, <2>1, ListedPairs
  <2>3. PICK n \in Id : n = heap[a].id /\ HasName(n)
    BY <2>2 DEF Alone, Ids, HasName
  <2>4. \A id : HasName(id)' <=> HasName(id) /\ id # n
    BY <1>2, <2>1, <2>2, <2>3, RemovedKeeps DEF Alone
  <2>5. TypeOK'
    BY <1>0, NextIInv DEF Next
  <2>6. TypeOK' => (\A id \in Id : id \in NamesListed <=> HasName(id))'
    BY NamesAre, PTL
  <2>7. \A id \in Id : id \in NamesListed' <=> id \in NamesListed /\ id # n
    BY <2>4, <2>5, <2>6, NamesAre
  <2>8. n \in NamesListed /\ NamesListed' = NamesListed \ {n}
    BY <2>3, <2>7, NamesAre DEF NamesListed
  <2>9. Asked' = Asked /\ Answered' = Answered /\ GaveUp' = GaveUp
    BY <1>0, <1>g, AbstractSame
  <2>10. Names!Serving(t, {"exit"})
    BY <1>0, ServingNow
  <2>11. Names!Shut(t)
    BY <2>8, <2>9, <2>10 DEF Names!Shut
  <2> QED
    BY <2>11 DEF Maps, Names!Next
<1> QED
  BY <1>1, <1>2 DEF ExitLock, ExitClose, Frame

LEMMA StepMaps ==
  ASSUME IInv, NEW t \in Thread, Alone(t), Step(t)
  PROVE  Maps
<1>1. CASE JunkCrash(t)
  BY <1>1, FrameMaps DEF JunkCrash, HasGivenUp
<1>2. CASE ServeClient(t) \/ EndRequest(t) \/ UseReturns(t) \/ AcceptReturns(t)
  BY <1>2, ServeClientMaps, EndRequestMaps, UseReturnsMaps, NewPairMaps
<1>3. CASE NewGetPair(t) \/ AcceptGetPair(t) \/ UseGetPair(t)
  BY <1>3, LookupMaps
<1>4. CASE \/ NewShutdown(t) \/ UseRead(t) \/ NewClose(t) \/ NewRemove(t)
           \/ NewSocket(t)
  BY <1>4, ShutdownMaps, NewCloseMaps, NewRemoveMaps, NewPairMaps
<1>5. CASE NewAdd(t) \/ AcceptAdd(t) \/ FreeRemove(t) \/ FreeClose(t)
  BY <1>5, AddMaps, FreeMaps
<1>6. CASE AcceptBlock(t) \/ AcceptLock(t) \/ AcceptClose(t)
  BY <1>6, AcceptBlockMaps, AcceptLockMaps, AcceptCloseMaps
<1>7. CASE ListLock(t) \/ ListSend(t) \/ ExitLock(t) \/ ExitClose(t)
  BY <1>7, ListMaps, ExitMaps
<1> QED
  BY <1>1, <1>2, <1>3, <1>4, <1>5, <1>6, <1>7 DEF Step, Progress

LEMMA InitMaps == Init => Names!Init
<1> SUFFICES ASSUME Init PROVE Names!Init
  OBVIOUS
<1>1. NamesListed = {}
  BY DEF Init, NamesListed
<1>2. \A t \in Thread : pc[t] = "idle" /\ loc[t] = NoLocals
  BY DEF Init
<1>3. \A t \in Thread : /\ loc[t].req = NoRequest /\ loc[t].code = "none"
                       /\ ~loc[t].overwritten
  BY <1>2 DEF NoLocals
<1>4. /\ Asked = [t \in Thread |-> NoRequest]
      /\ Answered = [t \in Thread |-> "none"]
  BY <1>3 DEF Asked, Answered
<1>5. \A t \in Thread : ~HasGivenUp(t)
  BY <1>2, <1>3 DEF HasGivenUp
<1>6. GaveUp = [t \in Thread |-> FALSE]
  BY <1>5, Zenon DEF GaveUp, HasGivenUp
<1> QED
  BY <1>1, <1>4, <1>6 DEF Names!Init

\* With one thread the server is what SocketNames promises: a set of names, of
\* one socket each, whose requests change their own name only and are answered
\* with what happened to it.
THEOREM RegistryIsNames ==
  ASSUME OneThread
  PROVE  Spec => ImplementsSocketNames
<1>1. Init => Names!Init
  BY InitMaps
<1>2. IInv /\ AllAlone /\ [Next]_vars => [Names!Next]_(Names!vars)
  <2> SUFFICES ASSUME IInv, AllAlone, [Next]_vars PROVE Maps
    BY DEF Maps
  <2>1. ASSUME NEW t \in Thread, Step(t) PROVE Maps
    BY <2>1, StepMaps DEF AllAlone
  <2>2. ASSUME UNCHANGED vars PROVE Maps
    BY <2>2 DEF vars, Maps, Names!vars, NamesListed, Named, Wild, Asked, Answered,
       GaveUp
  <2> QED
    BY <2>1, <2>2 DEF Next, Stopped
<1> QED
  BY <1>1, <1>2, SpecAlone, PTL DEF Spec, ImplementsSocketNames, Names!Spec

=============================================================================
