------------------------------ MODULE PairList ------------------------------
(***************************************************************************)
(* The socket registry of a ptnio server (ptnio/server): the list of       *)
(* id_socket_pair, the mutex that guards it, the memory the pairs live in, *)
(* the descriptors they own, and the server threads that run the commands  *)
(* new, free (and its alias close), accept, list, exit and the commands    *)
(* that look a pair up and then use its socket (bind, listen, connect,     *)
(* recv, send, nms_recv, nms_send, info, poll: command "use").             *)
(*                                                                         *)
(* A command is cut where another thread can get in between: at each       *)
(* acquisition and release of pair_mutex, at each system call that changes *)
(* or may block on a descriptor, and where a pair is read outside the      *)
(* mutex.  A critical section that makes no blocking call is one step.     *)
(*                                                                         *)
(* pair_list below is what the code sees through pair_count, so the code's *)
(* pair_count is Len(pair_list).  A slot counted but never written holds   *)
(* Junk (server_add_pair counts the slot before realloc, and keeps it      *)
(* counted when realloc fails).                                            *)
(***************************************************************************)
EXTENDS Naturals, FiniteSets, Sequences, SequencesExt

CONSTANTS
  Thread,         \* the server threads (thread_count of -n)
  Id,             \* the socket names clients use
  Addr,           \* the memory cells malloc can return for a pair
  MaxFd,          \* the descriptors are 1..MaxFd
  Cmds,           \* the commands clients send
  MaxJunk,        \* bound: the failed reallocs the list still counts; with 0,
                  \* allocations only fail when every cell is taken
  None,           \* no thread, no name, the null pointer
  Junk            \* the content of a slot that was never written

AllCmds == {"new", "free", "accept", "use", "list", "exit"}

ASSUME ConstantsAssumption ==
  /\ None \notin Thread \cup Id \cup Addr
  /\ Junk \notin Addr
  /\ MaxFd \in Nat
  /\ Cmds \subseteq AllCmds
  /\ MaxJunk \in Nat

Fd    == 1..MaxFd
BadFd == 0                     \* names no descriptor: -1, or garbage
Codes == {"SUCCESS", "OVERWRITTEN", "NOT_FOUND", "NETWORK_ERROR",
          "OUT_OF_MEMORY", "INTERNAL_ERROR"}

\* A client's command: id is argv[1], new the name an accepted socket gets
\* (argv[2], or "IP:PORT").
Request ==
  { r \in [cmd : Cmds, id : Id \cup {None}, new : Id \cup {None}] :
      /\ r.id  = None  <=> r.cmd \in {"list", "exit"}
      /\ r.new # None  <=> r.cmd = "accept" }

NoRequest == [cmd |-> "none", id |-> None, new |-> None]

\* id_socket_pair, in a memory cell that is allocated (live) or free.
IdSocketPair ==
  [live : BOOLEAN, id : Id \cup {None}, socket : Fd \cup {BadFd}]

VARIABLES
  server,      \* "up", "exited" (exit(0)) or "crashed" (a wild dereference)
  ipc_open,    \* the IPC socket still accepts clients
  pair_mutex,  \* the thread holding pair_mutex, or None
  pair_list,   \* the pairs, as addresses; see above
  heap,        \* heap[a]: the id_socket_pair at address a
  fds,         \* fds[f]: the name socket f was created for, None when closed
  pc,          \* pc[t]: what thread t does next
  loc          \* loc[t]: thread t's locals

vars == <<server, ipc_open, pair_mutex, pair_list, heap, fds, pc, loc>>

PC == {"idle",
       "new_get", "new_shutdown", "new_close", "new_remove", "new_socket",
       "new_add",
       "free_remove", "free_close",
       "accept_get", "accept_block", "accept_wait", "accept_lock",
       "accept_close", "accept_add",
       "use_get", "use_read", "use_io",
       "list_lock", "list_send", "exit_lock", "exit_close", "done"}

\* The code's local variables: the pair looked up (old_pair, listner_pair,
\* pair), its index, the descriptor read from it, the pair being built, and
\* the answer the client gets.
Locals ==
  [req         : Request \cup {NoRequest},
   pair        : Addr \cup {None, Junk},
   index       : Nat,
   socket      : Fd \cup {BadFd},
   new_pair    : Addr \cup {None},
   overwritten : BOOLEAN,
   code        : Codes \cup {"none"}]

NoLocals ==
  [req |-> NoRequest, pair |-> None, index |-> 0, socket |-> BadFd,
   new_pair |-> None, overwritten |-> FALSE, code |-> "none"]

TypeOK ==
  /\ server \in {"up", "exited", "crashed"}
  /\ ipc_open \in BOOLEAN
  /\ pair_mutex \in Thread \cup {None}
  /\ pair_list \in Seq(Addr \cup {Junk})
  /\ heap \in [Addr -> IdSocketPair]
  /\ fds \in [Fd -> Id \cup {None}]
  /\ pc \in [Thread -> PC]
  /\ loc \in [Thread -> Locals]

Init ==
  /\ server = "up"
  /\ ipc_open = TRUE
  /\ pair_mutex = None
  /\ pair_list = <<>>
  /\ heap = [a \in Addr |-> [live |-> FALSE, id |-> None, socket |-> BadFd]]
  /\ fds = [f \in Fd |-> None]
  /\ pc = [t \in Thread |-> "idle"]
  /\ loc = [t \in Thread |-> NoLocals]

-----------------------------------------------------------------------------
(* The helpers of server_cmd_utils.c.                                      *)

At(t, label) == server = "up" /\ pc[t] = label
Goto(t, label) == pc' = [pc EXCEPT ![t] = label]

\* send_code(code) and return: the handler's locals are gone.
Reply(t, code) ==
  /\ Goto(t, "done")
  /\ loc' = [loc EXCEPT ![t] =
               [NoLocals EXCEPT !.req = loc[t].req, !.code = code]]

\* Mutant of Unlocked: the mutex is not taken.
NotLocking == TRUE

\* The critical sections that block on nothing take and release the mutex
\* in one step.
Unlocked == pair_mutex = None

Wild(k)      == pair_list[k] = Junk
Named(k, id) == ~Wild(k) /\ heap[pair_list[k]].id = id

\* Mutant of Finds: the names are not compared.
FindsAny(id, k) == k \in DOMAIN pair_list /\ k = 1 /\ ~Wild(k)

\* server_get_pair_unlocked returns slot k for id: the first match.
Finds(id, k) ==
  /\ k \in DOMAIN pair_list
  /\ Named(k, id)
  /\ \A j \in 1..(k - 1) : ~Named(j, id)

Misses(id) == \A k \in DOMAIN pair_list : ~Named(k, id)

\* Reading a pair outside the mutex: a pair freed meanwhile still shows its
\* descriptor or shows garbage (the allocator reuses the cell).
SocketsOf(a) == {heap[a].socket} \cup (IF heap[a].live THEN {} ELSE {BadFd})

\* socket() and accept() return the lowest free descriptor.
LowestFree(f) == fds[f] = None /\ \A g \in 1..(f - 1) : fds[g] # None

\* close(): closing BadFd, or a descriptor already closed, changes nothing.
Closed(f) == [g \in Fd |-> IF g = f THEN None ELSE fds[g]]

Freed(a) == [heap EXCEPT ![a].live = FALSE]

\* malloc and the initialisation of the pair nobody else knows yet.
NewPair(t, id, f) ==
  \E a \in Addr :
    /\ ~heap[a].live
    /\ heap' = [heap EXCEPT ![a] = [live |-> TRUE, id |-> id, socket |-> f]]
    /\ loc' = [loc EXCEPT ![t].new_pair = a]

MallocFails == MaxJunk > 0 \/ \A a \in Addr : heap[a].live

\* Mutant of RemovePair: the memmove moves nothing, the last slot is cut off.
RemovePairNoShift(k) ==
  IF k \in DOMAIN pair_list
  THEN /\ heap' = [a \in Addr |-> IF a = pair_list[k]
                                  THEN [heap[a] EXCEPT !.live = FALSE]
                                  ELSE heap[a]]
       /\ pair_list' = Front(pair_list)
  ELSE UNCHANGED <<heap, pair_list>>

\* server_remove_pair_unlocked: free the pair, shift the next ones left; an
\* index out of bounds is ignored.
RemovePair(k) ==
  IF k \in DOMAIN pair_list
  THEN /\ heap' = [a \in Addr |-> IF a = pair_list[k]
                                  THEN [heap[a] EXCEPT !.live = FALSE]
                                  ELSE heap[a]]
       /\ pair_list' = RemoveAt(pair_list, k)
  ELSE UNCHANGED <<heap, pair_list>>

\* server_add_pair, when realloc succeeds.
AddPair(a) == pair_list' = Append(pair_list, a)

\* server_add_pair, when it fails: pair_count was incremented all the same.
AddPairFails ==
  /\ Cardinality({k \in DOMAIN pair_list : Wild(k)}) < MaxJunk
  /\ pair_list' = Append(pair_list, Junk)

-----------------------------------------------------------------------------
(* server_thread: take a client and its command, dispatch it.              *)

\* Mutant of Entry: the alias of free has no handler.
EntryUnhandled(cmd) == IF cmd = "free" THEN "close_remove" ELSE "list_lock"

Entry(cmd) ==
  CASE cmd = "new"    -> "new_get"
    [] cmd = "free"   -> "free_remove"
    [] cmd = "accept" -> "accept_get"
    [] cmd = "use"    -> "use_get"
    [] cmd = "list"   -> "list_lock"
    [] cmd = "exit"   -> "exit_lock"

ServeClient(t) ==
  /\ At(t, "idle")
  /\ ipc_open
  /\ \E r \in Request :
       /\ loc' = [loc EXCEPT ![t].req = r]
       /\ Goto(t, Entry(r.cmd))
  /\ UNCHANGED <<server, ipc_open, pair_mutex, pair_list, heap, fds>>

\* znsock_ipc_close, message_free, back to accepting clients.
EndRequest(t) ==
  /\ At(t, "done")
  /\ Goto(t, "idle")
  /\ loc' = [loc EXCEPT ![t] = NoLocals]
  /\ UNCHANGED <<server, ipc_open, pair_mutex, pair_list, heap, fds>>

\* Mutant of GetPair: the index is one too low.
GetPairOffByOne(t, id, found, OnMiss) ==
  /\ Unlocked
  /\ \/ \E k \in DOMAIN pair_list :
          /\ Finds(id, k)
          /\ loc' = [loc EXCEPT ![t].pair = pair_list[k], ![t].index = k - 1]
          /\ Goto(t, found)
     \/ Misses(id) /\ OnMiss
  /\ UNCHANGED <<server, ipc_open, pair_mutex, pair_list, heap, fds>>

\* server_get_pair: look the name up under the mutex, keep the pointer and
\* the index after the mutex is released.
GetPair(t, id, found, OnMiss) ==
  /\ Unlocked
  /\ \/ \E k \in DOMAIN pair_list :
          /\ Finds(id, k)
          /\ loc' = [loc EXCEPT ![t].pair = pair_list[k], ![t].index = k]
          /\ Goto(t, found)
     \/ Misses(id) /\ OnMiss
  /\ UNCHANGED <<server, ipc_open, pair_mutex, pair_list, heap, fds>>

-----------------------------------------------------------------------------
(* new sock_id                                                             *)

NewGetPair(t) ==
  /\ At(t, "new_get")
  /\ GetPair(t, loc[t].req.id, "new_shutdown",
             Goto(t, "new_socket") /\ UNCHANGED loc)

\* znsock_close(old_pair->socket, true), first half: read the descriptor,
\* shut it down, poll for up to ZNSOCK_CLOSE_TIMEOUT.  The mutex is free.
NewShutdown(t) ==
  /\ At(t, "new_shutdown")
  /\ \E s \in SocketsOf(loc[t].pair) : loc' = [loc EXCEPT ![t].socket = s]
  /\ Goto(t, "new_close")
  /\ UNCHANGED <<server, ipc_open, pair_mutex, pair_list, heap, fds>>

\* znsock_close, second half: close().
NewClose(t) ==
  /\ At(t, "new_close")
  /\ fds' = Closed(loc[t].socket)
  /\ Goto(t, "new_remove")
  /\ UNCHANGED <<server, ipc_open, pair_mutex, pair_list, heap, loc>>

\* server_remove_pair(data, old_pair_index): by the index found earlier.
NewRemove(t) ==
  /\ At(t, "new_remove")
  /\ Unlocked
  /\ RemovePair(loc[t].index)
  /\ loc' = [loc EXCEPT ![t].overwritten = TRUE]
  /\ Goto(t, "new_socket")
  /\ UNCHANGED <<server, ipc_open, pair_mutex, fds>>

\* socket() and malloc.
NewSocket(t) ==
  /\ At(t, "new_socket")
  /\ \/ Reply(t, "NETWORK_ERROR") /\ UNCHANGED <<heap, fds>>
     \/ /\ \E f \in Fd : LowestFree(f)
        /\ MallocFails
        /\ Reply(t, "OUT_OF_MEMORY")
        /\ UNCHANGED <<heap, fds>>
     \/ \E f \in Fd :
          /\ LowestFree(f)
          /\ NewPair(t, loc[t].req.id, f)
          /\ fds' = [fds EXCEPT ![f] = loc[t].req.id]
          /\ Goto(t, "new_add")
  /\ UNCHANGED <<server, ipc_open, pair_mutex, pair_list>>

\* Mutant of AddCode: an overwritten socket is not reported.
AddCodeSuccess(t) == "SUCCESS"

AddCode(t) == IF loc[t].overwritten THEN "OVERWRITTEN" ELSE "SUCCESS"

NewAdd(t) ==
  /\ At(t, "new_add")
  /\ Unlocked
  /\ \/ /\ AddPair(loc[t].new_pair)
        /\ Reply(t, AddCode(t))
        /\ UNCHANGED <<heap, fds>>
     \/ /\ AddPairFails
        /\ Reply(t, "OUT_OF_MEMORY")
        /\ fds' = Closed(heap[loc[t].new_pair].socket)
        /\ heap' = Freed(loc[t].new_pair)
  /\ UNCHANGED <<server, ipc_open, pair_mutex>>

-----------------------------------------------------------------------------
(* free sock_id (close sock_id)                                            *)

\* Mutant of FreeRemove: an unknown name is looked up again and again.
FreeRemoveRetries(t) ==
  /\ At(t, "free_remove")
  /\ Unlocked
  /\ \/ \E k \in DOMAIN pair_list :
          /\ Finds(loc[t].req.id, k)
          /\ loc' = [loc EXCEPT ![t].socket = heap[pair_list[k]].socket]
          /\ RemovePair(k)
          /\ Goto(t, "free_close")
     \/ Misses(loc[t].req.id) /\ UNCHANGED <<heap, pair_list, pc, loc>>
  /\ UNCHANGED <<server, ipc_open, pair_mutex, fds>>

\* Look up and remove in one critical section; the socket is closed after it.
FreeRemove(t) ==
  /\ At(t, "free_remove")
  /\ Unlocked
  /\ \/ \E k \in DOMAIN pair_list :
          /\ Finds(loc[t].req.id, k)
          /\ loc' = [loc EXCEPT ![t].socket = heap[pair_list[k]].socket]
          /\ RemovePair(k)
          /\ Goto(t, "free_close")
     \/ /\ Misses(loc[t].req.id)
        /\ Reply(t, "NOT_FOUND")
        /\ UNCHANGED <<heap, pair_list>>
  /\ UNCHANGED <<server, ipc_open, pair_mutex, fds>>

\* Mutant of FreeClose: the socket is not closed.
FreeCloseSkipped(t) ==
  /\ At(t, "free_close")
  /\ Reply(t, "SUCCESS")
  /\ UNCHANGED <<server, ipc_open, pair_mutex, pair_list, heap, fds>>

FreeClose(t) ==
  /\ At(t, "free_close")
  /\ fds' = Closed(loc[t].socket)
  /\ Reply(t, "SUCCESS")
  /\ UNCHANGED <<server, ipc_open, pair_mutex, pair_list, heap>>

-----------------------------------------------------------------------------
(* accept listner_sock_id [new_sock_id]                                    *)

AcceptGetPair(t) ==
  /\ At(t, "accept_get")
  /\ GetPair(t, loc[t].req.id, "accept_block", Reply(t, "NOT_FOUND"))

\* accept(listner_pair->socket): the descriptor is read here; accept fails at
\* once on a closed one, and otherwise blocks.
AcceptBlock(t) ==
  /\ At(t, "accept_block")
  /\ \E s \in SocketsOf(loc[t].pair) :
       IF s \in Fd /\ fds[s] # None
       THEN Goto(t, "accept_wait") /\ loc' = [loc EXCEPT ![t].socket = s]
       ELSE Reply(t, "NETWORK_ERROR")
  /\ UNCHANGED <<server, ipc_open, pair_mutex, pair_list, heap, fds>>

\* A connection arrives, or accept fails; then addr_to_str and malloc, whose
\* failures close the accepted socket.
AcceptReturns(t) ==
  /\ At(t, "accept_wait")
  /\ \/ Reply(t, "NETWORK_ERROR") /\ UNCHANGED <<heap, fds>>
     \/ /\ \E f \in Fd : LowestFree(f)
        /\ \/ Reply(t, "INTERNAL_ERROR")
           \/ MallocFails /\ Reply(t, "OUT_OF_MEMORY")
        /\ UNCHANGED <<heap, fds>>
     \/ \E f \in Fd :
          /\ LowestFree(f)
          /\ NewPair(t, loc[t].req.new, f)
          /\ fds' = [fds EXCEPT ![f] = loc[t].req.new]
          /\ Goto(t, "accept_lock")
  /\ UNCHANGED <<server, ipc_open, pair_mutex, pair_list>>

\* Mutant of AcceptLock: the mutex is released before the old pair is closed.
AcceptLockReleased(t) ==
  /\ At(t, "accept_lock")
  /\ Unlocked
  /\ \/ \E k \in DOMAIN pair_list :
          /\ Finds(loc[t].req.new, k)
          /\ loc' = [loc EXCEPT ![t].pair = pair_list[k], ![t].index = k,
                                ![t].overwritten = TRUE]
          /\ Goto(t, "accept_close")
     \/ /\ Misses(loc[t].req.new)
        /\ loc' = [loc EXCEPT ![t].pair = None]
        /\ Goto(t, "accept_add")
  /\ UNCHANGED <<server, ipc_open, pair_mutex, pair_list, heap, fds>>

\* Look the new name up; keep the mutex only to replace a pair of that name.
AcceptLock(t) ==
  /\ At(t, "accept_lock")
  /\ Unlocked
  /\ \/ \E k \in DOMAIN pair_list :
          /\ Finds(loc[t].req.new, k)
          /\ loc' = [loc EXCEPT ![t].pair = pair_list[k], ![t].index = k,
                                ![t].overwritten = TRUE]
          /\ pair_mutex' = t
          /\ Goto(t, "accept_close")
     \/ /\ Misses(loc[t].req.new)
        /\ loc' = [loc EXCEPT ![t].pair = None]
        /\ Goto(t, "accept_add")
        /\ UNCHANGED pair_mutex
  /\ UNCHANGED <<server, ipc_open, pair_list, heap, fds>>

\* znsock_close(old_pair->socket, true) with the mutex held, for as long as
\* the graceful close takes; then remove the pair and unlock.
AcceptClose(t) ==
  /\ At(t, "accept_close")
  /\ fds' = Closed(heap[loc[t].pair].socket)
  /\ RemovePair(loc[t].index)
  /\ pair_mutex' = None
  /\ Goto(t, "accept_add")
  /\ UNCHANGED <<server, ipc_open, loc>>

\* server_add_pair in a critical section of its own.  When it fails the code
\* closes old_pair's socket (not the accepted one), through a pair already
\* freed or a null pointer.
AcceptAdd(t) ==
  /\ At(t, "accept_add")
  /\ Unlocked
  /\ \/ /\ AddPair(loc[t].new_pair)
        /\ Reply(t, AddCode(t))
        /\ UNCHANGED <<server, heap, fds>>
     \/ /\ AddPairFails
        /\ loc[t].overwritten
        /\ \E s \in SocketsOf(loc[t].pair) : fds' = Closed(s)
        /\ heap' = Freed(loc[t].new_pair)
        /\ Reply(t, "OUT_OF_MEMORY")
        /\ UNCHANGED server
     \/ /\ AddPairFails
        /\ ~loc[t].overwritten
        /\ server' = "crashed"
        /\ UNCHANGED <<heap, fds, pc, loc>>
  /\ UNCHANGED <<ipc_open, pair_mutex>>

-----------------------------------------------------------------------------
(* bind, listen, connect, recv, send, nms_recv, nms_send, info, poll       *)

UseGetPair(t) ==
  /\ At(t, "use_get")
  /\ GetPair(t, loc[t].req.id, "use_read", Reply(t, "NOT_FOUND"))

\* The system call on pair->socket: the mutex is free since the lookup.
UseRead(t) ==
  /\ At(t, "use_read")
  /\ \E s \in SocketsOf(loc[t].pair) : loc' = [loc EXCEPT ![t].socket = s]
  /\ Goto(t, "use_io")
  /\ UNCHANGED <<server, ipc_open, pair_mutex, pair_list, heap, fds>>

\* The call returns (it may never do: recv on a silent peer) and is answered.
UseReturns(t) ==
  /\ At(t, "use_io")
  /\ \E code \in {"SUCCESS", "NETWORK_ERROR"} : Reply(t, code)
  /\ UNCHANGED <<server, ipc_open, pair_mutex, pair_list, heap, fds>>

-----------------------------------------------------------------------------
(* list, exit                                                              *)

ListLock(t) ==
  /\ At(t, "list_lock")
  /\ Unlocked
  /\ pair_mutex' = t
  /\ Goto(t, "list_send")
  /\ loc' = [loc EXCEPT ![t].index = 1]
  /\ UNCHANGED <<server, ipc_open, pair_list, heap, fds>>

\* Mutant of ListSend: after the last pair the loop begins again.
ListSendForever(t) ==
  /\ At(t, "list_send")
  /\ loc' = [loc EXCEPT ![t].index = IF @ \in DOMAIN pair_list THEN @ + 1 ELSE 1]
  /\ UNCHANGED <<pair_mutex, pc>>
  /\ UNCHANGED <<server, ipc_open, pair_list, heap, fds>>

\* One nms_send per pair, each of which waits for the client to read, with
\* the mutex held; then unlock and send the empty packet.
ListSend(t) ==
  /\ At(t, "list_send")
  /\ \/ /\ loc[t].index \in DOMAIN pair_list
        /\ loc' = [loc EXCEPT ![t].index = @ + 1]
        /\ UNCHANGED <<pair_mutex, pc>>
     \/ /\ loc[t].index \notin DOMAIN pair_list
        /\ pair_mutex' = None
        /\ Reply(t, "SUCCESS")
  /\ UNCHANGED <<server, ipc_open, pair_list, heap, fds>>

\* exit takes the mutex for good and closes the IPC socket.
ExitLock(t) ==
  /\ At(t, "exit_lock")
  /\ Unlocked
  /\ pair_mutex' = t
  /\ ipc_open' = FALSE
  /\ Goto(t, "exit_close")
  /\ UNCHANGED <<server, pair_list, heap, fds, loc>>

\* Close and remove the first pair, until none is left; then exit(0).
ExitClose(t) ==
  /\ At(t, "exit_close")
  /\ \/ /\ pair_list # <<>>
        /\ ~Wild(1)
        /\ fds' = Closed(heap[pair_list[1]].socket)
        /\ RemovePair(1)
        /\ UNCHANGED server
     \/ /\ pair_list = <<>>
        /\ server' = "exited"
        /\ UNCHANGED <<fds, heap, pair_list>>
  /\ UNCHANGED <<ipc_open, pair_mutex, pc, loc>>

-----------------------------------------------------------------------------
\* A thread that reads a Junk slot as a pair stops the whole server: a scan
\* that has not found its name before the slot, list, exit, and the removal
\* of the slot.
Scanned(t) ==
  CASE pc[t] \in {"new_get", "free_remove", "accept_get", "use_get"}
         -> loc[t].req.id
    [] pc[t] = "accept_lock" -> loc[t].req.new
    [] OTHER -> None

ReadsJunk(t) ==
  \E k \in DOMAIN pair_list :
    /\ Wild(k)
    /\ \/ /\ Scanned(t) # None
          /\ Unlocked
          /\ \A j \in 1..(k - 1) : ~Named(j, Scanned(t))
       \/ pc[t] = "list_send" /\ loc[t].index = k
       \/ pc[t] = "exit_close" /\ k = 1
       \/ pc[t] = "new_remove" /\ Unlocked /\ loc[t].index = k

JunkCrash(t) ==
  /\ server = "up"
  /\ ReadsJunk(t)
  /\ server' = "crashed"
  /\ UNCHANGED <<ipc_open, pair_mutex, pair_list, heap, fds, pc, loc>>

-----------------------------------------------------------------------------
\* The steps a thread takes without waiting for a peer or for a client to
\* come: the kernel schedules the thread, a graceful close times out, and a
\* client reads its answers to the end.
Progress(t) ==
  \/ EndRequest(t)
  \/ NewGetPair(t) \/ NewShutdown(t) \/ NewClose(t) \/ NewRemove(t)
  \/ NewSocket(t) \/ NewAdd(t)
  \/ FreeRemove(t) \/ FreeClose(t)
  \/ AcceptGetPair(t) \/ AcceptBlock(t) \/ AcceptLock(t) \/ AcceptClose(t)
  \/ AcceptAdd(t)
  \/ UseGetPair(t) \/ UseRead(t)
  \/ ListLock(t) \/ ListSend(t)
  \/ ExitLock(t) \/ ExitClose(t)

Step(t) ==
  \/ Progress(t)
  \/ ServeClient(t) \/ AcceptReturns(t) \/ UseReturns(t)
  \/ JunkCrash(t)

\* A server that exited or crashed stays so.
Stopped == server # "up" /\ UNCHANGED vars

Next == (\E t \in Thread : Step(t)) \/ Stopped

Spec == Init /\ [][Next]_vars

-----------------------------------------------------------------------------
(* Properties of a server with any number of threads.                      *)

Building(t) == pc[t] \in {"new_add", "accept_lock", "accept_close",
                          "accept_add"}

\* Memory safety of the list: whatever the interleaving, no pair is listed
\* twice, every listed pair is allocated, and a pair being built is allocated,
\* known to one thread only and not listed yet.  (server_add_pair and
\* server_remove_pair are called with pointers and indexes found earlier.)
ListSound ==
  /\ \A j, k \in DOMAIN pair_list :
       pair_list[j] = pair_list[k] /\ ~Wild(j) => j = k
  /\ \A k \in DOMAIN pair_list : ~Wild(k) => heap[pair_list[k]].live
  /\ \A t \in Thread : Building(t) =>
       /\ loc[t].new_pair \in Addr
       /\ heap[loc[t].new_pair].live
       /\ \A k \in DOMAIN pair_list : pair_list[k] # loc[t].new_pair
  /\ \A t, u \in Thread :
       Building(t) /\ Building(u) /\ t # u => loc[t].new_pair # loc[u].new_pair

\* accept removes the pair it looked up: it keeps the mutex from the lookup
\* to the removal, so its index still points to that pair and the pair still
\* has the requested name (NOTE of server_remove_pair).
LockedIndexValid ==
  \A t \in Thread : pc[t] = "accept_close" =>
    /\ pair_mutex = t
    /\ loc[t].index \in DOMAIN pair_list
    /\ pair_list[loc[t].index] = loc[t].pair
    /\ loc[t].pair \in Addr => heap[loc[t].pair].id = loc[t].req.new

\* A listing is of one moment: nothing is added to or removed from the list
\* between its first and its last name.
ListingStable ==
  [][\A t \in Thread :
       pc[t] = "list_send" /\ pc'[t] = "list_send" => UNCHANGED pair_list]_vars

-----------------------------------------------------------------------------
(* Properties the code keeps with one thread (-t:1).                       *)

\* new frees the pair it found, and no other: the index it kept over the
\* graceful close still points to that pair (NOTE of server_remove_pair).
NewRemovesOldPair ==
  [][\A t \in Thread :
       pc[t] = "new_remove" /\ pc'[t] = "new_socket" =>
         \A a \in Addr :
           heap[a].live /\ ~heap'[a].live => a = loc[t].pair]_vars

\* A command's system call acts on an open socket of the name it was asked for.
UsesNamedSocket ==
  [][\A t \in Thread :
       pc[t] = "use_read" /\ pc'[t] = "use_io" =>
         /\ loc'[t].socket \in Fd
         /\ fds[loc'[t].socket] = loc[t].req.id]_vars

\* Between commands, as long as no realloc failed, every listed pair owns an
\* open socket of its own name, and no socket is open that is not listed: new,
\* free and accept neither leak a descriptor nor leave a closed one behind.
Quiet == \A t \in Thread : pc[t] \in {"idle", "done"}

SocketsMatchList ==
  server = "up" /\ Quiet /\ (\A k \in DOMAIN pair_list : ~Wild(k)) =>
    /\ \A k \in DOMAIN pair_list :
         LET p == heap[pair_list[k]] IN p.socket \in Fd /\ fds[p.socket] = p.id
    /\ \A f \in Fd : fds[f] # None =>
         \E k \in DOMAIN pair_list : heap[pair_list[k]].socket = f

\* The registry implements SocketNames: every command changes its own name
\* only, and its answer says what happened to it.
NamesListed == {id \in Id : \E k \in DOMAIN pair_list : Named(k, id)}
Asked       == [t \in Thread |-> loc[t].req]
Answered    == [t \in Thread |-> loc[t].code]
GaveUp      == [t \in Thread |->
                  \/ pc[t] = "free_close"
                  \/ loc[t].overwritten /\ pc[t] # "accept_close"]

Names == INSTANCE SocketNames WITH
  Worker  <- Thread,
  Name    <- Id,
  names   <- NamesListed,
  asked   <- Asked,
  dropped <- GaveUp,
  answer  <- Answered

ImplementsSocketNames == Names!Spec

=============================================================================
