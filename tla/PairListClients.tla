--------------------------- MODULE PairListClients ---------------------------
(***************************************************************************)
(* PairList with a bounded number of clients, for the liveness properties: *)
(* pthread mutexes are not fair, so a thread may wait for ever while other *)
(* threads serve an endless stream of clients; with MaxClients clients it  *)
(* must get its turn.                                                      *)
(***************************************************************************)
EXTENDS PairList

CONSTANT MaxClients          \* bound: the clients that ever come

ASSUME MaxClientsAssumption == MaxClients \in Nat

VARIABLE served              \* the clients taken so far

clientVars == <<vars, served>>

ClientsInit == Init /\ served = 0

ClientsNext ==
  \/ \E t \in Thread :
       /\ served < MaxClients
       /\ ServeClient(t)
       /\ served' = served + 1
  \/ /\ \/ \E t \in Thread :
             Progress(t) \/ AcceptReturns(t) \/ UseReturns(t) \/ JunkCrash(t)
        \/ Stopped
     /\ UNCHANGED served
  \/ /\ served = MaxClients
     /\ \A t \in Thread : pc[t] = "idle"
     /\ UNCHANGED clientVars

ClientsSpec ==
  /\ ClientsInit
  /\ [][ClientsNext]_clientVars
  /\ \A t \in Thread : WF_clientVars(Progress(t) /\ UNCHANGED served)

\* A thread gives the mutex back, whatever the other threads do, unless the
\* server ends first.
MutexReleased ==
  \A t \in Thread : pair_mutex = t ~> (pair_mutex # t \/ server # "up")

\* Every command is answered (or the server ends) even while every other
\* thread is blocked in accept or in a system call on a silent peer; it may
\* only block there itself.
Blocked(t) == pc[t] \in {"accept_wait", "use_io"}

CommandsAnswered ==
  \A t \in Thread :
    pc[t] # "idle" ~> (pc[t] \in {"idle", "done"} \/ Blocked(t) \/ server # "up")

=============================================================================
