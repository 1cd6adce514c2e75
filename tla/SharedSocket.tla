---------------------------- MODULE SharedSocket ----------------------------
(***************************************************************************)
(* Several server threads running recv, send, nms_recv and nms_send on one *)
(* network socket (server_cmd_tcp.c, server_cmd_nms.c).  The handlers take *)
(* no lock: they share the socket's stream in, its stream out and the      *)
(* O_NONBLOCK flag, which recv sets and resets for all of them.            *)
(*                                                                         *)
(* Bytes are numbered: those that arrive by their place in Inbound, those  *)
(* a handler sends by their place in all it has to send.  The client of a  *)
(* handler is only what goes to it and whether it is gone; module Session  *)
(* has the dialogue with it.                                               *)
(***************************************************************************)
EXTENDS Integers, Sequences, Nms

CONSTANTS
  Handler,      \* the threads that serve a command on the socket
  Jobs,         \* the commands they may run
  Inbound,      \* bound: the bytes the network peer sends
  Chunk,        \* the size of recv's buffer (0xFFFF)
  Count,        \* the <count> of recv, less than Chunk
  Packets,      \* bound: the packets a client has to send, at least one
  PacketLength, \* the bytes in each of them
  Room,         \* the bytes the kernel keeps for a peer that does not read
  Garbage       \* the lengths nms_recv may make up of unset bytes

\* recv without arguments, recv 0 <count>, recv 1 <count>.
NonBlocking == {"drain", "nonblocking"}
RecvJobs    == NonBlocking \cup {"blocking"}
Receivers   == RecvJobs \cup {"nms_recv"}
Senders     == {"send", "nms_send"}

ASSUME SharedSocketAssumption ==
  /\ Jobs \subseteq Receivers \cup Senders
  /\ Inbound \in Seq(Byte)
  /\ Count \in Nat \ {0} /\ Chunk \in Nat /\ Count < Chunk
  /\ Packets \in Nat \ {0} /\ PacketLength \in Nat \ {0} /\ Room \in Nat \ {0}
  /\ Garbage \subseteq Uint16

VARIABLES
  job,       \* the command of each handler
  pc,        \* where each handler is
  local,     \* its variables and those of the system call it is in
  gone,      \* the handlers that found their client killed
  stdout,    \* what each handler sent to its client
  blocking,  \* the socket's mode: O_NONBLOCK is not set
  arrived,   \* the bytes that arrived
  taken,     \* the bytes taken from them by recv(2)
  peer,      \* "open", or "closed"
  out,       \* the bytes accepted by send(2): <<handler, place>>
  unread     \* how many of them the peer has not read

vars == <<job, pc, local, gone, stdout, blocking, arrived, taken, peer, out, unread>>

Locals ==
  [wait : BOOLEAN,             \* the system call waits
   head : BOOLEAN,             \* it is about the head of an NMS packet
   want : Nat,                 \* the bytes asked of recv(2)
   buf  : Seq(1..Len(Inbound)),              \* the bytes it has taken
   fail : BOOLEAN,             \* it returned -1
   packets : 0..Packets,       \* the packets the client still has
   left : 0..(PacketLength + 2),             \* the bytes send(2) still has to put
   pos  : Nat,                 \* the bytes given to send(2) so far
   acked : Nat]                \* the bytes the client was told are sent

Labels == {"setup", "recv", "receiving", "received", "reset",
           "packet", "send", "sending", "sent", "done"}

TypeOK ==
  /\ job \in [Handler -> Jobs]
  /\ pc \in [Handler -> Labels]
  /\ local \in [Handler -> Locals]
  /\ gone \subseteq Handler
  /\ stdout \in [Handler -> Seq(1..Len(Inbound))]
  /\ blocking \in BOOLEAN
  /\ arrived \in 0..Len(Inbound)
  /\ taken \in 0..arrived
  /\ peer \in {"open", "closed"}
  /\ out \in Seq(Handler \X (Nat \ {0}))
  /\ unread \in 0..Room

Init ==
  /\ job \in [Handler -> Jobs]
  /\ pc = [h \in Handler |-> IF job[h] \in Receivers THEN "setup" ELSE "packet"]
  /\ local = [h \in Handler |->
       [wait |-> FALSE, head |-> FALSE, want |-> 0, buf |-> <<>>, fail |-> FALSE,
        packets |-> Packets, left |-> 0, pos |-> 0, acked |-> 0]]
  /\ gone = {}
  /\ stdout = [h \in Handler |-> <<>>]
  /\ blocking = TRUE
  /\ arrived = 0 /\ taken = 0
  /\ peer = "open"
  /\ out = <<>> /\ unread = 0

At(h, label) == pc[h] = label
Goto(h, label) == pc' = [pc EXCEPT ![h] = label]

InUnchanged  == UNCHANGED <<arrived, taken>>
OutUnchanged == UNCHANGED <<out, unread>>
OthersUnchanged == UNCHANGED <<job, peer>>

-----------------------------------------------------------------------------
(* recv(2) with MSG_WAITALL (znsock_recv) or without: the flag is read when *)
(* the call begins, and a call that waits takes what comes bit by bit.      *)

WaitAll(h) == job[h] \in {"blocking", "nms_recv"}
Waits(h) == local[h].wait /\ WaitAll(h)

RecvCall(h) ==
  /\ At(h, "recv")
  /\ local' = [local EXCEPT ![h] = [@ EXCEPT !.wait = blocking, !.buf = <<>>, !.fail = FALSE]]
  /\ Goto(h, "receiving")
  /\ UNCHANGED <<stdout, gone, blocking>> /\ InUnchanged /\ OutUnchanged /\ OthersUnchanged

Smaller(m, n) == IF m < n THEN m ELSE n

Takes(h) ==
  /\ At(h, "receiving")
  /\ taken < arrived
  /\ LET want == local[h].want - Len(local[h].buf)
         n    == Smaller(want, arrived - taken)
         more == Waits(h) /\ n < want
         buf  == local[h].buf \o [i \in 1..n |-> taken + i]
     IN  /\ local' = [local EXCEPT ![h] = [@ EXCEPT !.buf = buf, !.wait = more]]
         /\ taken' = taken + n
         /\ IF more THEN UNCHANGED pc ELSE Goto(h, "received")
  /\ UNCHANGED <<stdout, gone, blocking, arrived>> /\ OutUnchanged /\ OthersUnchanged

\* Nothing to take: the stream has ended, or the call does not wait.
TakesNothing(h) ==
  /\ At(h, "receiving")
  /\ taken = arrived
  /\ peer = "closed" \/ ~local[h].wait
  /\ local' = [local EXCEPT ![h] = [@ EXCEPT !.fail = peer # "closed", !.wait = FALSE]]
  /\ Goto(h, "received")
  /\ UNCHANGED <<stdout, gone, blocking>> /\ InUnchanged /\ OutUnchanged /\ OthersUnchanged

-----------------------------------------------------------------------------
(* server_cmd_recv                                                         *)

\* Mutant of Setup: recv without arguments is left blocking.
SetupNever(h) ==
  /\ At(h, "setup")
  /\ blocking' = IF job[h] = "nonblocking" THEN FALSE ELSE blocking
  /\ local' = [local EXCEPT ![h] = [@ EXCEPT
       !.want = CASE job[h] = "drain" -> Chunk [] job[h] = "nms_recv" -> 2
                     [] OTHER -> Count,
       !.head = job[h] = "nms_recv"]]
  /\ Goto(h, "recv")
  /\ UNCHANGED <<stdout, gone>> /\ InUnchanged /\ OutUnchanged /\ OthersUnchanged

\* Up to the first receive, nms_recv's included.
Setup(h) ==
  /\ At(h, "setup")
  /\ blocking' = IF job[h] \in NonBlocking THEN FALSE ELSE blocking
  /\ local' = [local EXCEPT ![h] = [@ EXCEPT
       !.want = CASE job[h] = "drain" -> Chunk [] job[h] = "nms_recv" -> 2
                     [] OTHER -> Count,
       !.head = job[h] = "nms_recv"]]
  /\ Goto(h, "recv")
  /\ UNCHANGED <<stdout, gone>> /\ InUnchanged /\ OutUnchanged /\ OthersUnchanged

\* nms_send to the client, which was killed in the meantime or was not.
ToClient(h) ==
  \/ stdout' = [stdout EXCEPT ![h] = @ \o local[h].buf] /\ UNCHANGED gone
  \/ gone' = gone \cup {h} /\ UNCHANGED stdout

\* Mutant of Deliver: a receive of less than was asked for is an error.
DeliverWhole(h) ==
  /\ At(h, "received") /\ job[h] \in RecvJobs
  /\ IF local[h].fail \/ Len(local[h].buf) < local[h].want THEN UNCHANGED <<stdout, gone>> ELSE ToClient(h)
  /\ Goto(h, IF \/ job[h] # "drain" \/ local[h].fail
                \/ local[h].buf = <<>> \/ h \in gone'
             THEN "reset" ELSE "recv")
  /\ UNCHANGED <<local, blocking>> /\ InUnchanged /\ OutUnchanged /\ OthersUnchanged

\* Mutant of Deliver: without its client the handler returns at once.
DeliverOrReturn(h) ==
  /\ At(h, "received") /\ job[h] \in RecvJobs
  /\ IF local[h].fail THEN UNCHANGED <<stdout, gone>> ELSE ToClient(h)
  /\ Goto(h, CASE h \in gone' -> "done"
               [] \/ job[h] # "drain" \/ local[h].fail \/ local[h].buf = <<>> -> "reset"
               [] OTHER -> "recv")
  /\ UNCHANGED <<local, blocking>> /\ InUnchanged /\ OutUnchanged /\ OthersUnchanged

\* What was received goes to the client.  recv without arguments goes on until
\* it fails or the stream ends, the others receive once (Count < Chunk).
Deliver(h) ==
  /\ At(h, "received") /\ job[h] \in RecvJobs
  /\ IF local[h].fail THEN UNCHANGED <<stdout, gone>> ELSE ToClient(h)
  /\ Goto(h, IF \/ job[h] # "drain" \/ local[h].fail
                \/ local[h].buf = <<>> \/ h \in gone'
             THEN "reset" ELSE "recv")
  /\ UNCHANGED <<local, blocking>> /\ InUnchanged /\ OutUnchanged /\ OthersUnchanged

\* reset_socket
Reset(h) ==
  /\ At(h, "reset")
  /\ blocking' = TRUE
  /\ Goto(h, "done")
  /\ UNCHANGED <<local, stdout, gone>> /\ InUnchanged /\ OutUnchanged /\ OthersUnchanged

-----------------------------------------------------------------------------
(* server_cmd_nms_recv                                                     *)

\* The length of the packet: nms_recv takes any return but -1 for two bytes.
HeadLengths(h) ==
  LET buf == local[h].buf
  IN  IF Len(buf) = 2
      THEN {Length(<<Inbound[buf[1]], Inbound[buf[2]]>>)}
      ELSE Garbage

\* The third alternative is an error, or malloc's failure.
NmsHeadReceived(h) ==
  /\ At(h, "received") /\ job[h] = "nms_recv" /\ local[h].head
  /\ \/ /\ ~local[h].fail
        /\ \E n \in HeadLengths(h) \ {0} :
             local' = [local EXCEPT ![h] = [@ EXCEPT !.head = FALSE, !.want = n]]
        /\ Goto(h, "recv")
     \/ /\ ~local[h].fail /\ 0 \in HeadLengths(h)
        /\ Goto(h, "done")
        /\ UNCHANGED local
     \/ Goto(h, "done") /\ UNCHANGED local
  /\ UNCHANGED <<stdout, gone, blocking>> /\ InUnchanged /\ OutUnchanged /\ OthersUnchanged

\* A body that is not whole is thrown away.
NmsBodyReceived(h) ==
  /\ At(h, "received") /\ job[h] = "nms_recv" /\ ~local[h].head
  /\ IF local[h].fail \/ Len(local[h].buf) # local[h].want
     THEN UNCHANGED <<stdout, gone>>
     ELSE ToClient(h)
  /\ Goto(h, "done")
  /\ UNCHANGED <<local, blocking>> /\ InUnchanged /\ OutUnchanged /\ OthersUnchanged

-----------------------------------------------------------------------------
(* server_cmd_send, server_cmd_nms_send                                    *)

\* Mutant of GetPacket: the empty packet does not end the input.
GetPacketOn(h) ==
  /\ At(h, "packet")
  /\ \/ /\ local' = [local EXCEPT ![h] = [@ EXCEPT
             !.packets = local[h].packets - 1, !.head = job[h] = "nms_send",
             !.left = IF job[h] = "nms_send" THEN 2 ELSE PacketLength]]
        /\ Goto(h, "send")
        /\ UNCHANGED gone
     \/ /\ gone' = gone \cup {h}
        /\ Goto(h, "done")
        /\ UNCHANGED local
  /\ UNCHANGED <<stdout, blocking>> /\ InUnchanged /\ OutUnchanged /\ OthersUnchanged

\* The client's next packet; it ends its input with an empty one, unless it is
\* killed.
GetPacket(h) ==
  /\ At(h, "packet")
  /\ \/ /\ local[h].packets > 0
        /\ local' = [local EXCEPT ![h] = [@ EXCEPT
             !.packets = local[h].packets - 1, !.head = job[h] = "nms_send",
             !.left = IF job[h] = "nms_send" THEN 2 ELSE PacketLength]]
        /\ Goto(h, "send")
        /\ UNCHANGED gone
     \/ /\ gone' = IF local[h].packets = 0 THEN gone ELSE gone \cup {h}
        /\ Goto(h, "done")
        /\ UNCHANGED local
  /\ UNCHANGED <<stdout, blocking>> /\ InUnchanged /\ OutUnchanged /\ OthersUnchanged

SendCall(h) ==
  /\ At(h, "send")
  /\ local' = [local EXCEPT ![h] = [@ EXCEPT !.wait = blocking]]
  /\ Goto(h, "sending")
  /\ UNCHANGED <<stdout, gone, blocking>> /\ InUnchanged /\ OutUnchanged /\ OthersUnchanged

\* send(2) puts what there is room for, and waits for more unless the socket
\* was non-blocking: then it returns how much it put, and what is left of the
\* call is never sent, for only -1 is an error to the handlers.
Puts(h) ==
  /\ At(h, "sending")
  /\ peer = "open" /\ unread < Room
  /\ LET left == local[h].left
         n    == Smaller(left, Room - unread)
         done == n = left \/ ~local[h].wait
     IN  /\ out' = out \o [i \in 1..n |-> <<h, local[h].pos + i>>]
         /\ unread' = unread + n
         /\ local' = [local EXCEPT ![h] = [@ EXCEPT
              !.pos  = local[h].pos + (IF done THEN left ELSE n),
              !.left = IF done THEN 0 ELSE left - n,
              !.wait = ~done]]
         /\ IF done THEN Goto(h, "sent") ELSE UNCHANGED pc
  /\ UNCHANGED <<stdout, gone, blocking>> /\ InUnchanged /\ OthersUnchanged

\* send(2) fails, CMD_NETWORK_ERROR; but a call that put something before the
\* connection broke returns how much.
PutsNothing(h) ==
  /\ At(h, "sending")
  /\ \/ peer = "closed"
     \/ unread = Room /\ ~local[h].wait
  /\ \/ Goto(h, "done")
     \/ peer = "closed" /\ Goto(h, "sent")
  /\ local' = [local EXCEPT ![h] = [@ EXCEPT !.left = 0, !.wait = FALSE]]
  /\ UNCHANGED <<stdout, gone, blocking>> /\ InUnchanged /\ OutUnchanged /\ OthersUnchanged

\* Mutant of Sent: nms_send tells its client before the body is sent.
SentHead(h) ==
  /\ At(h, "sent")
  /\ IF local[h].head
     THEN /\ local' = [local EXCEPT ![h] = [@ EXCEPT !.head = FALSE, !.left = PacketLength,
                                    !.acked = local[h].pos + PacketLength]]
          /\ Goto(h, "send")
     ELSE /\ local' = [local EXCEPT ![h] = [@ EXCEPT !.acked = local[h].pos]]
          /\ Goto(h, "packet")
  /\ UNCHANGED <<stdout, gone, blocking>> /\ InUnchanged /\ OutUnchanged /\ OthersUnchanged

\* After the head the body; after the packet CMD_SUCCESS and the next one.
Sent(h) ==
  /\ At(h, "sent")
  /\ IF local[h].head
     THEN /\ local' = [local EXCEPT ![h] = [@ EXCEPT !.head = FALSE, !.left = PacketLength]]
          /\ Goto(h, "send")
     ELSE /\ local' = [local EXCEPT ![h] = [@ EXCEPT !.acked = local[h].pos]]
          /\ Goto(h, "packet")
  /\ UNCHANGED <<stdout, gone, blocking>> /\ InUnchanged /\ OutUnchanged /\ OthersUnchanged

-----------------------------------------------------------------------------
\* The network peer sends, reads, and closes.  What nobody would receive is
\* left out.
Peer ==
  /\ peer = "open"
  /\ \/ /\ arrived < Len(Inbound) /\ \E h \in Handler : job[h] \in Receivers
        /\ arrived' = arrived + 1
        /\ UNCHANGED <<peer, unread>>
     \/ unread > 0 /\ unread' = unread - 1 /\ UNCHANGED <<peer, arrived>>
     \/ peer' = "closed" /\ UNCHANGED <<arrived, unread>>
  /\ UNCHANGED <<job, pc, local, gone, stdout, blocking, taken, out>>

Step(h) ==
  \/ Setup(h) \/ RecvCall(h) \/ Takes(h) \/ TakesNothing(h) \/ Deliver(h)
  \/ Reset(h) \/ NmsHeadReceived(h) \/ NmsBodyReceived(h)
  \/ GetPacket(h) \/ SendCall(h) \/ Puts(h) \/ PutsNothing(h) \/ Sent(h)

Finished == (\A h \in Handler : pc[h] = "done") /\ UNCHANGED vars

Next == (\E h \in Handler : Step(h)) \/ Peer \/ Finished

Spec == Init /\ [][Next]_vars

\* The system runs every thread; the peer need not send, read or close.
FairSpec == Spec /\ \A h \in Handler : WF_vars(Step(h))

-----------------------------------------------------------------------------
(* Properties                                                              *)

\* The socket is non-blocking only while a recv that wants it so is running:
\* whichever way the recv commands overlap and end, the last leaves it blocking.
BlockingAtRest ==
  ~blocking => \E h \in Handler :
                 job[h] \in NonBlocking /\ pc[h] \notin {"setup", "done"}

Undisturbed == \A h \in Handler : job[h] \notin NonBlocking

\* While no recv makes the socket non-blocking, what a client was told is sent
\* was accepted by the kernel, whoever else sends; and a single sender's
\* packets are the whole stream, no byte missing, doubled or out of order.
SentWhole ==
  Undisturbed /\ peer = "open" =>
    \A h \in Handler :
      /\ \A i \in 1..local[h].acked : \E k \in DOMAIN out : out[k] = <<h, i>>
      /\ (\A g \in Handler \ {h} : job[g] \notin Senders) =>
           \A k \in DOMAIN out : out[k] = <<h, k>>

Holds(h, p) ==
  \/ \E i \in DOMAIN stdout[h] : stdout[h][i] = p
  \/ /\ pc[h] \in {"receiving", "received"}
     /\ \E i \in DOMAIN local[h].buf : local[h].buf[i] = p

\* Each byte goes to one client only and to each in order; recv commands that
\* overlap lose none as long as their clients stay; and an nms_recv that has
\* the socket to itself gives its client the first packet or nothing.
ReceivedOnce ==
  /\ \A h \in Handler : \A i, j \in DOMAIN stdout[h] :
       i < j => stdout[h][i] < stdout[h][j]
  /\ \A g, h \in Handler : \A p \in 1..taken :
       Holds(g, p) /\ Holds(h, p) => g = h
  /\ gone = {} /\ (\A h \in Handler : job[h] # "nms_recv") =>
       \A p \in 1..taken : \E h \in Handler : Holds(h, p)
  /\ \A h \in Handler :
       /\ job[h] = "nms_recv"
       /\ \A g \in Handler \ {h} : job[g] \notin Receivers
       /\ Len(stdout[h]) > 0
       => stdout[h] = [i \in 1..Length(SubSeq(Inbound, 1, 2)) |-> i + 2]

\* A recv that is not to wait ends although the peer is silent, unless another
\* recv resets the mode under it.
NonBlockingReturns ==
  \A h \in Handler :
    (/\ job[h] \in NonBlocking
     /\ \A g \in Handler \ {h} : job[g] \notin RecvJobs) ~> pc[h] = "done"

=============================================================================
