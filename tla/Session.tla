------------------------------ MODULE Session ------------------------------
(***************************************************************************)
(* One ptnio command, from the command line to the errorlevel: the client  *)
(* process (ptnio/client), the IPC connection, the server thread that      *)
(* serves it (server_thread and the handler of the command) and the        *)
(* network socket the command acts on.                                     *)
(*                                                                         *)
(* The connection is two streams of what one send call writes: the words   *)
(* of the command (message.c), codes of one byte, and NMS packets, a head  *)
(* of two bytes and a body (lib/nms.c).  The client may be killed and the  *)
(* server ended by somebody else's exit at any point, so a reader may find *)
(* its stream ended between any two of them.                               *)
(*                                                                         *)
(* Which code a handler answers with is a choice among the codes it can    *)
(* send: why it sends them (the pair list) is module PairList's matter.    *)
(***************************************************************************)
EXTENDS Integers, Sequences, SequencesExt, Nms

CONSTANTS
  Chunk,        \* the size of the buffers (0xFFFF)
  MaxUInt,      \* the largest unsigned int (2^32 - 1)
  Cmds,         \* the commands clients run
  Counts,       \* the <count> arguments of recv
  MaxBytes,     \* bound: the bytes the network peer sends
  MaxInput,     \* bound: the buffers of input a client has on stdin
  MaxItems,     \* bound: the packets of one listing
  Queue         \* bound: the sends a stream holds before a sender waits

CodeCmds == {"new", "free", "bind", "listen", "connect"}
AllCmds  == CodeCmds \cup
  {"close", "accept", "info", "list", "poll", "nms_recv", "nms_send", "send",
   "recv", "exit", "unknown"}

ASSUME SessionAssumption ==
  /\ Chunk \in Uint16 \ {0}
  /\ MaxUInt \in Nat
  /\ Cmds \subseteq AllCmds
  /\ Counts \subseteq Nat
  /\ \A c \in Counts : c \div Chunk <= MaxUInt
  /\ {MaxBytes, MaxInput, MaxItems} \subseteq Nat
  /\ Queue \in Nat \ {0}

\* The codes of cmd_codes.h, the 255 of recv_code and of tiny_assert (E255), and the
\* ends of a client that are not exits of its own.
Codes == {"SUCCESS", "INVALID_ARGS", "OUT_OF_MEMORY", "NETWORK_ERROR",
          "NOT_FOUND", "OVERWRITTEN", "INTERNAL_ERROR", "BIND_ERROR",
          "INVALID_HOST", "CLIENT_OOM", "NMS_ZERO_SIZE", "IPC_ERROR"}
Ends  == Codes \cup {"E255", "KILLED", "CRASHED"}

\* recv's arguments: none ("drain"), or <blocking> <count>.
Modes == {"drain", "nonblocking", "blocking"}

\* few: the command has fewer words than its handler wants.  input: what is
\* on the client's stdin, in buffers.
Request ==
  { r \in [cmd : Cmds, few : BOOLEAN, mode : Modes, count : Counts \cup {0},
           input : 0..MaxInput] :
      /\ r.few => r.cmd \notin {"list", "exit", "unknown"}
      /\ r.cmd = "recv" /\ r.mode # "drain" => r.count \in Counts
      /\ r.cmd # "recv" \/ r.mode = "drain" => r.count = 0
      /\ r.cmd # "recv" => r.mode = "drain"
      /\ r.cmd \notin {"send", "nms_send"} => r.input = 0 }

Text == <<0>>                  \* a payload whose content does not matter
Input(i) == <<MaxBytes + i>>   \* the i-th buffer of the client's stdin

\* What one send call puts on a stream.
Word    == [kind |-> "word"]
Code(c) == [kind |-> "code", code |-> c]
NmsHead(d) == [kind |-> "head", len |-> LengthBytes(Len(d))]
Body(d) == [kind |-> "body", data |-> d]

VARIABLES
  req,      \* the command run, or NoRequest
  server,   \* "up", or "down" once the process ended
  conn,     \* the connection: the streams c2s and s2c, whether each end is
            \* open, and whether the server still sends (s_sends)
  client,   \* the client process
  handler,  \* the server thread and its handler's locals
  sock      \* the network socket: the bytes that arrived and those taken from
            \* it, its peer, its blocking mode, what was sent to the peer

vars == <<req, server, conn, client, handler, sock>>

NoRequest ==
  [cmd |-> "unknown", few |-> FALSE, mode |-> "drain", count |-> 0, input |-> 0]

Stream == Seq({Word} \cup [kind : {"code"}, code : Codes]
              \cup [kind : {"head"}, len : Byte \X Byte]
              \cup [kind : {"body"}, data : Seq(Nat)])

ConnType ==
  [c2s : Stream, s2c : Stream, c_open : BOOLEAN, s_open : BOOLEAN, s_sends : BOOLEAN]

ClientLabels ==
  {"start", "words", "code", "head", "body", "stdin", "put_head", "put_body", "ack",
   "closing", "exited"}

ClientType ==
  [pc : ClientLabels, left : 0..3, unread : 0..MaxInput, count : 0..Chunk,
   code : Ends \cup {"none"}, stdout : Seq(Nat)]

HandlerLabels ==
  {"accept", "argc", "words", "dispatch", "network", "code", "items", "put_head",
   "put_body", "recv", "drain", "drained", "loop", "chunk", "chunked", "rest",
   "rest_end", "recv_end", "get_head", "get_body", "forward", "ack", "last_code",
   "shut", "linger", "done"}

\* Where a handler goes on after a packet, or when its connection is broken.
Returns ==
  {"none", "shut", "items", "drained", "chunked", "rest_end", "recv_end", "last_code"}

HandlerType ==
  [pc : HandlerLabels, words : 0..2, heard : BOOLEAN, cmd : AllCmds, items : 0..MaxItems,
   answer : Codes \cup {"none"}, data : Seq(Nat), ret : Returns,
   failed : BOOLEAN, received : -1..Chunk, recv_count : 0..MaxUInt,
   status : Codes]

SockType ==
  [arrived : 0..MaxBytes, taken : 0..MaxBytes,
   peer : {"open", "closed", "reset"}, blocking : BOOLEAN, out : Seq(Nat)]

TypeOK ==
  /\ req \in Request \cup {NoRequest}
  /\ server \in {"up", "down"}
  /\ conn \in ConnType
  /\ client \in ClientType
  /\ handler \in HandlerType
  /\ sock \in SockType

Init ==
  /\ req = NoRequest
  /\ server = "up"
  /\ conn = [c2s |-> <<>>, s2c |-> <<>>, c_open |-> FALSE, s_open |-> FALSE,
             s_sends |-> FALSE]
  /\ client = [pc |-> "start", left |-> 0, unread |-> 0, count |-> 0,
               code |-> "none", stdout |-> <<>>]
  /\ handler = [pc |-> "accept", words |-> 0, heard |-> FALSE,
                cmd |-> "unknown", items |-> 0, answer |-> "none",
                data |-> <<>>, ret |-> "none", failed |-> FALSE,
                received |-> 0, recv_count |-> 0, status |-> "SUCCESS"]
  /\ sock = [arrived |-> 0, taken |-> 0, peer |-> "open", blocking |-> TRUE,
             out |-> <<>>]

-----------------------------------------------------------------------------
(* Sending and receiving on the connection.                                *)

\* A send waits while the stream is full, and fails once the other end is
\* closed (SIGPIPE is ignored).
ServerPut(item) ==
  /\ conn.c_open
  /\ Len(conn.s2c) < Queue
  /\ conn' = [conn EXCEPT !.s2c = Append(@, item)]

ClientGone == ~conn.c_open

ClientPut(item) ==
  /\ conn.s_open
  /\ Len(conn.c2s) < Queue
  /\ conn' = [conn EXCEPT !.c2s = Append(@, item)]

ServerGone == ~conn.s_open

\* Reading the next item.  Were it of another kind the bytes would be taken
\* for what they are not; InSteps says that this never happens.
ServerTakes(kind) ==
  /\ conn.c2s # <<>>
  /\ conn.c2s[1].kind = kind
  /\ conn' = [conn EXCEPT !.c2s = Tail(@)]

ClientTakes(kind) ==
  /\ conn.s2c # <<>>
  /\ conn.s2c[1].kind = kind
  /\ conn' = [conn EXCEPT !.s2c = Tail(@)]

\* The stream has ended: nothing is left and the other end sends no more.
ServerHearsEnd == conn.c2s = <<>> /\ ~conn.c_open /\ UNCHANGED conn
ClientHearsEnd == conn.s2c = <<>> /\ ~conn.s_sends /\ UNCHANGED conn

\* The server closed with the client's data unread: recv fails with
\* ECONNRESET instead of returning 0.
Reset == ~conn.s_open /\ conn.c2s # <<>>

ServerAt(label) == server = "up" /\ handler.pc = label
ClientAt(label) == client.pc = label

ServerGoto(label) == handler' = [handler EXCEPT !.pc = label]
ClientGoto(label) == client' = [client EXCEPT !.pc = label]

Exit(code) == client' = [client EXCEPT !.pc = "closing", !.code = code]

\* The server process ends: the kernel closes its end.
ServerEnds ==
  /\ server' = "down"
  /\ conn' = [conn EXCEPT !.s_open = FALSE, !.s_sends = FALSE]
  /\ UNCHANGED <<req, client, handler, sock>>

-----------------------------------------------------------------------------
(* The client: main, client, message_send.                                 *)

Connect ==
  /\ ClientAt("start")
  /\ server = "up"
  /\ \E r \in Request :
       /\ req' = r
       /\ client' = [client EXCEPT !.pc = "words", !.unread = r.input,
                                   !.left = IF r.few THEN 2 ELSE 3]
  /\ conn' = [conn EXCEPT !.c_open = TRUE, !.s_open = TRUE, !.s_sends = TRUE]
  /\ UNCHANGED <<server, handler, sock>>

\* client_handles: what the client does once the command is sent.
ClientHandle(cmd) ==
  CASE cmd \in CodeCmds                         -> "code"
    [] cmd \in {"accept", "info", "nms_recv"}   -> "nms_recv"
    [] cmd \in {"recv", "list", "poll"}         -> "recv"
    [] cmd \in {"send", "nms_send"}             -> "send"
    [] cmd \in {"close", "exit", "unknown"}     -> "none"

\* message_send: the number of words, then each word; tiny_assert ends the
\* client when a send fails.
SendWord ==
  /\ ClientAt("words")
  /\ \/ /\ client.left > 0
        /\ ClientPut(Word)
        /\ client' = [client EXCEPT !.left = @ - 1]
     \/ client.left > 0 /\ ServerGone /\ Exit("E255") /\ UNCHANGED conn
     \/ /\ client.left = 0
        /\ IF ClientHandle(req.cmd) = "none" THEN Exit("SUCCESS")
                                             ELSE ClientGoto("code")
        /\ UNCHANGED conn
  /\ UNCHANGED <<req, server, handler, sock>>

\* Mutant of RecvCode: the byte is read but its value is lost.
RecvCodeBlind(code) ==
  \/ ClientTakes("code") /\ code = "SUCCESS"
  \/ ClientHearsEnd /\ code = IF Reset THEN "E255" ELSE "SUCCESS"

\* recv_code: a byte; 255 when recv fails; and when the stream has ended the
\* 0 the variable was initialised with.
RecvCode(code) ==
  \/ ClientTakes("code") /\ code = conn.s2c[1].code
  \/ ClientHearsEnd /\ code = IF Reset THEN "E255" ELSE "SUCCESS"

\* The first code.  malloc of the buffer may fail, before (send) or after it.
ReadCode ==
  /\ ClientAt("code")
  /\ \/ \E code \in Ends :
          /\ RecvCode(code)
          /\ \/ /\ code # "SUCCESS" \/ ClientHandle(req.cmd) = "code"
                /\ Exit(code)
             \/ /\ code = "SUCCESS" /\ ClientHandle(req.cmd) = "send"
                /\ ClientGoto("stdin")
             \/ /\ code = "SUCCESS" /\ ClientHandle(req.cmd) \in {"recv", "nms_recv"}
                /\ ClientGoto("head")
             \/ /\ code = "SUCCESS" /\ ClientHandle(req.cmd) = "recv"
                /\ Exit("CLIENT_OOM")
     \/ ClientHandle(req.cmd) = "send" /\ Exit("CLIENT_OOM") /\ UNCHANGED conn
  /\ UNCHANGED <<req, server, handler, sock>>

\* The end of the packet loop: client_handle_recv stops at an empty packet;
\* client_handle_nms_recv frees a pointer nms_recv did not set.
EmptyPacket ==
  IF ClientHandle(req.cmd) = "recv"
  THEN Exit("SUCCESS")
  ELSE Exit("NMS_ZERO_SIZE") \/ Exit("CRASHED")

\* nms_recv_no_alloc and nms_recv read a head.  nms_recv takes the end of the
\* stream for a head of whatever its buffer holds.
ReadHead ==
  /\ ClientAt("head")
  /\ \/ /\ ClientTakes("head")
        /\ LET n == Length(conn.s2c[1].len) IN
             \/ n = 0 /\ EmptyPacket
             \/ n > 0 /\ client' = [client EXCEPT !.pc = "body", !.count = n]
             \/ n > 0 /\ ClientHandle(req.cmd) = "nms_recv" /\ Exit("IPC_ERROR")
     \/ ClientHearsEnd /\ Exit("IPC_ERROR")
     \/ ClientHearsEnd /\ ClientHandle(req.cmd) = "nms_recv" /\ ~Reset /\ EmptyPacket
  /\ UNCHANGED <<req, server, handler, sock>>

\* ... and a body, which goes to stdout.
ReadBody ==
  /\ ClientAt("body")
  /\ \/ /\ ClientTakes("body")
        /\ LET written == client.stdout \o conn.s2c[1].data IN
             IF ClientHandle(req.cmd) = "recv"
             THEN client' = [client EXCEPT !.pc = "head", !.stdout = written]
             ELSE client' = [client EXCEPT !.pc = "closing", !.stdout = written,
                                           !.code = "SUCCESS"]
     \/ ClientHearsEnd /\ Exit("IPC_ERROR")
  /\ UNCHANGED <<req, server, handler, sock>>

\* client_handle_send: a buffer from stdin, empty at its end...
ReadStdin ==
  /\ ClientAt("stdin")
  /\ client' = [client EXCEPT !.pc = "put_head",
                              !.unread = IF @ = 0 THEN 0 ELSE @ - 1,
                              !.count = IF client.unread = 0 THEN 0 ELSE 1]
  /\ UNCHANGED <<req, server, conn, handler, sock>>

Buffer == IF client.count = 0 THEN <<>> ELSE Input(req.input - client.unread)

\* ... is sent as a packet, head then body (one that the server's end cut short
\* counts as sent)...
PutPacket ==
  /\ client.pc \in {"put_head", "put_body"}
  /\ \/ /\ ClientAt("put_head")
        /\ ClientPut(NmsHead(Buffer))
        /\ ClientGoto(IF client.count = 0 THEN "ack" ELSE "put_body")
     \/ /\ ClientAt("put_body")
        /\ ClientPut(Body(Buffer))
        /\ ClientGoto("ack")
     \/ /\ ServerGone /\ UNCHANGED conn
        /\ Exit("IPC_ERROR") \/ (ClientAt("put_body") /\ ClientGoto("ack"))
  /\ UNCHANGED <<req, server, handler, sock>>

\* ... and acknowledged by a code.
ReadAck ==
  /\ ClientAt("ack")
  /\ \E code \in Ends :
       /\ RecvCode(code)
       /\ IF client.count # 0 /\ code = "SUCCESS"
          THEN ClientGoto("stdin")
          ELSE Exit(code)
  /\ UNCHANGED <<req, server, handler, sock>>

\* exit, or znsock_ipc_close and exit: the graceful close ends when the server
\* sends, closes, or after its timeout.
CloseClient ==
  /\ ClientAt("closing")
  /\ ClientGoto("exited")
  /\ conn' = [conn EXCEPT !.c_open = FALSE]
  /\ UNCHANGED <<req, server, handler, sock>>

\* The user or a script kills the client.
Kill ==
  /\ client.pc \notin {"start", "exited"}
  /\ client' = [client EXCEPT !.pc = "exited", !.code = "KILLED"]
  /\ conn' = [conn EXCEPT !.c_open = FALSE]
  /\ UNCHANGED <<req, server, handler, sock>>

ClientProgress ==
  \/ SendWord \/ ReadCode \/ ReadHead \/ ReadBody \/ PutPacket \/ ReadAck
  \/ CloseClient

-----------------------------------------------------------------------------
(* The server thread: server_thread, message_recv, the dispatch.           *)

AcceptClient ==
  /\ ServerAt("accept")
  /\ conn.s_open
  /\ ServerGoto("argc")
  /\ UNCHANGED <<req, server, conn, client, sock>>

WordsSent == IF req.few THEN 1 ELSE 2

\* The number of words; the end of the stream counts as no words at all.  When
\* calloc fails the cleanup goes through the array it did not get.
RecvArgc ==
  /\ ServerAt("argc")
  /\ \/ /\ ServerTakes("word")
        /\ handler' = [handler EXCEPT !.pc = "words", !.heard = TRUE,
                                      !.words = WordsSent]
        /\ UNCHANGED <<req, server, client, sock>>
     \/ ServerHearsEnd /\ ServerGoto("shut") /\ UNCHANGED <<req, server, client, sock>>
     \/ conn.c2s # <<>> /\ ServerEnds

\* A word, or malloc fails and the client is dropped.  At the end of the stream
\* the word's size and content are whatever the memory holds: the allocation
\* fails, or a word nobody sent is taken.
RecvWord ==
  /\ ServerAt("words")
  /\ \/ handler.words = 0 /\ ServerGoto("dispatch") /\ UNCHANGED conn
     \/ /\ handler.words > 0
        /\ ServerTakes("word")
        /\ handler' = [handler EXCEPT !.words = @ - 1]
     \/ /\ handler.words > 0
        /\ ServerTakes("word") \/ ServerHearsEnd
        /\ ServerGoto("shut")
     \/ /\ handler.words > 0
        /\ ServerHearsEnd
        /\ handler' = [handler EXCEPT
             !.words = @ - 1,
             !.heard = @ /\ handler.words # WordsSent]
  /\ UNCHANGED <<req, server, client, sock>>

\* server_cmds, and the test of msg.argc the handlers start with.  send has
\* the wrong test, and reads a word that is not there.
Dispatch ==
  /\ ServerAt("dispatch")
  /\ \E cmd \in IF handler.heard THEN {req.cmd} ELSE Cmds \cup {"unknown"} :
       \/ cmd = "unknown" /\ ServerGoto("shut") /\ UNCHANGED <<server, conn>>
       \/ /\ cmd = "exit" \/ (cmd = "send" /\ req.few)
          /\ server' = "down"
          /\ conn' = [conn EXCEPT !.s_open = FALSE, !.s_sends = FALSE]
          /\ UNCHANGED handler
       \/ /\ cmd \notin {"unknown", "exit"}
          /\ handler' = [handler EXCEPT
               !.cmd = cmd,
               !.pc = IF cmd \in {"accept", "connect", "poll", "nms_recv"}
                         /\ ~req.few
                      THEN "network" ELSE "code"]
          /\ UNCHANGED <<server, conn>>
  /\ UNCHANGED <<req, client, sock>>

\* The handler waits in accept, connect, poll or recv.
NetworkReturns ==
  /\ ServerAt("network")
  /\ ServerGoto("code")
  /\ UNCHANGED <<req, server, conn, client, sock>>

\* send_code: the client may be gone, and its stream full.
SendCode(code) == ServerPut(Code(code)) \/ (ClientGone /\ UNCHANGED conn)

\* The codes a handler's checks and system calls lead to.
Outcomes(cmd) ==
  CASE cmd = "new"      -> {"SUCCESS", "OVERWRITTEN", "NETWORK_ERROR", "OUT_OF_MEMORY"}
    [] cmd \in {"free", "close"} -> {"SUCCESS", "NOT_FOUND"}
    [] cmd = "bind"     -> {"SUCCESS", "NOT_FOUND", "INVALID_HOST", "BIND_ERROR"}
    [] cmd = "connect"  -> {"SUCCESS", "NOT_FOUND", "INVALID_HOST", "NETWORK_ERROR"}
    [] cmd \in {"listen", "poll", "nms_recv"} -> {"SUCCESS", "NOT_FOUND", "NETWORK_ERROR"}
    [] cmd = "accept"   -> {"SUCCESS", "OVERWRITTEN", "NOT_FOUND", "NETWORK_ERROR",
                            "INTERNAL_ERROR", "OUT_OF_MEMORY"}
    [] cmd \in {"info", "recv", "send", "nms_send"} ->
                           {"SUCCESS", "NOT_FOUND", "OUT_OF_MEMORY"}
    [] cmd = "list"     -> {"SUCCESS"}

\* What follows the code.
AfterCode(cmd, code) ==
  IF code = "SUCCESS" \/ (cmd = "accept" /\ code = "OVERWRITTEN")
  THEN CASE cmd \in {"accept", "info", "nms_recv"} -> "put_head"
         [] cmd \in {"list", "poll"}               -> "items"
         [] cmd = "recv"                           -> "recv"
         [] cmd \in {"send", "nms_send"}           -> "get_head"
         [] OTHER                                  -> "shut"
  ELSE "shut"

AnswerCode ==
  /\ ServerAt("code")
  /\ \E code \in IF req.few /\ handler.cmd \notin {"send", "list"}
                 THEN {"INVALID_ARGS"} ELSE Outcomes(handler.cmd),
        data \in IF handler.cmd = "nms_recv" THEN {<<>>, Text} ELSE {Text} :
       /\ SendCode(code)
       /\ handler' = [handler EXCEPT !.pc = AfterCode(handler.cmd, code),
                                     !.answer = code, !.data = data,
                                     !.ret = "shut"]
  /\ UNCHANGED <<req, server, client, sock>>

-----------------------------------------------------------------------------
(* The server's packets: nms_send to the client.                           *)

\* Send data as a packet, then go on at ret; a body that the client's end cut
\* short counts as sent.
Packet(data, ret) ==
  handler' = [handler EXCEPT !.pc = "put_head", !.data = data, !.ret = ret,
                             !.failed = FALSE]

SendPacket ==
  /\ handler.pc \in {"put_head", "put_body"}
  /\ server = "up"
  /\ \/ /\ ServerAt("put_head")
        /\ ServerPut(NmsHead(handler.data))
        /\ ServerGoto(IF handler.data = <<>> THEN handler.ret ELSE "put_body")
     \/ /\ ServerAt("put_body")
        /\ ServerPut(Body(handler.data))
        /\ ServerGoto(handler.ret)
     \/ /\ ClientGone /\ UNCHANGED conn
        /\ \/ handler' = [handler EXCEPT !.pc = handler.ret, !.failed = TRUE]
           \/ ServerAt("put_body") /\ ServerGoto(handler.ret)
  /\ UNCHANGED <<req, server, client, sock>>

\* list and poll: a packet for each name, errors ignored, then an empty one.
SendItem ==
  /\ ServerAt("items")
  /\ \/ /\ handler.items < MaxItems
        /\ handler' = [handler EXCEPT !.pc = "put_head", !.data = Text,
                                      !.ret = "items", !.items = @ + 1]
     \/ Packet(<<>>, "shut")
  /\ UNCHANGED <<req, server, conn, client, sock>>

-----------------------------------------------------------------------------
(* recv                                                                    *)

\* What recv(socket, buffer, size) can return now, flags being MSG_WAITALL or 0.
\* Not to return is to wait.
Received(size, waitall) ==
  LET left == sock.arrived - sock.taken
      n    == IF left < size THEN left ELSE size
  IN  (IF n > 0 /\ (waitall /\ sock.blocking => n = size \/ sock.peer # "open")
       THEN {n} ELSE {})
      \cup (IF (left = 0 /\ sock.peer = "closed") \/ size = 0 THEN {0} ELSE {})
      \cup (IF left = 0 /\ (sock.peer = "reset" \/ (~sock.blocking /\ sock.peer = "open"))
            THEN {-1} ELSE {})

\* Mutant of ReceiveAndSend: the whole buffer is sent, not the n bytes taken.
ReceiveAndSendAll(size, waitall, ret, onError) ==
  \E n \in Received(size, waitall) :
    \/ /\ n = -1
       /\ handler' = [handler EXCEPT !.pc = onError, !.received = -1,
                                     !.failed = FALSE]
       /\ UNCHANGED sock
    \/ /\ n >= 0
       /\ handler' = [handler EXCEPT
            !.pc = "put_head", !.ret = ret, !.received = n, !.failed = FALSE,
            !.data = [i \in 1..size |-> sock.taken + i]]
       /\ sock' = [sock EXCEPT !.taken = @ + n]

\* The n bytes taken go to the client as a packet, then to ret; an error goes
\* to onError.
ReceiveAndSend(size, waitall, ret, onError) ==
  \E n \in Received(size, waitall) :
    \/ /\ n = -1
       /\ handler' = [handler EXCEPT !.pc = onError, !.received = -1,
                                     !.failed = FALSE]
       /\ UNCHANGED sock
    \/ /\ n >= 0
       /\ handler' = [handler EXCEPT
            !.pc = "put_head", !.ret = ret, !.received = n, !.failed = FALSE,
            !.data = [i \in 1..n |-> sock.taken + i]]
       /\ sock' = [sock EXCEPT !.taken = @ + n]

RecvSetup ==
  /\ ServerAt("recv")
  /\ sock' = [sock EXCEPT !.blocking = req.mode = "blocking"]
  /\ handler' = [handler EXCEPT
       !.pc = IF req.mode = "drain" THEN "drain" ELSE "loop",
       !.received = 0, !.recv_count = req.count \div Chunk]
  /\ UNCHANGED <<req, server, conn, client>>

\* recv sock_id: until recv fails or the connection ends.
Drain ==
  /\ \/ ServerAt("drain") /\ ReceiveAndSend(Chunk, FALSE, "drained", "recv_end")
     \/ /\ ServerAt("drained")
        /\ ServerGoto(IF handler.failed \/ handler.received = 0
                      THEN "recv_end" ELSE "drain")
        /\ UNCHANGED sock
  /\ UNCHANGED <<req, server, conn, client>>

\* Mutant of RecvLoop: the counter is a signed one.
RecvLoopSigned ==
  /\ ServerAt("loop")
  /\ handler' = [handler EXCEPT
       !.pc = IF handler.recv_count # 0 \/ handler.received = Chunk
              THEN "chunk" ELSE "rest",
       !.recv_count = @ - 1]
  /\ UNCHANGED <<req, server, conn, client, sock>>

\* Mutant of RecvLoop: a do ... while loop.
RecvLoopTooLong ==
  /\ ServerAt("loop")
  /\ handler' = [handler EXCEPT
       !.pc = IF handler.recv_count # 0 \/ handler.received = 0
              THEN "chunk" ELSE "rest",
       !.recv_count = (@ + MaxUInt) % (MaxUInt + 1)]
  /\ UNCHANGED <<req, server, conn, client, sock>>

\* while (recv_count-- || received == 0xFFFF): the counter is decremented even
\* when the test fails, and wraps.
RecvLoop ==
  /\ ServerAt("loop")
  /\ handler' = [handler EXCEPT
       !.pc = IF handler.recv_count # 0 \/ handler.received = Chunk
              THEN "chunk" ELSE "rest",
       !.recv_count = (@ + MaxUInt) % (MaxUInt + 1)]
  /\ UNCHANGED <<req, server, conn, client, sock>>

RecvChunk ==
  /\ \/ /\ ServerAt("chunk")
        /\ ReceiveAndSend(Chunk, req.mode = "blocking", "chunked", "rest")
     \/ /\ ServerAt("chunked")
        /\ ServerGoto(IF handler.failed THEN "recv_end" ELSE "loop")
        /\ UNCHANGED sock
  /\ UNCHANGED <<req, server, conn, client>>

\* The remaining bytes, then an empty packet if the last one was not.
RecvRest ==
  /\ \/ /\ ServerAt("rest")
        /\ ReceiveAndSend(req.count % Chunk, req.mode = "blocking",
                          "rest_end", "rest_end")
     \/ /\ ServerAt("rest_end")
        /\ IF handler.failed \/ handler.received = 0
           THEN ServerGoto("recv_end")
           ELSE Packet(<<>>, "recv_end")
        /\ UNCHANGED sock
  /\ UNCHANGED <<req, server, conn, client>>

\* reset_socket
RecvEnd ==
  /\ ServerAt("recv_end")
  /\ sock' = [sock EXCEPT !.blocking = TRUE]
  /\ ServerGoto("shut")
  /\ UNCHANGED <<req, server, conn, client>>

-----------------------------------------------------------------------------
(* send, nms_send                                                          *)

\* Mutant of GetPacket: a broken connection is read again.
GetPacketAgain ==
  /\ \/ /\ ServerAt("get_head")
        /\ ServerTakes("head")
        /\ LET n == Length(conn.c2s[1].len) IN
             \/ n > 0 /\ ServerGoto("get_body")
             \/ /\ n = 0 /\ handler.ret = "shut"
                /\ handler' = [handler EXCEPT !.pc = "forward", !.data = <<>>]
             \/ n = 0 /\ handler.ret = "last_code" /\ ServerGoto("last_code")
     \/ /\ ServerAt("get_body")
        /\ ServerTakes("body")
        /\ handler' = [handler EXCEPT !.pc = "forward", !.data = conn.c2s[1].data]
  /\ UNCHANGED <<req, server, client, sock>>

\* nms_recv_no_alloc from the client.  nms_send leaves its loop at an empty
\* packet that is not the first; ret is where a broken connection leads.
GetPacket ==
  /\ \/ /\ ServerAt("get_head")
        /\ ServerTakes("head")
        /\ LET n == Length(conn.c2s[1].len) IN
             \/ n > 0 /\ ServerGoto("get_body")
             \/ /\ n = 0 /\ handler.ret = "shut"
                /\ handler' = [handler EXCEPT !.pc = "forward", !.data = <<>>]
             \/ n = 0 /\ handler.ret = "last_code" /\ ServerGoto("last_code")
     \/ /\ ServerAt("get_body")
        /\ ServerTakes("body")
        /\ handler' = [handler EXCEPT !.pc = "forward", !.data = conn.c2s[1].data]
     \/ /\ ServerAt("get_head") \/ ServerAt("get_body")
        /\ ServerHearsEnd
        /\ ServerGoto(handler.ret)
  /\ UNCHANGED <<req, server, client, sock>>

\* znsock_send, or nms_send, to the network; it waits while the peer reads
\* nothing.  Only -1 is an error: the count of a send that a reset cut short is
\* taken for a success.  (out keeps the buffers that were sent whole.)
Forward ==
  /\ ServerAt("forward")
  /\ \/ /\ sock.peer # "reset"
        /\ \/ sock' = [sock EXCEPT !.out = @ \o handler.data]
           \/ sock' = [sock EXCEPT !.peer = "reset"]
        /\ handler' = [handler EXCEPT !.pc = "ack", !.status = "SUCCESS"]
     \/ /\ handler' = [handler EXCEPT !.pc = "ack", !.status = "NETWORK_ERROR"]
        /\ UNCHANGED sock
  /\ UNCHANGED <<req, server, conn, client>>

\* Mutant of Ack: the code does not tell that the network failed.
AckSuccess ==
  /\ ServerAt("ack")
  /\ SendCode("SUCCESS")
  /\ \/ /\ handler.cmd = "nms_send"
        /\ handler' = [handler EXCEPT !.ret = "last_code", !.pc = "get_head"]
     \/ /\ handler.cmd = "send"
        /\ ServerGoto(IF handler.data = <<>> THEN "shut" ELSE "get_head")
  /\ UNCHANGED <<req, server, client, sock>>

\* Mutant of Ack: nms_send acknowledges at its end only.
AckAtEnd ==
  /\ ServerAt("ack")
  /\ \/ /\ handler.cmd = "nms_send"
        /\ handler' = [handler EXCEPT !.ret = "last_code", !.pc = "get_head"]
        /\ UNCHANGED conn
     \/ /\ handler.cmd = "send"
        /\ SendCode(handler.status)
        /\ ServerGoto(IF handler.data = <<>> THEN "shut" ELSE "get_head")
  /\ UNCHANGED <<req, server, client, sock>>

\* The code for the packet, and what is next.
Ack ==
  /\ ServerAt("ack")
  /\ SendCode(handler.status)
  /\ LET failed == handler.status # "SUCCESS" IN
       \/ /\ handler.cmd = "nms_send"
          /\ handler' = [handler EXCEPT !.ret = "last_code",
                           !.pc = IF failed THEN "last_code" ELSE "get_head"]
       \/ /\ handler.cmd = "send"
          /\ ServerGoto(IF failed \/ handler.data = <<>> THEN "shut" ELSE "get_head")
  /\ UNCHANGED <<req, server, client, sock>>

LastCode ==
  /\ ServerAt("last_code")
  /\ SendCode("SUCCESS")
  /\ ServerGoto("shut")
  /\ UNCHANGED <<req, server, client, sock>>

-----------------------------------------------------------------------------
\* znsock_ipc_close: stop sending, wait for the client or the timeout, close.
CloseConnection ==
  /\ \/ /\ ServerAt("shut")
        /\ ServerGoto("linger")
        /\ conn' = [conn EXCEPT !.s_sends = FALSE]
     \/ /\ ServerAt("linger")
        /\ ServerGoto("done")
        /\ conn' = [conn EXCEPT !.s_open = FALSE]
  /\ UNCHANGED <<req, server, client, sock>>

\* Another client's exit.
ServerExits ==
  /\ server = "up"
  /\ client.pc # "start"
  /\ ServerEnds

ServerProgress ==
  \/ AcceptClient \/ RecvArgc \/ RecvWord \/ Dispatch \/ AnswerCode
  \/ SendPacket \/ SendItem \/ RecvSetup \/ RecvLoop \/ RecvEnd
  \/ GetPacket \/ Ack \/ LastCode \/ CloseConnection
  \/ (handler.pc \in {"drained", "chunked", "rest_end"} /\ (Drain \/ RecvChunk \/ RecvRest))

\* The steps that wait for the network.
ServerWaits ==
  \/ NetworkReturns \/ Forward
  \/ (handler.pc \in {"drain", "chunk", "rest"} /\ (Drain \/ RecvChunk \/ RecvRest))

\* The network peer sends, closes or resets the connection.
Peer ==
  /\ sock.peer = "open"
  /\ \/ sock.arrived < MaxBytes /\ sock' = [sock EXCEPT !.arrived = @ + 1]
     \/ \E end \in {"closed", "reset"} : sock' = [sock EXCEPT !.peer = end]
  /\ UNCHANGED <<req, server, conn, client, handler>>

Finished ==
  /\ client.pc = "exited"
  /\ handler.pc = "done" \/ server = "down"
  /\ UNCHANGED vars

Next ==
  \/ Connect \/ ClientProgress \/ ReadStdin \/ Kill
  \/ ServerProgress \/ ServerWaits \/ ServerExits
  \/ Peer \/ Finished

Spec == Init /\ [][Next]_vars

\* The kernel runs both processes; nothing makes the user type, the peer send
\* or the network return.
FairSpec == Spec /\ WF_vars(ClientProgress) /\ WF_vars(ServerProgress)

-----------------------------------------------------------------------------
(* Properties                                                              *)

\* Client and server agree on what comes next on both streams, whatever the
\* command and wherever the other end stopped: a code is never read as the
\* head of a packet, and a body has the length its head announced.
InSteps ==
  /\ conn.s2c # <<>> =>
       /\ client.pc \in {"code", "ack"} => conn.s2c[1].kind = "code"
       /\ client.pc = "head" => conn.s2c[1].kind = "head"
       /\ client.pc = "body" => /\ conn.s2c[1].kind = "body"
                                /\ Len(conn.s2c[1].data) = client.count
  /\ conn.c2s # <<>> /\ server = "up" =>
       /\ handler.pc \in {"argc", "words"} => conn.c2s[1].kind = "word"
       /\ handler.pc = "get_head" => conn.c2s[1].kind = "head"
       /\ handler.pc = "get_body" => conn.c2s[1].kind = "body"

Ended(codes) == client.pc = "exited" /\ client.code \in codes

\* A command that is answered by its code alone ends with the code its
\* handler sent, even if the server ends meanwhile.
ExitCodeIsAnswer ==
  /\ Ended(Ends \ {"KILLED"})
  /\ ClientHandle(req.cmd) = "code"
  /\ handler.answer # "none"
  => client.code = handler.answer

\* recv loses nothing and adds nothing: what the client wrote is a prefix of
\* what the handler took from the socket, and all of it once the client ended
\* well and the handler left its loop.
RecvDelivers ==
  req.cmd = "recv" =>
    LET taken == [i \in 1..sock.taken |-> i] IN
      /\ IsPrefix(client.stdout, taken)
      /\ Ended({"SUCCESS"}) /\ handler.pc \in {"shut", "linger", "done"} =>
           client.stdout = taken

\* recv sock_id blocking count takes count bytes, unless the stream ends.
TakesCount ==
  req.cmd = "recv" /\ req.mode # "drain" =>
    /\ sock.taken <= req.count
    /\ Ended({"SUCCESS"}) /\ req.mode = "blocking" /\ sock.peer = "open" =>
         sock.taken = req.count

\* Once their handler has answered, send and nms_send end well only if all of
\* stdin went to the peer, once and in order, even if the server ends meanwhile,
\* unless the peer reset the connection: a send it cut short is acknowledged.
\* (A handler that never runs is another matter: SuccessIsAnswered.)
InputDelivered ==
  /\ Ended({"SUCCESS"})
  /\ req.cmd \in {"send", "nms_send"}
  /\ handler.answer # "none"
  /\ sock.peer # "reset"
  => sock.out = [i \in 1..req.input |-> MaxBytes + i]

\* The client ends, unless its user does not type or the network peer is
\* silent.
WaitsForNetwork ==
  handler.pc \in {"network", "drain", "chunk", "rest", "forward"}

ClientEnds ==
  client.pc # "start" ~>
    (client.pc \in {"exited", "stdin"} \/ (server = "up" /\ WaitsForNetwork))

\* The thread is free for another client, unless this one does not type or the
\* peer is silent: neither a killed client nor a full stream keeps it.
ThreadFreed ==
  handler.pc # "accept" ~>
    (handler.pc = "done" \/ server = "down" \/ WaitsForNetwork
     \/ client.pc = "stdin")

-----------------------------------------------------------------------------
(* What ptnio/README says and the code does not do.                        *)

\* Without a code from the server the client does not report success (README:
\* "255 : IPC error : can't receive error code").
SuccessIsAnswered ==
  Ended({"SUCCESS"}) /\ ClientHandle(req.cmd) \in {"code", "send"} =>
    handler.answer = "SUCCESS"

=============================================================================
