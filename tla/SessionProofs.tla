--------------------------- MODULE SessionProofs ---------------------------
(***************************************************************************)
(* The theorems about one dialogue (module Session), for any sizes of      *)
(* buffers and streams, any commands, and a client killed or a server      *)
(* ended anywhere.                                                         *)
(***************************************************************************)
EXTENDS Session, SequenceTheorems, TLAPS

-----------------------------------------------------------------------------
(* The head of a packet.                                                   *)

\* Reduction modulo 2^16 leaves a uint16_t alone.
LEMMA Uint16Kept ==
  ASSUME NEW n \in Nat, n <= 65535
  PROVE  ToUint16(n) = n
BY DEF ToUint16

\* The two bytes of a uint16_t, and the number they stand for.
LEMMA BytesOf ==
  ASSUME NEW m \in Nat, m <= 65535
  PROVE  /\ m % 256 \in Byte
         /\ m \div 256 \in Byte
         /\ m = (m % 256) + (m \div 256) * 256
<1>1. m % 256 \in Nat /\ m % 256 <= 255
  OBVIOUS
<1>2. m \div 256 \in Nat /\ m \div 256 <= 255
  OBVIOUS
<1>3. m = 256 * (m \div 256) + (m % 256)
  OBVIOUS
<1> QED
  BY <1>1, <1>2, <1>3 DEF Byte

\* Whatever length a caller passes, what is sent is a uint16_t.
LEMMA ToUint16Typed ==
  ASSUME NEW n \in Nat
  PROVE  ToUint16(n) \in Nat /\ ToUint16(n) <= 65535
BY DEF ToUint16

\* nms_send writes two bytes.
THEOREM LengthBytesTyped ==
  ASSUME NEW n \in Nat
  PROVE  LengthBytes(n) \in Byte \X Byte
BY ToUint16Typed, BytesOf DEF LengthBytes

\* The receiver reads the length the sender had, reduced to a uint16_t.
THEOREM LengthReadBack ==
  ASSUME NEW n \in Nat
  PROVE  Length(LengthBytes(n)) = ToUint16(n)
BY ToUint16Typed, BytesOf DEF Length, LengthBytes

\* A payload of at most 65535 bytes is announced by its own length.
THEOREM LengthRoundTrip ==
  ASSUME NEW n \in Nat, n <= 65535
  PROVE  Length(LengthBytes(n)) = n
BY LengthReadBack, Uint16Kept

\* Two payloads that fit a packet have different heads if they have different
\* lengths; in particular only the empty packet looks like the end of a
\* listing.
THEOREM LengthInjective ==
  ASSUME NEW m \in Nat, m <= 65535, NEW n \in Nat, n <= 65535,
         LengthBytes(m) = LengthBytes(n)
  PROVE  m = n
BY LengthRoundTrip

-----------------------------------------------------------------------------
(* Types, and what they rest on.                                           *)

RecvLabels == {"recv", "drain", "drained", "loop", "chunk", "chunked", "rest",
               "rest_end", "recv_end"}
SendLabels == {"get_head", "get_body", "forward", "ack", "last_code"}
PutLabels  == {"put_head", "put_body"}
Early      == {"accept", "argc", "words", "dispatch", "network", "code"}
Ending     == {"shut", "linger", "done"}

Item == {Word} \cup [kind : {"code"}, code : Codes]
          \cup [kind : {"head"}, len : Byte \X Byte]
          \cup [kind : {"body"}, data : Seq(Nat)]

\* Where a handler goes after a packet it sent, or instead of one it wants.
PutReturns == {"shut", "items", "drained", "chunked", "rest_end", "recv_end"}
GetReturns == {"shut", "last_code"}

HeadsFit(q) == \A i \in DOMAIN q : q[i].kind = "head" => Length(q[i].len) <= Chunk

HandlerHeld(h) ==
  /\ h.pc \in {"network", "code"} => h.cmd \notin {"exit", "unknown"}
  /\ h.pc \in PutLabels => h.ret \in PutReturns /\ Len(h.data) <= Chunk
  /\ h.pc \in SendLabels => h.ret \in GetReturns

Held ==
  /\ sock.taken <= sock.arrived
  /\ client.unread <= req.input
  /\ HandlerHeld(handler)
  /\ HeadsFit(conn.s2c)

Typed == TypeOK /\ Held

-----------------------------------------------------------------------------
(* Who is where.                                                           *)

Quitting == client.pc \in {"closing", "exited"}
Live     == client.pc \notin {"start", "closing", "exited"}
Over     == server = "down" \/ handler.pc \in {"linger", "done"}

Unused ==
  /\ server = "up"
  /\ handler.pc = "accept"
  /\ conn.c2s = <<>>
  /\ client.stdout = <<>>
  /\ sock.taken = 0 /\ sock.out = <<>>

Connection ==
  /\ conn.c_open <=> client.pc \notin {"start", "exited"}
  /\ conn.s_open <=> client.pc # "start" /\ server = "up" /\ handler.pc # "done"
  /\ conn.s_sends <=> client.pc # "start" /\ ~Over
  /\ client.pc = "start" => Unused
  /\ handler.pc \in Early => handler.answer = "none"
  /\ handler.answer = "none" => handler.pc \in Early \cup Ending /\ conn.s2c = <<>>
  /\ client.pc \in {"start", "words", "code"} \/ Quitting \/ handler.answer # "none" \/ Over

\* As long as the client is there its handler is that of its command.
Heard ==
  /\ conn.c_open /\ handler.pc \notin {"accept", "argc"} => handler.heard
  /\ conn.c_open /\ (handler.pc \in {"network", "code"} \/ handler.answer # "none") =>
       handler.cmd = req.cmd
  /\ handler.pc = "items" => handler.cmd \in {"list", "poll"}
  /\ handler.pc \in RecvLabels => handler.cmd = "recv"
  /\ handler.pc \in SendLabels => handler.cmd \in {"send", "nms_send"}
  /\ handler.pc \in PutLabels =>
       \/ handler.ret = "shut" /\ handler.cmd \in {"accept", "info", "nms_recv", "list", "poll"}
       \/ handler.ret = "items" /\ handler.cmd \in {"list", "poll"}
       \/ handler.ret \in RecvLabels /\ handler.cmd = "recv"
  /\ client.pc \in {"head", "body"} => ClientHandle(req.cmd) \in {"recv", "nms_recv"}
  /\ client.pc \in {"stdin", "put_head", "put_body", "ack"} => ClientHandle(req.cmd) = "send"

Party == Connection /\ Heard

-----------------------------------------------------------------------------
(* In step: the kinds of the items on a stream are a chain from what its   *)
(* reader wants to what its writer is about to write.                      *)

KindAfter(x, sends) ==
  CASE x.kind = "code"                       -> IF sends THEN "code" ELSE "head"
    [] x.kind = "head" /\ Length(x.len) > 0  -> "body"
    [] OTHER                                 -> "head"

Chain(q, wants, writes, sends) ==
  /\ q # <<>> => q[1].kind = wants
  /\ \A i \in 1..(Len(q) - 1) : q[i + 1].kind = KindAfter(q[i], sends)
  /\ writes # "any" =>
       writes = IF q = <<>> THEN wants ELSE KindAfter(q[Len(q)], sends)

ClientWants ==
  IF client.pc \in {"head", "body"} THEN client.pc ELSE "code"

ServerWrites ==
  IF Over \/ handler.pc \in {"recv_end", "shut"} THEN "any"
  ELSE CASE handler.pc = "put_body"                -> "body"
         [] handler.pc \in Early \cup SendLabels   -> "code"
         [] OTHER                                  -> "head"

Sends == ClientHandle(req.cmd) = "send"

ToClient == Live => Chain(conn.s2c, ClientWants, ServerWrites, Sends)

\* A body has the length of its head, wherever the two are.
Lengths ==
  Live =>
    LET q == conn.s2c IN
      /\ \A i \in 1..(Len(q) - 1) :
           q[i].kind = "head" /\ q[i + 1].kind = "body" =>
             Len(q[i + 1].data) = Length(q[i].len)
      /\ client.pc = "body" /\ q # <<>> => Len(q[1].data) = client.count
      /\ handler.pc = "put_body" /\ ~Over =>
           /\ Len(handler.data) > 0
           /\ Len(handler.data) = IF q = <<>> THEN client.count ELSE Length(q[Len(q)].len)

\* The words the handler has yet to read.
WordsLeft ==
  CASE handler.pc \in {"accept", "argc"} -> WordsSent + 1
    [] handler.pc = "words"              -> handler.words
    [] OTHER                             -> 0

Words ==
  /\ handler.pc \in Early =>
       /\ \A i \in DOMAIN conn.c2s : conn.c2s[i].kind = "word"
       /\ client.pc # "start" => Len(conn.c2s) <= WordsLeft
       /\ client.pc = "words" => Len(conn.c2s) + client.left = WordsLeft
  /\ client.pc = "words" /\ handler.answer # "none" => client.left = 0

HandlerWants == IF handler.pc = "get_body" THEN "body" ELSE "head"

ClientWrites ==
  CASE client.pc = "put_body"                                       -> "body"
    [] client.pc \in {"words", "code", "stdin", "put_head", "ack"}  -> "head"
    [] OTHER                                                        -> "any"

ToServer ==
  handler.pc \in SendLabels \ {"last_code"} /\ server = "up" =>
    Chain(conn.c2s, HandlerWants, ClientWrites, FALSE)

Framing == ToClient /\ Lengths /\ Words /\ ToServer

-----------------------------------------------------------------------------
(* The exit code.                                                          *)

CodeArrives ==
  ClientHandle(req.cmd) = "code" =>
    /\ Live /\ handler.answer # "none" => conn.s2c = <<Code(handler.answer)>>
    /\ Quitting /\ client.code # "KILLED" =>
         IF handler.answer = "none" THEN Over ELSE client.code = handler.answer

-----------------------------------------------------------------------------
(* recv: the bytes on their way to the client follow those it has, and     *)
(* lead up to those the handler still holds.                               *)

Run(from, n) == [i \in 1..n |-> from + i]

Pending == IF handler.pc \in PutLabels THEN Len(handler.data) ELSE 0

Size(x)  == IF x.kind = "body" THEN Len(x.data) ELSE 0
Empty(x) == x.kind = "head" /\ Length(x.len) = 0

Spans(q, pos, from, to, end) ==
  /\ pos \in [0..Len(q) -> 0..end]
  /\ pos[0] = from /\ pos[Len(q)] = to
  /\ \A i \in 1..Len(q) :
       /\ pos[i] = pos[i - 1] + Size(q[i])
       /\ q[i].kind = "body" => q[i].data = Run(pos[i - 1], Size(q[i]))
       /\ Empty(q[i]) => pos[i] = end

Carries(q, from, to, end) ==
  \E pos \in [0..Len(q) -> 0..end] : Spans(q, pos, from, to, end)

\* The handler has nothing and will take nothing more.
Dry ==
  /\ Pending = 0
  /\ \/ sock.peer # "open" /\ sock.taken = sock.arrived
     \/ handler.pc \in {"rest_end", "recv_end"} \cup Ending
     \/ handler.pc = "put_head" /\ handler.ret = "recv_end"

Finishing == Live /\ \E i \in DOMAIN conn.s2c : Empty(conn.s2c[i])
Succeeded == Quitting /\ client.code = "SUCCESS"

\* The packet the handler is sending is the last it took from the socket.
HoldsLast ==
  handler.pc \in PutLabels =>
    /\ Len(handler.data) <= sock.taken
    /\ handler.data = Run(sock.taken - Len(handler.data), Len(handler.data))
    /\ handler.data = <<>> =>
         \/ handler.ret \in {"rest_end", "recv_end"}
         \/ sock.peer # "open" /\ sock.taken = sock.arrived

Flowing == Carries(conn.s2c, Len(client.stdout), sock.taken - Pending, sock.taken)

Flow ==
  req.cmd = "recv" =>
    /\ client.stdout = Run(0, Len(client.stdout))
    /\ Len(client.stdout) <= sock.taken
    /\ Live => HoldsLast /\ Flowing
    /\ Finishing \/ Succeeded => Dry
    /\ Succeeded => /\ Len(client.stdout) = sock.taken
                    /\ handler.cmd = "recv" /\ handler.answer # "none"

-----------------------------------------------------------------------------
(* recv with a count.                                                      *)

CountsFit == \A c \in Counts : c < Chunk

Rested == sock.taken = req.count \/ sock.peer # "open"

Counted ==
  req.cmd = "recv" /\ req.mode # "drain" =>
    /\ handler.pc \notin {"drain", "drained", "chunk", "chunked"}
    /\ handler.pc \in PutLabels => handler.ret \notin {"drained", "chunked"}
    /\ handler.pc \in Early \cup {"recv", "loop", "rest"} => sock.taken = 0
    /\ handler.pc = "loop" => handler.recv_count = 0 /\ handler.received = 0
    /\ sock.taken <= req.count
    /\ req.mode = "blocking" =>
         /\ handler.pc \in {"loop", "rest"} => sock.blocking
         /\ \/ handler.pc = "rest_end"
            \/ handler.pc \in PutLabels /\ handler.ret \in {"rest_end", "recv_end"}
            \/ Finishing \/ Succeeded
            => Rested

-----------------------------------------------------------------------------
(* send and nms_send: at most one buffer is on its way, and the peer has   *)
(* all those before it, unless it reset the connection.                    *)

Sofar(n)  == Run(MaxBytes, n)
AtPeer(n) == sock.peer # "reset" => sock.out = Sofar(n)
Taken    == req.input - client.unread

Quiet == conn.c2s = <<>> /\ conn.s2c = <<>>

PutsOne ==
  /\ client.count \in {0, 1}
  /\ client.count = 0 => client.unread = 0
  /\ client.count <= Taken

\* The buffer that awaits its code: on the stream, with the handler, at the
\* network, or acknowledged.
Underway ==
  \/ /\ conn.s2c = <<>> /\ AtPeer(Taken - client.count)
     /\ \/ handler.pc = "get_head" /\ client.count = 0 /\ conn.c2s = <<NmsHead(Buffer)>>
        \/ handler.pc = "get_head" /\ client.count = 1 /\ conn.c2s = <<NmsHead(Buffer), Body(Buffer)>>
        \/ handler.pc = "get_body" /\ client.count = 1 /\ conn.c2s = <<Body(Buffer)>>
        \/ handler.pc = "forward" /\ conn.c2s = <<>> /\ handler.data = Buffer
  \/ /\ Quiet /\ handler.pc = "ack" /\ handler.data = Buffer
     /\ AtPeer(IF handler.status = "SUCCESS" THEN Taken ELSE Taken - client.count)
  \/ /\ Quiet /\ handler.pc = "last_code" /\ client.count = 0
     /\ AtPeer(Taken)
  \/ /\ conn.c2s = <<>> /\ conn.s2c # <<>>
     /\ handler.pc \in {"get_head", "last_code"} \cup Ending
     /\ conn.s2c[1].code = "SUCCESS" =>
          /\ AtPeer(Taken)
          /\ client.count = 1 => handler.pc = "get_head" /\ Len(conn.s2c) = 1

AtCode ==
  client.pc \in {"words", "code"} =>
    /\ client.unread = req.input /\ sock.out = <<>>
    /\ handler.answer # "none" =>
         /\ conn.s2c = <<Code(handler.answer)>>
         /\ handler.pc \in {"get_head"} \cup Ending
         /\ handler.pc = "get_head" <=> handler.answer = "SUCCESS"
         /\ handler.pc = "get_head" => conn.c2s = <<>>

AtStdin ==
  client.pc = "stdin" /\ handler.answer # "none" =>
    \/ server = "down"
    \/ handler.pc = "get_head" /\ Quiet /\ AtPeer(Taken)

AtHead ==
  client.pc = "put_head" =>
    /\ PutsOne
    /\ handler.answer # "none" =>
         \/ server = "down"
         \/ handler.pc = "get_head" /\ Quiet /\ AtPeer(Taken - client.count)

AtBody ==
  client.pc = "put_body" =>
    /\ PutsOne /\ client.count = 1
    /\ handler.answer # "none" =>
         \/ server = "down"
         \/ /\ conn.s2c = <<>> /\ AtPeer(Taken - 1)
            /\ \/ handler.pc = "get_head" /\ conn.c2s = <<NmsHead(Buffer)>>
               \/ handler.pc = "get_body" /\ conn.c2s = <<>>

\* Only a server that is down cuts a body short.
AtAck ==
  client.pc = "ack" =>
    /\ PutsOne
    /\ handler.answer # "none" => Underway \/ (server = "down" /\ client.count = 1)

AtEnd ==
  Succeeded =>
    IF handler.answer = "none"
    THEN Over
    ELSE /\ AtPeer(req.input)
         /\ \/ server = "down"
            \/ conn.c2s = <<>> /\ handler.pc \in {"get_head", "last_code"} \cup Ending

Sent ==
  req.cmd \in {"send", "nms_send"} =>
    AtCode /\ AtStdin /\ AtHead /\ AtBody /\ AtAck /\ AtEnd

-----------------------------------------------------------------------------
(* Items and streams.                                                      *)

LEMMA WordItem == Word \in Item
BY DEF Item

LEMMA CodeItem ==
  ASSUME NEW c \in Codes
  PROVE  Code(c) \in Item
BY DEF Item, Code

LEMMA HeadItem ==
  ASSUME NEW d \in Seq(Nat)
  PROVE  NmsHead(d) \in Item
BY LengthBytesTyped DEF Item, NmsHead

LEMMA BodyItem ==
  ASSUME NEW d \in Seq(Nat)
  PROVE  Body(d) \in Item
BY DEF Item, Body

LEMMA HeadLength ==
  ASSUME NEW h \in Byte \X Byte
  PROVE  Length(h) \in Nat
<1>1. PICK a \in Byte, b \in Byte : h = <<a, b>>
  OBVIOUS
<1> QED
  BY <1>1 DEF Length, Byte

LEMMA ItemFields ==
  ASSUME NEW x \in Item
  PROVE  /\ x.kind = "code" => x.code \in Codes
         /\ x.kind = "head" => x.len \in Byte \X Byte /\ Length(x.len) \in Nat
         /\ x.kind = "body" => x.data \in Seq(Nat)
         /\ x.kind \in {"word", "code", "head", "body"}
BY HeadLength DEF Item, Word

LEMMA StreamIs == Stream = Seq(Item)
BY DEF Stream, Item

\* One more item at the end.
LEMMA Put ==
  ASSUME NEW q \in Seq(Item), NEW x \in Item
  PROVE  /\ Append(q, x) \in Seq(Item)
         /\ Append(q, x) # <<>>
         /\ Len(Append(q, x)) = Len(q) + 1
         /\ \A i \in 1..Len(q) : Append(q, x)[i] = q[i]
         /\ Append(q, x)[Len(q) + 1] = x
OBVIOUS

\* The first item taken.
LEMMA Take ==
  ASSUME NEW q \in Seq(Item), q # <<>>
  PROVE  /\ Tail(q) \in Seq(Item)
         /\ Len(q) >= 1 /\ q[1] \in Item
         /\ Len(Tail(q)) = Len(q) - 1
         /\ \A i \in 1..(Len(q) - 1) : Tail(q)[i] = q[i + 1]
OBVIOUS

\* What sending and receiving do to the connection.
LEMMA ServerPuts ==
  ASSUME TypeOK, NEW x \in Item, ServerPut(x)
  PROVE  /\ conn' \in ConnType /\ conn.c_open
         /\ conn' = [conn EXCEPT !.s2c = Append(conn.s2c, x)]
         /\ conn'.s2c = Append(conn.s2c, x) /\ conn'.c2s = conn.c2s
         /\ conn'.c_open = conn.c_open /\ conn'.s_open = conn.s_open
         /\ conn'.s_sends = conn.s_sends
<1>1. Append(conn.s2c, x) \in Stream
  BY StreamIs, Put DEF TypeOK, ConnType
<1> QED
  BY <1>1 DEF TypeOK, ConnType, ServerPut

LEMMA ClientPuts ==
  ASSUME TypeOK, NEW x \in Item, ClientPut(x)
  PROVE  /\ conn' \in ConnType /\ conn.s_open
         /\ conn'.c2s = Append(conn.c2s, x) /\ conn'.s2c = conn.s2c
         /\ conn'.c_open = conn.c_open /\ conn'.s_open = conn.s_open
         /\ conn'.s_sends = conn.s_sends
<1>1. Append(conn.c2s, x) \in Stream
  BY StreamIs, Put DEF TypeOK, ConnType
<1> QED
  BY <1>1 DEF TypeOK, ConnType, ClientPut

LEMMA ServerTook ==
  ASSUME TypeOK, NEW kind, ServerTakes(kind)
  PROVE  /\ conn' \in ConnType
         /\ conn.c2s # <<>> /\ conn.c2s[1] \in Item /\ conn.c2s[1].kind = kind
         /\ conn'.c2s = Tail(conn.c2s) /\ conn'.s2c = conn.s2c
         /\ conn'.c_open = conn.c_open /\ conn'.s_open = conn.s_open
         /\ conn'.s_sends = conn.s_sends
<1>1. Tail(conn.c2s) \in Stream /\ conn.c2s[1] \in Item
  BY StreamIs, Take DEF TypeOK, ConnType, ServerTakes
<1> QED
  BY <1>1 DEF TypeOK, ConnType, ServerTakes

LEMMA ClientTook ==
  ASSUME TypeOK, NEW kind, ClientTakes(kind)
  PROVE  /\ conn' \in ConnType
         /\ conn.s2c # <<>> /\ conn.s2c[1] \in Item /\ conn.s2c[1].kind = kind
         /\ conn'.s2c = Tail(conn.s2c) /\ conn'.c2s = conn.c2s
         /\ conn'.c_open = conn.c_open /\ conn'.s_open = conn.s_open
         /\ conn'.s_sends = conn.s_sends
<1>1. Tail(conn.s2c) \in Stream /\ conn.s2c[1] \in Item
  BY StreamIs, Take DEF TypeOK, ConnType, ClientTakes
<1> QED
  BY <1>1 DEF TypeOK, ConnType, ClientTakes

\* The server's end of the connection goes, the streams stay.
LEMMA ServerEnded ==
  ASSUME TypeOK, conn' = [conn EXCEPT !.s_open = FALSE, !.s_sends = FALSE]
  PROVE  /\ conn' \in ConnType
         /\ conn'.c2s = conn.c2s /\ conn'.s2c = conn.s2c
         /\ conn'.c_open = conn.c_open /\ ~conn'.s_open /\ ~conn'.s_sends
BY DEF TypeOK, ConnType

LEMMA HeadsAppend ==
  ASSUME NEW q \in Seq(Item), HeadsFit(q), NEW x \in Item,
         x.kind = "head" => Length(x.len) <= Chunk
  PROVE  HeadsFit(Append(q, x))
BY Put DEF HeadsFit

LEMMA HeadsTail ==
  ASSUME NEW q \in Seq(Item), HeadsFit(q), q # <<>>
  PROVE  HeadsFit(Tail(q))
BY Take DEF HeadsFit

LEMMA Constants ==
  /\ Chunk \in Nat /\ Chunk >= 1 /\ Chunk <= 65535
  /\ MaxUInt \in Nat /\ MaxItems \in Nat /\ MaxBytes \in Nat /\ MaxInput \in Nat
  /\ Cmds \subseteq AllCmds /\ Counts \subseteq Nat
<1>1. Chunk \in Uint16 \ {0}
  BY SessionAssumption, Zenon DEF SessionAssumption
<1>2. Chunk \in Nat /\ Chunk >= 1 /\ Chunk <= 65535
  BY <1>1 DEF Uint16
<1>3. Cmds \subseteq AllCmds /\ Counts \subseteq Nat
  BY SessionAssumption, Zenon DEF SessionAssumption
<1>4. {MaxBytes, MaxInput, MaxItems} \subseteq Nat /\ MaxUInt \in Nat
  BY SessionAssumption, Zenon DEF SessionAssumption
<1>5. MaxBytes \in Nat /\ MaxInput \in Nat /\ MaxItems \in Nat
  BY <1>4
<1> QED
  BY <1>2, <1>3, <1>4, <1>5

LEMMA Parts ==
  ASSUME Typed
  PROVE  /\ conn \in ConnType /\ client \in ClientType /\ handler \in HandlerType
         /\ sock \in SockType /\ server \in {"up", "down"}
         /\ conn.s2c \in Seq(Item) /\ conn.c2s \in Seq(Item) /\ HeadsFit(conn.s2c)
<1>1. conn \in ConnType
  BY DEF Typed, TypeOK
<1> QED
  BY <1>1, StreamIs DEF Typed, TypeOK, ConnType, Held

LEMMA ClientFields ==
  ASSUME TypeOK
  PROVE  /\ client \in ClientType
         /\ client.pc \in ClientLabels /\ client.left \in 0..3 /\ client.unread \in 0..MaxInput
         /\ client.count \in 0..Chunk /\ client.code \in Ends \cup {"none"}
         /\ client.stdout \in Seq(Nat)
<1>1. client \in ClientType
  BY DEF TypeOK
<1> QED
  BY <1>1 DEF ClientType

-----------------------------------------------------------------------------
(* The client's steps keep the types.                                      *)

LEMMA ExitTyped ==
  ASSUME TypeOK, NEW code \in Ends, Exit(code)
  PROVE  /\ client' \in ClientType /\ client'.unread = client.unread
         /\ client'.pc = "closing" /\ client'.code = code
         /\ client'.count = client.count /\ client'.left = client.left
         /\ client'.stdout = client.stdout
<1>1. "closing" \in ClientLabels /\ code \in Ends \cup {"none"}
  BY DEF ClientLabels
<1>2. client' \in ClientType
  BY <1>1, ClientFields, Zenon DEF ClientType, Exit
<1> QED
  BY <1>2, ClientFields DEF ClientType, Exit

LEMMA ClientGotoTyped ==
  ASSUME TypeOK, NEW l \in {"code", "head", "stdin", "put_body", "ack", "exited"},
         ClientGoto(l)
  PROVE  /\ client' \in ClientType /\ client'.unread = client.unread
         /\ client'.pc = l /\ client'.code = client.code
         /\ client'.count = client.count /\ client'.left = client.left
         /\ client'.stdout = client.stdout
<1>1. l \in ClientLabels
  BY DEF ClientLabels
<1>2. client' \in ClientType
  BY <1>1, ClientFields, Zenon DEF ClientType, ClientGoto
<1> QED
  BY <1>2, ClientFields DEF ClientType, ClientGoto

LEMMA ConnectTyped ==
  ASSUME Typed, Connect
  PROVE  Typed'
<1>1. PICK r \in Request :
        /\ req' = r
        /\ client' = [client EXCEPT !.pc = "words", !.unread = r.input,
                                    !.left = IF r.few THEN 2 ELSE 3]
  BY DEF Connect
<1>2. r.input \in 0..MaxInput /\ (IF r.few THEN 2 ELSE 3) \in 0..3
  BY DEF Request
<1>3. client' \in ClientType /\ client'.unread = r.input
  <2>1. "words" \in ClientLabels
    BY DEF ClientLabels
  <2>2. client' \in ClientType
    BY <1>1, <1>2, <2>1, Parts, Zenon DEF ClientType
  <2> QED
    BY <1>1, <2>2, Parts DEF ClientType
<1>4. conn' \in ConnType /\ conn'.s2c = conn.s2c
  BY DEF Connect, Typed, TypeOK, ConnType
<1> QED
  BY <1>1, <1>2, <1>3, <1>4 DEF Connect, Typed, TypeOK, Held, HeadsFit

LEMMA SendWordTyped ==
  ASSUME Typed, SendWord
  PROVE  Typed'
<1>1. conn' \in ConnType /\ conn'.s2c = conn.s2c
  BY ClientPuts, WordItem DEF SendWord, Typed, TypeOK
<1>2. client' \in ClientType /\ client'.unread = client.unread
  <2>1. CASE client.left > 0 /\ client' = [client EXCEPT !.left = @ - 1]
    BY <2>1 DEF Typed, TypeOK, ClientType
  <2> QED
    BY <2>1, ExitTyped, ClientGotoTyped DEF SendWord, Typed, Ends, Codes
<1> QED
  BY <1>1, <1>2 DEF SendWord, Typed, TypeOK, Held

LEMMA CodeTaken ==
  ASSUME Typed, NEW code \in Ends, RecvCode(code)
  PROVE  /\ conn' \in ConnType /\ HeadsFit(conn'.s2c)
         /\ conn'.c2s = conn.c2s /\ conn'.c_open = conn.c_open
         /\ conn'.s_open = conn.s_open /\ conn'.s_sends = conn.s_sends
<1>1. CASE ClientTakes("code")
  BY <1>1, ClientTook, HeadsTail, StreamIs DEF Typed, TypeOK, ConnType, Held
<1>2. CASE ClientHearsEnd
  BY <1>2 DEF ClientHearsEnd, Typed, TypeOK, Held
<1> QED
  BY <1>1, <1>2 DEF RecvCode

LEMMA ReadCodeTyped ==
  ASSUME Typed, ReadCode
  PROVE  Typed'
<1>1. conn' \in ConnType /\ HeadsFit(conn'.s2c)
  BY CodeTaken DEF ReadCode, Typed, TypeOK, Held
<1>2. client' \in ClientType /\ client'.unread = client.unread
  BY ExitTyped, ClientGotoTyped DEF ReadCode, Typed, Ends, Codes
<1> QED
  BY <1>1, <1>2 DEF ReadCode, Typed, TypeOK, Held

LEMMA ReadHeadTyped ==
  ASSUME Typed, ReadHead
  PROVE  Typed'
<1>1. conn' \in ConnType /\ HeadsFit(conn'.s2c)
  <2>1. CASE ClientTakes("head")
    BY <2>1, ClientTook, HeadsTail, StreamIs DEF Typed, TypeOK, ConnType, Held
  <2>2. CASE ClientHearsEnd
    BY <2>2 DEF ClientHearsEnd, Typed, TypeOK, Held
  <2> QED
    BY <2>1, <2>2 DEF ReadHead
<1>2. client' \in ClientType /\ client'.unread = client.unread
  <2>1. CASE \E c \in {"SUCCESS", "NMS_ZERO_SIZE", "CRASHED", "IPC_ERROR"} : Exit(c)
    BY <2>1, ExitTyped DEF Typed, Ends, Codes
  <2>2. CASE /\ ClientTakes("head")
             /\ client' = [client EXCEPT !.pc = "body", !.count = Length(conn.s2c[1].len)]
    <3>1. Length(conn.s2c[1].len) \in 0..Chunk
      BY <2>2, ClientTook, ItemFields, StreamIs DEF Typed, TypeOK, ConnType, Held, HeadsFit
    <3>2. "body" \in ClientLabels
      BY DEF ClientLabels
    <3>3. client' \in ClientType
      BY <2>2, <3>1, <3>2, Parts, Zenon DEF ClientType
    <3> QED
      BY <2>2, <3>3, Parts DEF ClientType
  <2> QED
    BY <2>1, <2>2 DEF ReadHead, EmptyPacket
<1> QED
  BY <1>1, <1>2 DEF ReadHead, Typed, TypeOK, Held

LEMMA ReadBodyTyped ==
  ASSUME Typed, ReadBody
  PROVE  Typed'
<1>1. CASE ClientTakes("body")
  <2>1. conn' \in ConnType /\ HeadsFit(conn'.s2c) /\ conn.s2c[1].data \in Seq(Nat)
    BY <1>1, ClientTook, HeadsTail, StreamIs, ItemFields
       DEF Typed, TypeOK, ConnType, Held
  <2>2. client.stdout \o conn.s2c[1].data \in Seq(Nat)
    BY <2>1 DEF Typed, TypeOK, ClientType
  <2>3. client' \in ClientType /\ client'.unread = client.unread
    <3>1. PICK l \in {"head", "closing"}, c \in {client.code, "SUCCESS"} :
            client' = [client EXCEPT !.pc = l, !.stdout = client.stdout \o conn.s2c[1].data,
                                     !.code = c]
      <4>1. conn.s2c # <<>>
        BY <1>1 DEF ClientTakes
      <4>2. \/ client' = [client EXCEPT !.pc = "head",
                            !.stdout = client.stdout \o conn.s2c[1].data]
            \/ client' = [client EXCEPT !.pc = "closing",
                            !.stdout = client.stdout \o conn.s2c[1].data,
                            !.code = "SUCCESS"]
        BY <4>1, Zenon DEF ReadBody, ClientHearsEnd
      <4>3. [client EXCEPT !.pc = "head", !.stdout = client.stdout \o conn.s2c[1].data]
              = [client EXCEPT !.pc = "head", !.stdout = client.stdout \o conn.s2c[1].data,
                               !.code = client.code]
        BY Parts, Zenon DEF ClientType
      <4> QED
        BY <4>2, <4>3, Zenon
    <3>2. l \in ClientLabels /\ c \in Ends \cup {"none"}
      BY ClientFields DEF Typed, ClientLabels, Ends, Codes
    <3>3. client' \in ClientType
      BY <2>2, <3>1, <3>2, Parts, Zenon DEF ClientType
    <3> QED
      BY <3>1, <3>3, Parts DEF ClientType
  <2> QED
    BY <2>1, <2>3 DEF ReadBody, Typed, TypeOK, Held
<1>2. CASE ClientHearsEnd /\ Exit("IPC_ERROR")
  BY <1>2, ExitTyped DEF ReadBody, ClientHearsEnd, Typed, TypeOK, Held, Ends, Codes
<1> QED
  BY <1>1, <1>2 DEF ReadBody

LEMMA UnreadTyped ==
  ASSUME Typed
  PROVE  /\ req.input \in 0..MaxInput /\ client.unread \in 0..MaxInput
         /\ client.unread <= req.input /\ MaxInput \in Nat /\ MaxBytes \in Nat
<1>1. MaxInput \in Nat /\ MaxBytes \in Nat
  BY Constants
<1>2. req.input \in 0..MaxInput
  BY <1>1 DEF Typed, TypeOK, Request, NoRequest
<1>3. client.unread \in 0..MaxInput
  BY DEF Typed, TypeOK, ClientType
<1> QED
  BY <1>1, <1>2, <1>3 DEF Typed, Held

LEMMA ReadStdinTyped ==
  ASSUME Typed, ReadStdin
  PROVE  Typed'
<1>1. /\ client.unread \in 0..MaxInput /\ client.unread <= req.input
      /\ {0, 1} \subseteq 0..Chunk /\ MaxInput \in Nat
      /\ req.input \in Nat
  BY UnreadTyped, Constants
<1>2. DEFINE n == IF client.unread = 0 THEN 0 ELSE client.unread - 1
             c == IF client.unread = 0 THEN 0 ELSE 1
<1>3. n \in 0..MaxInput /\ n <= req.input /\ c \in 0..Chunk
  BY <1>1
<1>4. client' = [client EXCEPT !.pc = "put_head", !.unread = n, !.count = c]
  BY DEF ReadStdin, Typed, TypeOK, ClientType
<1> HIDE DEF n, c
<1>5. client' \in ClientType /\ client'.unread = n
  <2>1. "put_head" \in ClientLabels
    BY DEF ClientLabels
  <2>2. client' \in ClientType
    BY <1>3, <1>4, <2>1, Parts, Zenon DEF ClientType
  <2> QED
    BY <1>4, <2>2, Parts DEF ClientType
<1> QED
  BY <1>3, <1>5 DEF ReadStdin, Typed, TypeOK, Held

LEMMA BufferTyped ==
  ASSUME Typed
  PROVE  Buffer \in Seq(Nat)
<1>1. MaxBytes + (req.input - client.unread) \in Nat
  BY UnreadTyped
<1> QED
  BY <1>1 DEF Buffer, Input

LEMMA PutPacketTyped ==
  ASSUME Typed, PutPacket
  PROVE  Typed'
<1>1. conn' \in ConnType /\ conn'.s2c = conn.s2c
  BY BufferTyped, HeadItem, BodyItem, ClientPuts DEF PutPacket, Typed, TypeOK
<1>2. client' \in ClientType /\ client'.unread = client.unread
  BY ExitTyped, ClientGotoTyped DEF PutPacket, Typed, Ends, Codes
<1> QED
  BY <1>1, <1>2 DEF PutPacket, Typed, TypeOK, Held

LEMMA ReadAckTyped ==
  ASSUME Typed, ReadAck
  PROVE  Typed'
<1>1. conn' \in ConnType /\ HeadsFit(conn'.s2c)
  BY CodeTaken DEF ReadAck
<1>2. client' \in ClientType /\ client'.unread = client.unread
  BY ExitTyped, ClientGotoTyped DEF ReadAck, Typed
<1> QED
  BY <1>1, <1>2 DEF ReadAck, Typed, TypeOK, Held

LEMMA ClientLeavesTyped ==
  ASSUME Typed, CloseClient \/ Kill
  PROVE  Typed'
<1>1. conn' \in ConnType /\ conn'.s2c = conn.s2c
  BY DEF CloseClient, Kill, Typed, TypeOK, ConnType
<1>2. client' \in ClientType /\ client'.unread = client.unread
  <2>1. CASE CloseClient
    BY <2>1, ClientGotoTyped DEF CloseClient, Typed
  <2>2. CASE Kill
    <3>1. "exited" \in ClientLabels /\ "KILLED" \in Ends \cup {"none"}
      BY DEF ClientLabels, Ends
    <3>2. client' \in ClientType
      BY <2>2, <3>1, Parts, Zenon DEF Kill, ClientType
    <3> QED
      BY <2>2, <3>2, Parts DEF Kill, ClientType
  <2> QED
    BY <2>1, <2>2
<1> QED
  BY <1>1, <1>2 DEF CloseClient, Kill, Typed, TypeOK, Held

-----------------------------------------------------------------------------
(* The server's steps keep the types.                                      *)

LEMMA HandlerLabelsAre ==
  HandlerLabels =
    Early \cup RecvLabels \cup SendLabels \cup PutLabels \cup Ending \cup {"items"}
BY DEF HandlerLabels, Early, RecvLabels, SendLabels, PutLabels, Ending

LEMMA ReturnsAre ==
  /\ PutReturns \subseteq Returns /\ GetReturns \subseteq Returns
  /\ PutReturns \cup GetReturns \subseteq HandlerLabels
  /\ PutReturns \cap (PutLabels \cup SendLabels \cup Early) = {}
BY DEF Returns, PutReturns, GetReturns, HandlerLabels, PutLabels, SendLabels, Early

LEMMA HandlerFields ==
  ASSUME Typed
  PROVE  /\ handler.pc \in HandlerLabels /\ handler.words \in 0..2
         /\ handler.heard \in BOOLEAN /\ handler.cmd \in AllCmds
         /\ handler.items \in 0..MaxItems /\ handler.answer \in Codes \cup {"none"}
         /\ handler.data \in Seq(Nat) /\ handler.ret \in Returns
         /\ handler.failed \in BOOLEAN /\ handler.received \in -1..Chunk
         /\ handler.recv_count \in 0..MaxUInt /\ handler.status \in Codes
BY Parts DEF HandlerType

\* A step of the handler that only goes on.
LEMMA GotoTyped ==
  ASSUME TypeOK, NEW l \in HandlerLabels, ServerGoto(l)
  PROVE  /\ handler' \in HandlerType /\ handler'.pc = l
         /\ handler'.words = handler.words /\ handler'.heard = handler.heard
         /\ handler'.cmd = handler.cmd /\ handler'.items = handler.items
         /\ handler'.answer = handler.answer /\ handler'.data = handler.data
         /\ handler'.ret = handler.ret /\ handler'.failed = handler.failed
         /\ handler'.received = handler.received
         /\ handler'.recv_count = handler.recv_count
         /\ handler'.status = handler.status
<1>1. handler \in HandlerType
  BY DEF TypeOK
<1>2. handler' \in HandlerType
  BY <1>1, Zenon DEF HandlerType, ServerGoto
<1> QED
  BY <1>1, <1>2 DEF HandlerType, ServerGoto

LEMMA AcceptClientTyped ==
  ASSUME Typed, AcceptClient
  PROVE  Typed'
<1>1. handler' \in HandlerType /\ handler'.pc = "argc"
  BY GotoTyped DEF AcceptClient, Typed, HandlerLabels
<1> QED
  BY <1>1 DEF AcceptClient, Typed, TypeOK, Held, HandlerHeld, PutLabels, SendLabels

LEMMA ServerEndsTyped ==
  ASSUME Typed, ServerEnds
  PROVE  Typed'
BY ServerEnded DEF ServerEnds, Typed, TypeOK, Held

LEMMA RecvArgcTyped ==
  ASSUME Typed, RecvArgc
  PROVE  Typed'
<1>1. CASE ServerTakes("word") /\ UNCHANGED <<req, server, client, sock>>
           /\ handler' = [handler EXCEPT !.pc = "words", !.heard = TRUE,
                                         !.words = WordsSent]
  <2>1. conn' \in ConnType /\ conn'.s2c = conn.s2c
    BY <1>1, ServerTook DEF Typed
  <2>2. WordsSent \in 0..2 /\ "words" \in HandlerLabels
    BY DEF WordsSent, HandlerLabels
  <2>3. handler' \in HandlerType
    BY <1>1, <2>2, Parts, Zenon DEF HandlerType
  <2>4. handler'.pc = "words"
    BY <1>1, Parts DEF HandlerType
  <2> QED
    BY <1>1, <2>1, <2>3, <2>4 DEF Typed, TypeOK, Held, HandlerHeld, PutLabels, SendLabels
<1>2. CASE ServerHearsEnd /\ ServerGoto("shut") /\ UNCHANGED <<req, server, client, sock>>
  <2>1. handler' \in HandlerType /\ handler'.pc = "shut"
    BY <1>2, GotoTyped DEF Typed, HandlerLabels
  <2> QED
    BY <1>2, <2>1 DEF ServerHearsEnd, Typed, TypeOK, Held, HandlerHeld, PutLabels, SendLabels
<1> QED
  BY <1>1, <1>2, ServerEndsTyped DEF RecvArgc

LEMMA RecvWordTyped ==
  ASSUME Typed, RecvWord
  PROVE  Typed'
<1>1. conn' \in ConnType /\ conn'.s2c = conn.s2c
  BY ServerTook DEF RecvWord, ServerHearsEnd, Typed, TypeOK
<1>2. handler' \in HandlerType /\ handler'.pc \in {"words", "dispatch", "shut"}
  <2>1. CASE /\ handler.words > 0
             /\ \E b \in BOOLEAN :
                  handler' = [handler EXCEPT !.words = handler.words - 1, !.heard = b]
    <3>1. PICK b \in BOOLEAN :
            handler' = [handler EXCEPT !.words = handler.words - 1, !.heard = b]
      BY <2>1
    <3>2. handler.words - 1 \in 0..2
      BY <2>1, HandlerFields
    <3>3. handler' \in HandlerType
      BY <3>1, <3>2, Parts, Zenon DEF HandlerType
    <3> QED
      BY <3>1, <3>3, Parts DEF HandlerType, RecvWord, ServerAt
  <2>2. CASE ServerGoto("dispatch") \/ ServerGoto("shut")
    BY <2>2, GotoTyped DEF Typed, HandlerLabels
  <2>3. CASE handler.words > 0 /\ handler' = [handler EXCEPT !.words = handler.words - 1]
    <3>1. handler' = [handler EXCEPT !.words = handler.words - 1, !.heard = handler.heard]
      BY <2>3, Parts, Zenon DEF HandlerType
    <3> QED
      BY <2>1, <2>3, <3>1, HandlerFields
  <2> QED
    BY <2>1, <2>2, <2>3, HandlerFields DEF RecvWord
<1> QED
  BY <1>1, <1>2 DEF RecvWord, Typed, TypeOK, Held, HandlerHeld, PutLabels, SendLabels

\* What Dispatch does once the command is known.
Dispatches(cmd) ==
  \/ cmd = "unknown" /\ ServerGoto("shut") /\ UNCHANGED <<server, conn>>
  \/ /\ cmd = "exit" \/ (cmd = "send" /\ req.few)
     /\ server' = "down"
     /\ conn' = [conn EXCEPT !.s_open = FALSE, !.s_sends = FALSE]
     /\ UNCHANGED handler
  \/ /\ cmd \notin {"unknown", "exit"}
     /\ \E l \in {"network", "code"} : handler' = [handler EXCEPT !.cmd = cmd, !.pc = l]
     /\ UNCHANGED <<server, conn>>

LEMMA DispatchOf ==
  ASSUME Typed, Dispatch
  PROVE  \E cmd \in AllCmds :
           /\ handler.heard => cmd = req.cmd
           /\ Dispatches(cmd)
<1>1. req.cmd \in AllCmds /\ Cmds \subseteq AllCmds /\ "unknown" \in AllCmds
  BY Constants DEF Typed, TypeOK, Request, NoRequest, AllCmds
<1> QED
  BY <1>1 DEF Dispatch, Dispatches

LEMMA DispatchTyped ==
  ASSUME Typed, Dispatch
  PROVE  Typed'
<1>1. PICK cmd \in AllCmds : Dispatches(cmd)
  BY DispatchOf
<1>2. conn' \in ConnType /\ conn'.s2c = conn.s2c /\ server' \in {"up", "down"}
  BY <1>1, ServerEnded DEF Dispatches, Typed, TypeOK
<1>3. handler' \in HandlerType /\ HandlerHeld(handler')
  <2>1. CASE cmd \notin {"unknown", "exit"} /\ \E l \in {"network", "code"} :
               handler' = [handler EXCEPT !.cmd = cmd, !.pc = l]
    <3>1. PICK l \in {"network", "code"} :
            handler' = [handler EXCEPT !.cmd = cmd, !.pc = l]
      BY <2>1
    <3>2. l \in HandlerLabels
      BY DEF HandlerLabels
    <3>3. handler' \in HandlerType
      BY <3>1, <3>2, Parts, Zenon DEF HandlerType
    <3>4. handler'.pc = l /\ handler'.cmd = cmd
      BY <3>1, Parts DEF HandlerType
    <3> QED
      BY <2>1, <3>3, <3>4 DEF HandlerHeld, PutLabels, SendLabels
  <2>2. CASE ServerGoto("shut")
    BY <2>2, GotoTyped DEF Typed, HandlerLabels, HandlerHeld, PutLabels, SendLabels
  <2>3. CASE UNCHANGED handler
    BY <2>3 DEF Typed, TypeOK, Held
  <2> QED
    BY <1>1, <2>1, <2>2, <2>3 DEF Dispatches
<1> QED
  BY <1>2, <1>3 DEF Dispatch, Typed, TypeOK, Held

LEMMA NetworkReturnsTyped ==
  ASSUME Typed, NetworkReturns
  PROVE  Typed'
<1>1. /\ handler' \in HandlerType /\ handler'.pc = "code" /\ handler.pc = "network"
      /\ handler'.cmd = handler.cmd
  BY GotoTyped DEF NetworkReturns, ServerAt, Typed, HandlerLabels
<1> QED
  BY <1>1 DEF NetworkReturns, Typed, TypeOK, Held, HandlerHeld, PutLabels, SendLabels

LEMMA SendCodeTyped ==
  ASSUME Typed, NEW code \in Codes, SendCode(code)
  PROVE  conn' \in ConnType /\ HeadsFit(conn'.s2c)
<1>1. CASE ServerPut(Code(code))
  <2>1. Code(code) \in Item /\ Code(code).kind # "head"
    BY CodeItem DEF Code
  <2>2. conn' \in ConnType /\ conn'.s2c = Append(conn.s2c, Code(code))
    BY <1>1, <2>1, ServerPuts DEF Typed
  <2> QED
    BY <2>1, <2>2, HeadsAppend, Parts
<1>2. CASE UNCHANGED conn
  BY <1>2, Parts
<1> QED
  BY <1>1, <1>2 DEF SendCode

LEMMA OutcomesTyped ==
  ASSUME NEW cmd \in AllCmds \ {"exit", "unknown"}
  PROVE  Outcomes(cmd) \subseteq Codes
BY DEF AllCmds, CodeCmds, Outcomes, Codes

AfterCodes == {"put_head", "items", "recv", "get_head", "shut"}

LEMMA AfterCodeTyped ==
  ASSUME NEW cmd, NEW code
  PROVE  AfterCode(cmd, code) \in AfterCodes
BY DEF AfterCode, AfterCodes

LEMMA AnswerCodeTyped ==
  ASSUME Typed, AnswerCode
  PROVE  Typed'
<1>1. PICK code \in IF req.few /\ handler.cmd \notin {"send", "list"}
                    THEN {"INVALID_ARGS"} ELSE Outcomes(handler.cmd),
           data \in {<<>>, Text} :
        /\ SendCode(code)
        /\ handler' = [handler EXCEPT !.pc = AfterCode(handler.cmd, code),
                         !.answer = code, !.data = data, !.ret = "shut"]
  BY DEF AnswerCode
<1>2. code \in Codes
  <2>1. handler.cmd \in AllCmds \ {"exit", "unknown"}
    BY HandlerFields DEF AnswerCode, ServerAt, Typed, Held, HandlerHeld
  <2> QED
    BY <1>1, <2>1, OutcomesTyped DEF Codes
<1>3. data \in Seq(Nat) /\ Len(data) <= Chunk
  <2>1. CASE data = <<>>
    BY <2>1, Constants
  <2>2. CASE data = <<0>>
    BY <2>2, Constants
  <2> QED
    BY <1>1, <2>1, <2>2 DEF Text
<1>4. handler' \in HandlerType
  <2>1. /\ AfterCode(handler.cmd, code) \in HandlerLabels
        /\ "shut" \in Returns
    BY AfterCodeTyped DEF AfterCodes, HandlerLabels, Returns
  <2> QED
    BY <1>1, <1>2, <1>3, <2>1, Parts, Zenon DEF HandlerType
<1>5. handler'.pc \in AfterCodes /\ handler'.ret = "shut" /\ handler'.data = data
  BY <1>1, AfterCodeTyped, Parts DEF HandlerType
<1>6. HandlerHeld(handler')
  BY <1>3, <1>5 DEF AfterCodes, HandlerHeld, PutReturns, GetReturns
<1>7. conn' \in ConnType /\ HeadsFit(conn'.s2c)
  BY <1>1, <1>2, SendCodeTyped
<1> QED
  BY <1>4, <1>6, <1>7 DEF AnswerCode, Typed, TypeOK, Held

LEMMA PutHeld ==
  ASSUME Typed, handler.pc \in PutLabels
  PROVE  /\ handler.data \in Seq(Nat) /\ handler.ret \in PutReturns
         /\ Len(handler.data) \in Nat
         /\ Len(handler.data) <= Chunk /\ Len(handler.data) <= 65535
         /\ NmsHead(handler.data) \in Item /\ NmsHead(handler.data).kind = "head"
         /\ Length(NmsHead(handler.data).len) = Len(handler.data)
         /\ Body(handler.data) \in Item /\ Body(handler.data).kind = "body"
         /\ Body(handler.data).data = handler.data
<1>1. handler.data \in Seq(Nat) /\ Len(handler.data) \in Nat
  BY HandlerFields
<1>2. handler.ret \in PutReturns /\ Len(handler.data) <= Chunk
  BY DEF Typed, Held, HandlerHeld
<1>3. Len(handler.data) <= 65535
  BY <1>1, <1>2, Constants
<1>4. Length(NmsHead(handler.data).len) = Len(handler.data)
  BY <1>1, <1>3, LengthRoundTrip DEF NmsHead
<1>5. NmsHead(handler.data) \in Item /\ NmsHead(handler.data).kind = "head"
  BY <1>1, HeadItem DEF NmsHead
<1>6. /\ Body(handler.data) \in Item /\ Body(handler.data).kind = "body"
      /\ Body(handler.data).data = handler.data
  BY <1>1, BodyItem DEF Body
<1> QED
  BY <1>1, <1>2, <1>3, <1>4, <1>5, <1>6

LEMMA SendPacketTyped ==
  ASSUME Typed, SendPacket
  PROVE  Typed'
<1>0. handler.pc \in PutLabels /\ handler.ret \in PutReturns
  BY PutHeld DEF SendPacket, PutLabels
<1>1. conn' \in ConnType /\ HeadsFit(conn'.s2c)
  <2>1. CASE \E x \in Item : /\ ServerPut(x)
                             /\ x.kind = "head" => Length(x.len) <= Chunk
    <3>1. PICK x \in Item : ServerPut(x) /\ (x.kind = "head" => Length(x.len) <= Chunk)
      BY <2>1
    <3>2. conn' \in ConnType /\ conn'.s2c = Append(conn.s2c, x)
      BY <3>1, ServerPuts DEF Typed
    <3> QED
      BY <3>1, <3>2, HeadsAppend, Parts
  <2>2. CASE UNCHANGED conn
    BY <2>2, Parts
  <2>3. /\ NmsHead(handler.data) \in Item
        /\ Length(NmsHead(handler.data).len) <= Chunk
        /\ Body(handler.data) \in Item /\ Body(handler.data).kind # "head"
    BY <1>0, PutHeld
  <2> QED
    BY <2>1, <2>2, <2>3 DEF SendPacket
<1>2. /\ handler' \in HandlerType
      /\ handler'.data = handler.data /\ handler'.ret = handler.ret
      /\ handler'.pc \in PutReturns \cup {"put_body"}
  <2>1. CASE \E l \in PutReturns \cup {"put_body"} : ServerGoto(l)
    <3>1. PutReturns \cup {"put_body"} \subseteq HandlerLabels
      BY ReturnsAre DEF HandlerLabels
    <3> QED
      BY <2>1, <3>1, GotoTyped DEF Typed
  <2>2. CASE handler' = [handler EXCEPT !.pc = handler.ret, !.failed = TRUE]
    <3>1. handler.ret \in HandlerLabels
      BY <1>0, ReturnsAre
    <3>2. handler' \in HandlerType
      BY <2>2, <3>1, Parts, Zenon DEF HandlerType
    <3> QED
      BY <1>0, <2>2, <3>2, Parts DEF HandlerType
  <2> QED
    BY <1>0, <2>1, <2>2 DEF SendPacket
<1>3. HandlerHeld(handler')
  <2>1. handler'.pc \notin SendLabels \cup {"network", "code"}
    BY <1>2, ReturnsAre DEF SendLabels, Early
  <2> QED
    BY <1>0, <1>2, <2>1, PutHeld DEF HandlerHeld
<1> QED
  BY <1>1, <1>2, <1>3 DEF SendPacket, Typed, TypeOK, Held

\* What starts a packet.
StartsPacket(data, ret, items, received, failed) ==
  handler' = [handler EXCEPT !.pc = "put_head", !.data = data, !.ret = ret,
                !.items = items, !.received = received, !.failed = failed]

LEMMA PacketTyped ==
  ASSUME Typed, NEW data \in Seq(Nat), Len(data) <= Chunk, NEW ret \in PutReturns,
         NEW items \in 0..MaxItems, NEW received \in -1..Chunk, NEW failed \in BOOLEAN,
         StartsPacket(data, ret, items, received, failed)
  PROVE  handler' \in HandlerType /\ HandlerHeld(handler')
<1>1. ret \in Returns /\ "put_head" \in HandlerLabels
  BY ReturnsAre DEF HandlerLabels
<1>2. handler' \in HandlerType
  BY <1>1, Parts, Zenon DEF HandlerType, StartsPacket
<1>3. handler'.pc = "put_head" /\ handler'.data = data /\ handler'.ret = ret
  BY Parts DEF HandlerType, StartsPacket
<1> QED
  BY <1>2, <1>3 DEF HandlerHeld, PutLabels, SendLabels

LEMMA EmptyPacketTyped ==
  ASSUME Typed, NEW ret \in PutReturns, Packet(<<>>, ret)
  PROVE  handler' \in HandlerType /\ HandlerHeld(handler')
<1>1. StartsPacket(<<>>, ret, handler.items, handler.received, FALSE)
  BY Parts, Zenon DEF Packet, StartsPacket, HandlerType
<1>2. <<>> \in Seq(Nat) /\ Len(<<>>) <= Chunk
  BY Constants
<1> QED
  BY <1>1, <1>2, HandlerFields, PacketTyped

LEMMA SendItemTyped ==
  ASSUME Typed, SendItem
  PROVE  Typed'
<1>1. handler' \in HandlerType /\ HandlerHeld(handler')
  <2>1. CASE /\ handler.items < MaxItems
             /\ handler' = [handler EXCEPT !.pc = "put_head", !.data = Text,
                              !.ret = "items", !.items = @ + 1]
    <3>1. StartsPacket(Text, "items", handler.items + 1, handler.received, handler.failed)
      BY <2>1, Parts, Zenon DEF HandlerType, StartsPacket
    <3>2. Text \in Seq(Nat) /\ Len(Text) <= Chunk
      BY Constants DEF Text
    <3>3. handler.items + 1 \in 0..MaxItems
      BY <2>1, Constants, HandlerFields
    <3> QED
      BY <3>1, <3>2, <3>3, HandlerFields, PacketTyped DEF PutReturns
  <2>2. CASE Packet(<<>>, "shut")
    BY <2>2, EmptyPacketTyped DEF PutReturns
  <2> QED
    BY <2>1, <2>2 DEF SendItem
<1> QED
  BY <1>1 DEF SendItem, Typed, TypeOK, Held

-----------------------------------------------------------------------------
(* The handlers of recv, send and nms_send keep the types.                 *)

LEMMA SockFields ==
  ASSUME Typed
  PROVE  /\ sock.arrived \in Nat /\ sock.taken \in Nat /\ sock.taken <= sock.arrived
         /\ sock.arrived <= MaxBytes
         /\ sock.peer \in {"open", "closed", "reset"} /\ sock.blocking \in BOOLEAN
         /\ sock.out \in Seq(Nat)
<1>1. sock.taken <= sock.arrived
  BY DEF Typed, Held
<1> QED
  BY <1>1, Parts, Constants DEF SockType

\* What a call of recv returns, and when.
LEMMA ReceivedIs ==
  ASSUME Typed, NEW size \in Nat, NEW waitall \in BOOLEAN, NEW n \in Received(size, waitall)
  PROVE  /\ n \in Int /\ -1 <= n /\ n <= size
         /\ n >= 0 => sock.taken + n <= sock.arrived
         /\ n = 0 => size = 0 \/ (sock.peer # "open" /\ sock.taken = sock.arrived)
         /\ n = -1 => sock.taken = sock.arrived
         /\ n = -1 /\ sock.blocking => sock.peer # "open"
         /\ n >= 0 /\ waitall /\ sock.blocking => n = size \/ sock.peer # "open"
<1> DEFINE left == sock.arrived - sock.taken
           m    == IF left < size THEN left ELSE size
<1>1. left \in Nat /\ sock.taken + left = sock.arrived
  BY SockFields
<1>2. m \in Nat /\ m <= size /\ m <= left
  BY <1>1
<1>3. CASE n = m /\ m > 0 /\ (waitall /\ sock.blocking => m = size \/ sock.peer # "open")
  <2> HIDE DEF m, left
  <2> QED
    BY <1>1, <1>2, <1>3, SockFields
<1>4. CASE n = 0 /\ ((left = 0 /\ sock.peer = "closed") \/ size = 0)
  <2> HIDE DEF m, left
  <2> QED
    BY <1>1, <1>4, SockFields
<1>5. CASE n = -1 /\ left = 0 /\ (sock.peer = "reset" \/ (~sock.blocking /\ sock.peer = "open"))
  <2> HIDE DEF m, left
  <2> QED
    BY <1>1, <1>5, SockFields
<1> QED
  <2>1. n \in (IF m > 0 /\ (waitall /\ sock.blocking => m = size \/ sock.peer # "open")
               THEN {m} ELSE {})
              \cup (IF (left = 0 /\ sock.peer = "closed") \/ size = 0 THEN {0} ELSE {})
              \cup (IF left = 0 /\ (sock.peer = "reset" \/ (~sock.blocking /\ sock.peer = "open"))
                    THEN {-1} ELSE {})
    BY DEF Received
  <2> HIDE DEF m, left
  <2> QED
    BY <1>3, <1>4, <1>5, <2>1

LEMMA RunOf ==
  ASSUME NEW m \in Nat, NEW n \in Nat
  PROVE  /\ Run(m, n) \in Seq(Nat) /\ Len(Run(m, n)) = n
         /\ \A i \in 1..n : Run(m, n)[i] = m + i
BY DEF Run

\* The two things ReceiveAndSend does.
Receives(n, ret, onError) ==
  \/ /\ n = -1 /\ UNCHANGED sock
     /\ handler' = [handler EXCEPT !.pc = onError, !.received = -1, !.failed = FALSE]
  \/ /\ n >= 0
     /\ StartsPacket(Run(sock.taken, n), ret, handler.items, n, FALSE)
     /\ sock' = [sock EXCEPT !.taken = sock.taken + n]

LEMMA ReceiveIs ==
  ASSUME Typed, NEW size \in 0..Chunk, NEW waitall \in BOOLEAN, NEW ret, NEW onError,
         ReceiveAndSend(size, waitall, ret, onError)
  PROVE  \E n \in Received(size, waitall) :
           n \in -1..Chunk /\ Receives(n, ret, onError)
<1>1. PICK n \in Received(size, waitall) :
        \/ /\ n = -1 /\ UNCHANGED sock
           /\ handler' = [handler EXCEPT !.pc = onError, !.received = -1, !.failed = FALSE]
        \/ /\ n >= 0
           /\ handler' = [handler EXCEPT
                !.pc = "put_head", !.ret = ret, !.received = n, !.failed = FALSE,
                !.data = Run(sock.taken, n)]
           /\ sock' = [sock EXCEPT !.taken = sock.taken + n]
  BY Zenon DEF ReceiveAndSend, Run
<1>2. n \in -1..Chunk
  BY ReceivedIs, Constants
<1>3. ASSUME handler' = [handler EXCEPT
               !.pc = "put_head", !.ret = ret, !.received = n, !.failed = FALSE,
               !.data = Run(sock.taken, n)]
      PROVE  StartsPacket(Run(sock.taken, n), ret, handler.items, n, FALSE)
  BY <1>3, Parts, Zenon DEF StartsPacket, HandlerType
<1> QED
  BY <1>1, <1>2, <1>3, Zenon DEF Receives

LEMMA ReceiveTyped ==
  ASSUME Typed, NEW size \in 0..Chunk, NEW waitall \in BOOLEAN,
         NEW ret \in PutReturns, NEW onError \in {"rest", "rest_end", "recv_end"},
         ReceiveAndSend(size, waitall, ret, onError)
  PROVE  /\ handler' \in HandlerType /\ HandlerHeld(handler')
         /\ sock' \in SockType /\ sock'.taken <= sock'.arrived
<1>1. PICK n \in Received(size, waitall) :
        n \in -1..Chunk /\ Receives(n, ret, onError)
  BY ReceiveIs
<1>2. CASE /\ n = -1 /\ UNCHANGED sock
           /\ handler' = [handler EXCEPT !.pc = onError, !.received = -1, !.failed = FALSE]
  <2>1. onError \in HandlerLabels /\ -1 \in -1..Chunk
    BY <1>1, <1>2 DEF HandlerLabels
  <2>2. handler' \in HandlerType
    BY <1>2, <2>1, Parts, Zenon DEF HandlerType
  <2>3. handler'.pc = onError
    BY <1>2, Parts DEF HandlerType
  <2> QED
    BY <1>2, <2>2, <2>3, Parts, SockFields DEF HandlerHeld, PutLabels, SendLabels
<1>3. CASE /\ n >= 0
           /\ StartsPacket(Run(sock.taken, n), ret, handler.items, n, FALSE)
           /\ sock' = [sock EXCEPT !.taken = sock.taken + n]
  <2>1. n \in Nat /\ n <= Chunk /\ sock.taken + n <= sock.arrived
    BY <1>1, <1>3, ReceivedIs, Constants
  <2>2. Run(sock.taken, n) \in Seq(Nat) /\ Len(Run(sock.taken, n)) <= Chunk
    BY <2>1, RunOf, SockFields
  <2>3. handler' \in HandlerType /\ HandlerHeld(handler')
    BY <1>1, <1>3, <2>2, PacketTyped, HandlerFields
  <2>4. sock.taken + n \in 0..MaxBytes
    BY <2>1, SockFields, Constants
  <2>5. sock' \in SockType
    BY <1>3, <2>4, Parts, Zenon DEF SockType
  <2>6. sock'.taken = sock.taken + n /\ sock'.arrived = sock.arrived
    BY <1>3, Parts DEF SockType
  <2> QED
    BY <2>1, <2>3, <2>5, <2>6
<1> QED
  BY <1>1, <1>2, <1>3 DEF Receives

\* A step of the handlers of recv: on the handler and the socket only.
LEMMA NetworkStepTyped ==
  ASSUME Typed, UNCHANGED <<req, server, conn, client>>,
         handler' \in HandlerType, HandlerHeld(handler'),
         sock' \in SockType, sock'.taken <= sock'.arrived
  PROVE  Typed'
BY DEF Typed, TypeOK, Held

LEMMA GotoHeld ==
  ASSUME Typed, NEW l \in HandlerLabels \ (PutLabels \cup SendLabels \cup {"network", "code"}),
         ServerGoto(l)
  PROVE  handler' \in HandlerType /\ handler'.pc = l /\ HandlerHeld(handler')
BY GotoTyped DEF Typed, HandlerHeld

RecvGoes == {"drain", "loop", "chunk", "rest", "recv_end", "shut", "done", "linger"}

LEMMA RecvGoesHeld ==
  ASSUME Typed, NEW l \in RecvGoes, ServerGoto(l)
  PROVE  handler' \in HandlerType /\ HandlerHeld(handler')
<1>1. l \in HandlerLabels \ (PutLabels \cup SendLabels \cup {"network", "code"})
  BY DEF RecvGoes, HandlerLabels, PutLabels, SendLabels
<1> QED
  BY <1>1, GotoHeld

LEMMA CountTyped ==
  ASSUME Typed
  PROVE  req.count \in Nat /\ req.count \div Chunk \in 0..MaxUInt /\ req.count % Chunk \in 0..Chunk
<1>1. req.count \in Counts \cup {0}
  BY DEF Typed, TypeOK, Request, NoRequest
<1>2. req.count \in Nat
  <2>1. Counts \subseteq Nat /\ 0 \in Nat
    BY Constants
  <2> QED
    BY <1>1, <2>1
<1>3. req.count \div Chunk \in Nat /\ req.count % Chunk \in 0..Chunk
  BY <1>2, Constants
<1>4. \A c \in Counts : c \div Chunk <= MaxUInt
  BY SessionAssumption, Zenon DEF SessionAssumption
<1>5. 0 \div Chunk = 0
  BY Constants
<1> QED
  BY <1>1, <1>2, <1>3, <1>4, <1>5, Constants

LEMMA RecvSetupTyped ==
  ASSUME Typed, RecvSetup
  PROVE  Typed'
<1> DEFINE l == IF req.mode = "drain" THEN "drain" ELSE "loop"
           c == req.count \div Chunk
           b == req.mode = "blocking"
<1>1. l \in HandlerLabels /\ l \in {"drain", "loop"} /\ c \in 0..MaxUInt /\ 0 \in -1..Chunk /\ b \in BOOLEAN
  BY CountTyped, Constants DEF HandlerLabels
<1>2. /\ sock' = [sock EXCEPT !.blocking = b]
      /\ handler' = [handler EXCEPT !.pc = l, !.received = 0, !.recv_count = c]
  BY DEF RecvSetup
<1> HIDE DEF l, c, b
<1>3. handler' \in HandlerType
  BY <1>1, <1>2, Parts, Zenon DEF HandlerType
<1>4. handler'.pc = l
  BY <1>2, Parts DEF HandlerType
<1>5. HandlerHeld(handler')
  BY <1>1, <1>4 DEF HandlerHeld, PutLabels, SendLabels
<1>6. sock' \in SockType
  BY <1>1, <1>2, Parts, Zenon DEF SockType
<1>7. sock'.taken = sock.taken /\ sock'.arrived = sock.arrived
  BY <1>2, Parts DEF SockType
<1> QED
  BY <1>3, <1>5, <1>6, <1>7, SockFields, NetworkStepTyped DEF RecvSetup

LEMMA RecvTyped ==
  ASSUME Typed, Drain \/ RecvChunk \/ RecvRest
  PROVE  Typed'
<1>1. CASE \E size \in 0..Chunk, waitall \in BOOLEAN, ret \in PutReturns,
              onError \in {"rest", "rest_end", "recv_end"} :
             ReceiveAndSend(size, waitall, ret, onError)
  BY <1>1, ReceiveTyped, NetworkStepTyped DEF Drain, RecvChunk, RecvRest
<1>2. CASE UNCHANGED sock /\ \E l \in RecvGoes : ServerGoto(l)
  BY <1>2, RecvGoesHeld, Parts, SockFields, NetworkStepTyped DEF Drain, RecvChunk, RecvRest
<1>3. CASE UNCHANGED sock /\ Packet(<<>>, "recv_end")
  <2>1. "recv_end" \in PutReturns
    BY DEF PutReturns
  <2> QED
    BY <1>3, <2>1, EmptyPacketTyped, Parts, SockFields, NetworkStepTyped DEF Drain, RecvChunk, RecvRest
<1>4. Chunk \in 0..Chunk /\ req.count % Chunk \in 0..Chunk
  BY CountTyped, Constants
<1>5. CASE Drain
  BY <1>1, <1>2, <1>4, <1>5 DEF Drain, PutReturns, RecvGoes
<1>6. CASE RecvChunk
  BY <1>1, <1>2, <1>4, <1>6 DEF RecvChunk, PutReturns, RecvGoes
<1>7. CASE RecvRest
  BY <1>1, <1>2, <1>3, <1>4, <1>7 DEF RecvRest, PutReturns, RecvGoes
<1> QED
  BY <1>5, <1>6, <1>7

LEMMA RecvLoopTyped ==
  ASSUME Typed, RecvLoop
  PROVE  Typed'
<1> DEFINE l == IF handler.recv_count # 0 \/ handler.received = Chunk THEN "chunk" ELSE "rest"
           c == (handler.recv_count + MaxUInt) % (MaxUInt + 1)
<1>1. l \in HandlerLabels /\ l \in {"chunk", "rest"}
  BY DEF HandlerLabels
<1>2. c \in 0..MaxUInt
  BY HandlerFields, Constants
<1>3. handler' = [handler EXCEPT !.pc = l, !.recv_count = c]
  BY DEF RecvLoop
<1> HIDE DEF l, c
<1>4. handler' \in HandlerType
  BY <1>1, <1>2, <1>3, Parts, Zenon DEF HandlerType
<1>5. handler'.pc = l
  BY <1>3, Parts DEF HandlerType
<1>6. HandlerHeld(handler')
  BY <1>1, <1>5 DEF HandlerHeld, PutLabels, SendLabels
<1> QED
  BY <1>4, <1>6, Parts, SockFields, NetworkStepTyped DEF RecvLoop

LEMMA RecvEndTyped ==
  ASSUME Typed, RecvEnd
  PROVE  Typed'
<1>1. handler' \in HandlerType /\ HandlerHeld(handler')
  BY RecvGoesHeld DEF RecvEnd, RecvGoes
<1>2. sock' \in SockType
  BY Parts, Zenon DEF RecvEnd, SockType
<1>3. sock'.taken = sock.taken /\ sock'.arrived = sock.arrived
  BY Parts DEF RecvEnd, SockType
<1> QED
  BY <1>1, <1>2, <1>3, SockFields, NetworkStepTyped DEF RecvEnd


LEMMA SendHeld ==
  ASSUME Typed, handler.pc \in SendLabels
  PROVE  handler.ret \in GetReturns /\ handler.ret \in HandlerLabels
BY ReturnsAre DEF Typed, Held, HandlerHeld

\* A step within the loop of send and nms_send, or out of it.
LEMMA SendGoesHeld ==
  ASSUME Typed, handler.pc \in SendLabels, NEW l \in SendLabels \cup Ending, ServerGoto(l)
  PROVE  handler' \in HandlerType /\ HandlerHeld(handler')
<1>1. l \in HandlerLabels
  BY HandlerLabelsAre
<1> QED
  BY <1>1, SendHeld, GotoTyped DEF Typed, HandlerHeld, SendLabels, PutLabels, Ending

\* A step of theirs that also sets what they hold.
LEMMA SendSetsHeld ==
  ASSUME Typed, NEW l \in SendLabels, NEW data \in Seq(Nat), NEW ret \in GetReturns,
         NEW status \in Codes,
         handler' = [handler EXCEPT !.pc = l, !.data = data, !.ret = ret, !.status = status]
  PROVE  handler' \in HandlerType /\ HandlerHeld(handler')
<1>1. l \in HandlerLabels /\ ret \in Returns
  BY HandlerLabelsAre, ReturnsAre
<1>2. handler' \in HandlerType
  BY <1>1, Parts, Zenon DEF HandlerType
<1>3. handler'.pc = l /\ handler'.ret = ret
  BY Parts DEF HandlerType
<1> QED
  BY <1>2, <1>3 DEF HandlerHeld, SendLabels, PutLabels

LEMMA GetPacketTyped ==
  ASSUME Typed, GetPacket
  PROVE  Typed'
<1>1. handler.pc \in SendLabels
  BY DEF GetPacket, ServerAt, SendLabels
<1>2. handler.ret \in GetReturns
  BY <1>1, SendHeld
<1>3. conn' \in ConnType /\ conn'.s2c = conn.s2c
  <2>1. (\E kind : ServerTakes(kind)) \/ UNCHANGED conn
    BY DEF GetPacket, ServerHearsEnd
  <2> QED
    BY <2>1, ServerTook, Parts DEF Typed
<1>4. handler' \in HandlerType /\ HandlerHeld(handler')
  <2>1. CASE \E l \in SendLabels \cup Ending : ServerGoto(l)
    BY <1>1, <2>1, SendGoesHeld
  <2>2. CASE \E d \in Seq(Nat) : handler' = [handler EXCEPT !.pc = "forward", !.data = d]
    <3>1. PICK d \in Seq(Nat) : handler' = [handler EXCEPT !.pc = "forward", !.data = d]
      BY <2>2
    <3>2. handler' = [handler EXCEPT !.pc = "forward", !.data = d, !.ret = handler.ret,
                                     !.status = handler.status]
      BY <3>1, Parts, Zenon DEF HandlerType
    <3> QED
      BY <1>2, <3>2, HandlerFields, SendSetsHeld DEF SendLabels
  <2>3. ServerTakes("body") => conn.c2s[1].data \in Seq(Nat)
    BY ServerTook, ItemFields DEF Typed
  <2>4. handler.ret \in SendLabels \cup Ending
    BY <1>2 DEF GetReturns, SendLabels, Ending
  <2>5. \/ ServerGoto("get_body") \/ ServerGoto("last_code") \/ ServerGoto(handler.ret)
        \/ handler' = [handler EXCEPT !.pc = "forward", !.data = <<>>]
        \/ /\ ServerTakes("body")
           /\ handler' = [handler EXCEPT !.pc = "forward", !.data = conn.c2s[1].data]
    BY Zenon DEF GetPacket
  <2>6. "get_body" \in SendLabels /\ "last_code" \in SendLabels /\ <<>> \in Seq(Nat)
    BY DEF SendLabels
  <2> QED
    BY <2>1, <2>2, <2>3, <2>4, <2>5, <2>6, Zenon
<1> QED
  BY <1>3, <1>4 DEF GetPacket, Typed, TypeOK, Held

LEMMA ForwardTyped ==
  ASSUME Typed, Forward
  PROVE  Typed'
<1>1. handler.pc \in SendLabels /\ handler.ret \in GetReturns
  BY SendHeld DEF Forward, ServerAt, SendLabels
<1>2. handler' \in HandlerType /\ HandlerHeld(handler')
  <2>1. PICK status \in {"SUCCESS", "NETWORK_ERROR"} :
          handler' = [handler EXCEPT !.pc = "ack", !.status = status]
    BY DEF Forward
  <2>2. handler' = [handler EXCEPT !.pc = "ack", !.data = handler.data, !.ret = handler.ret,
                                   !.status = status]
    BY <2>1, Parts, Zenon DEF HandlerType
  <2>3. status \in Codes
    BY DEF Codes
  <2> QED
    BY <1>1, <2>2, <2>3, HandlerFields, SendSetsHeld DEF SendLabels
<1>3. sock' \in SockType /\ sock'.taken = sock.taken /\ sock'.arrived = sock.arrived
  <2>1. CASE UNCHANGED sock
    BY <2>1, Parts
  <2>3. CASE sock' = [sock EXCEPT !.peer = "reset"]
    BY <2>3, Parts DEF SockType
  <2>2. CASE sock' = [sock EXCEPT !.out = @ \o handler.data]
    <3>1. sock.out \o handler.data \in Seq(Nat)
      BY SockFields, HandlerFields
    <3>2. sock' = [sock EXCEPT !.out = sock.out \o handler.data]
      BY <2>2
    <3>3. sock' \in SockType
      BY <3>1, <3>2, Parts, Zenon DEF SockType
    <3> QED
      BY <3>2, <3>3, Parts DEF SockType
  <2> QED
    BY <2>1, <2>2, <2>3 DEF Forward
<1> QED
  BY <1>2, <1>3, SockFields, NetworkStepTyped DEF Forward

LEMMA AckTyped ==
  ASSUME Typed, Ack
  PROVE  Typed'
<1>1. handler.pc \in SendLabels
  BY DEF Ack, ServerAt, SendLabels
<1>2. conn' \in ConnType /\ HeadsFit(conn'.s2c)
  BY HandlerFields, SendCodeTyped DEF Ack
<1>3. handler' \in HandlerType /\ HandlerHeld(handler')
  <2>1. CASE \E l \in {"last_code", "get_head"} :
               handler' = [handler EXCEPT !.ret = "last_code", !.pc = l]
    <3>1. PICK l \in {"last_code", "get_head"} :
            handler' = [handler EXCEPT !.ret = "last_code", !.pc = l]
      BY <2>1
    <3>2. handler' = [handler EXCEPT !.pc = l, !.data = handler.data, !.ret = "last_code",
                                     !.status = handler.status]
      BY <3>1, Parts, Zenon DEF HandlerType
    <3> QED
      BY <3>2, HandlerFields, SendSetsHeld DEF SendLabels, GetReturns
  <2>2. CASE \E l \in {"shut", "get_head"} : ServerGoto(l)
    BY <1>1, <2>2, SendGoesHeld DEF SendLabels, Ending
  <2> QED
    BY <2>1, <2>2 DEF Ack
<1> QED
  BY <1>2, <1>3 DEF Ack, Typed, TypeOK, Held

LEMMA LastCodeTyped ==
  ASSUME Typed, LastCode
  PROVE  Typed'
<1>1. conn' \in ConnType /\ HeadsFit(conn'.s2c)
  BY SendCodeTyped DEF LastCode, Codes
<1>2. handler' \in HandlerType /\ HandlerHeld(handler')
  BY RecvGoesHeld DEF LastCode, RecvGoes
<1> QED
  BY <1>1, <1>2 DEF LastCode, Typed, TypeOK, Held

LEMMA CloseConnectionTyped ==
  ASSUME Typed, CloseConnection
  PROVE  Typed'
<1>1. conn' \in ConnType /\ conn'.s2c = conn.s2c
  BY Parts DEF CloseConnection, ConnType
<1>2. handler' \in HandlerType /\ HandlerHeld(handler')
  BY RecvGoesHeld DEF CloseConnection, RecvGoes
<1> QED
  BY <1>1, <1>2 DEF CloseConnection, Typed, TypeOK, Held

LEMMA PeerTyped ==
  ASSUME Typed, Peer
  PROVE  Typed'
<1>1. sock' \in SockType /\ sock'.taken <= sock'.arrived
  <2>1. CASE sock.arrived < MaxBytes /\ sock' = [sock EXCEPT !.arrived = @ + 1]
    <3>1. sock.arrived + 1 \in 0..MaxBytes /\ sock' = [sock EXCEPT !.arrived = sock.arrived + 1]
      BY <2>1, SockFields, Constants
    <3>2. sock' \in SockType
      BY <3>1, Parts, Zenon DEF SockType
    <3>3. sock'.taken = sock.taken /\ sock'.arrived = sock.arrived + 1
      BY <3>1, Parts DEF SockType
    <3> QED
      BY <3>2, <3>3, SockFields
  <2>2. CASE \E end \in {"closed", "reset"} : sock' = [sock EXCEPT !.peer = end]
    BY <2>2, Parts, SockFields DEF SockType
  <2> QED
    BY <2>1, <2>2 DEF Peer
<1> QED
  BY <1>1 DEF Peer, Typed, TypeOK, Held

LEMMA InitTyped == Init => Typed
<1> SUFFICES ASSUME Init PROVE Typed
  OBVIOUS
<1>1. conn \in ConnType
  BY StreamIs DEF Init, ConnType
<1>2. client \in ClientType
  BY Constants DEF Init, ClientType, ClientLabels
<1>3. handler \in HandlerType
  <2>1. /\ "accept" \in HandlerLabels /\ 0 \in 0..2 /\ "unknown" \in AllCmds
        /\ 0 \in 0..MaxItems /\ "none" \in Codes \cup {"none"} /\ <<>> \in Seq(Nat)
        /\ "none" \in Returns /\ 0 \in -1..Chunk /\ 0 \in 0..MaxUInt /\ "SUCCESS" \in Codes
    BY Constants DEF HandlerLabels, AllCmds, Returns, Codes
  <2> QED
    BY <2>1, Zenon DEF Init, HandlerType
<1>4. sock \in SockType
  BY Constants DEF Init, SockType
<1>5. Held
  BY DEF Init, Held, HandlerHeld, PutLabels, SendLabels, HeadsFit, NoRequest
<1> QED
  BY <1>1, <1>2, <1>3, <1>4, <1>5 DEF Init, Typed, TypeOK

\* The steps of the system, one by one.
LEMMA Steps ==
  ASSUME Next
  PROVE  \/ Connect \/ SendWord \/ ReadCode \/ ReadHead \/ ReadBody \/ ReadStdin
         \/ PutPacket \/ ReadAck \/ CloseClient \/ Kill
         \/ AcceptClient \/ RecvArgc \/ RecvWord \/ Dispatch \/ NetworkReturns \/ AnswerCode
         \/ SendPacket \/ SendItem \/ RecvSetup \/ Drain \/ RecvLoop \/ RecvChunk \/ RecvRest
         \/ RecvEnd \/ GetPacket \/ Forward \/ Ack \/ LastCode \/ CloseConnection
         \/ ServerExits \/ Peer \/ UNCHANGED vars
BY Zenon DEF Next, ClientProgress, ServerProgress, ServerWaits, Finished

LEMMA TypedStep == Typed /\ [Next]_vars => Typed'
<1> SUFFICES ASSUME Typed, [Next]_vars PROVE Typed'
  OBVIOUS
<1>1. CASE UNCHANGED vars
  BY <1>1 DEF vars, Typed, TypeOK, Held
<1>2. CASE Next
  BY <1>1, <1>2, Steps, ConnectTyped, SendWordTyped, ReadCodeTyped, ReadHeadTyped, ReadBodyTyped,
     ReadStdinTyped, PutPacketTyped, ReadAckTyped, ClientLeavesTyped, AcceptClientTyped,
     RecvArgcTyped, RecvWordTyped, DispatchTyped, NetworkReturnsTyped, AnswerCodeTyped,
     SendPacketTyped, SendItemTyped, RecvSetupTyped, RecvTyped, RecvLoopTyped, RecvEndTyped,
     GetPacketTyped, ForwardTyped, AckTyped, LastCodeTyped, CloseConnectionTyped,
     ServerEndsTyped, PeerTyped, Zenon DEF ServerExits
<1> QED
  BY <1>1, <1>2

\* Every item is of one of the four kinds, no counter leaves its range (that of
\* an unsigned int for recv_count) and no packet is longer than the buffers.
THEOREM SessionTyped == Spec => []TypeOK
<1>1. Init => Typed
  BY InitTyped
<1>2. Typed /\ [Next]_vars => Typed'
  BY TypedStep
<1>3. Typed => TypeOK
  BY DEF Typed
<1> QED
  BY <1>1, <1>2, <1>3, PTL DEF Spec


-----------------------------------------------------------------------------
(* What each step does, field by field.                                    *)

SameEnds ==
  /\ conn'.c_open = conn.c_open /\ conn'.s_open = conn.s_open
  /\ conn'.s_sends = conn.s_sends

ClientSends(x) ==
  /\ conn.s_open
  /\ conn'.c2s = Append(conn.c2s, x) /\ conn'.s2c = conn.s2c /\ SameEnds

ServerSends(x) ==
  /\ conn.c_open
  /\ conn'.s2c = Append(conn.s2c, x) /\ conn'.c2s = conn.c2s /\ SameEnds

ClientReads(kind) ==
  /\ conn.s2c # <<>> /\ conn.s2c[1] \in Item /\ conn.s2c[1].kind = kind
  /\ conn'.s2c = Tail(conn.s2c) /\ conn'.c2s = conn.c2s /\ SameEnds

ServerReads(kind) ==
  /\ conn.c2s # <<>> /\ conn.c2s[1] \in Item /\ conn.c2s[1].kind = kind
  /\ conn'.c2s = Tail(conn.c2s) /\ conn'.s2c = conn.s2c /\ SameEnds

SentCode(c) == ServerSends(Code(c)) \/ (~conn.c_open /\ UNCHANGED conn)

GotCode(c) ==
  \/ ClientReads("code") /\ c = conn.s2c[1].code
  \/ ClientHearsEnd /\ c \in {"E255", "SUCCESS"}

ClientKeeps ==
  /\ client'.unread = client.unread /\ client'.stdout = client.stdout
  /\ client'.count = client.count

ExitsWith(c) == client'.pc = "closing" /\ client'.code = c /\ ClientKeeps

ClientGoes(l) ==
  client'.pc = l /\ client'.code = client.code /\ client'.left = client.left /\ ClientKeeps

ClientOnly == UNCHANGED <<req, server, handler, sock>>
ServerOnly == UNCHANGED <<req, server, client, sock>>

Told ==
  /\ handler'.answer = handler.answer /\ handler'.cmd = handler.cmd
  /\ handler'.heard = handler.heard

Keeps ==
  /\ handler'.data = handler.data /\ handler'.ret = handler.ret
  /\ handler'.received = handler.received /\ handler'.recv_count = handler.recv_count
  /\ handler'.status = handler.status

Goes(l) == handler'.pc = l /\ Told /\ Keeps /\ handler'.words = handler.words

LEMMA ClientSendsIs ==
  ASSUME Typed, NEW x \in Item, ClientPut(x)
  PROVE  ClientSends(x)
BY ClientPuts DEF Typed, ClientSends, SameEnds

LEMMA ServerSendsIs ==
  ASSUME Typed, NEW x \in Item, ServerPut(x)
  PROVE  ServerSends(x)
BY ServerPuts DEF Typed, ServerSends, SameEnds

LEMMA ClientReadsIs ==
  ASSUME Typed, NEW kind, ClientTakes(kind)
  PROVE  ClientReads(kind)
BY ClientTook DEF Typed, ClientReads, SameEnds

LEMMA ServerReadsIs ==
  ASSUME Typed, NEW kind, ServerTakes(kind)
  PROVE  ServerReads(kind)
BY ServerTook DEF Typed, ServerReads, SameEnds

LEMMA SentCodeIs ==
  ASSUME Typed, NEW c \in Codes, SendCode(c)
  PROVE  SentCode(c)
BY CodeItem, ServerSendsIs DEF SendCode, SentCode, ClientGone

LEMMA GotCodeIs ==
  ASSUME Typed, NEW c, RecvCode(c)
  PROVE  GotCode(c)
BY ClientReadsIs DEF RecvCode, GotCode

LEMMA ExitsWithIs ==
  ASSUME Typed, NEW c \in Ends, Exit(c)
  PROVE  ExitsWith(c)
BY ExitTyped DEF Typed, ExitsWith, ClientKeeps

LEMMA ClientGoesIs ==
  ASSUME Typed, NEW l \in {"code", "head", "stdin", "put_body", "ack", "exited"}, ClientGoto(l)
  PROVE  ClientGoes(l)
BY ClientGotoTyped DEF Typed, ClientGoes, ClientKeeps

LEMMA GoesIs ==
  ASSUME Typed, NEW l \in HandlerLabels, ServerGoto(l)
  PROVE  Goes(l)
BY GotoTyped DEF Typed, Goes, Told, Keeps

-----------------------------------------------------------------------------
(* The client's steps.                                                     *)

LEMMA ConnectIs ==
  ASSUME Typed, Connect
  PROVE  /\ client.pc = "start" /\ server = "up" /\ UNCHANGED <<server, handler, sock>>
         /\ req' \in Request
         /\ client'.pc = "words" /\ client'.unread = req'.input
         /\ client'.left = (IF req'.few THEN 2 ELSE 3)
         /\ client'.count = client.count /\ client'.code = client.code
         /\ client'.stdout = client.stdout
         /\ conn'.c_open /\ conn'.s_open /\ conn'.s_sends
         /\ conn'.c2s = conn.c2s /\ conn'.s2c = conn.s2c
<1>1. /\ req' \in Request
      /\ client' = [client EXCEPT !.pc = "words", !.unread = req'.input,
                                  !.left = IF req'.few THEN 2 ELSE 3]
      /\ conn' = [conn EXCEPT !.c_open = TRUE, !.s_open = TRUE, !.s_sends = TRUE]
      /\ client.pc = "start" /\ server = "up" /\ UNCHANGED <<server, handler, sock>>
  BY DEF Connect, ClientAt
<1>2. /\ conn'.c_open /\ conn'.s_open /\ conn'.s_sends
      /\ conn'.c2s = conn.c2s /\ conn'.s2c = conn.s2c
  BY <1>1, Parts DEF ConnType
<1>3. /\ client'.pc = "words" /\ client'.unread = req'.input
      /\ client'.left = (IF req'.few THEN 2 ELSE 3)
      /\ client'.count = client.count /\ client'.code = client.code
      /\ client'.stdout = client.stdout
  BY <1>1, Parts DEF ClientType
<1> QED
  BY <1>1, <1>2, <1>3

LEMMA SendWordIs ==
  ASSUME Typed, SendWord
  PROVE  /\ client.pc = "words" /\ ClientOnly
         /\ \/ /\ client.left > 0 /\ ClientSends(Word) /\ client'.pc = "words"
               /\ client'.left = client.left - 1 /\ client'.code = client.code /\ ClientKeeps
            \/ client.left > 0 /\ ~conn.s_open /\ UNCHANGED conn /\ ExitsWith("E255")
            \/ /\ client.left = 0 /\ UNCHANGED conn
               /\ IF ClientHandle(req.cmd) = "none" THEN ExitsWith("SUCCESS")
                                                    ELSE ClientGoes("code")
<1>1. client.pc = "words" /\ ClientOnly
  BY DEF SendWord, ClientAt, ClientOnly
<1>2. CASE /\ client.left > 0 /\ ClientPut(Word)
           /\ client' = [client EXCEPT !.left = client.left - 1]
  <2>1. /\ client'.pc = "words" /\ client'.left = client.left - 1
        /\ client'.code = client.code /\ ClientKeeps
    BY <1>1, <1>2, Parts DEF ClientType, ClientKeeps
  <2> QED
    BY <1>1, <1>2, <2>1, WordItem, ClientSendsIs
<1>3. CASE client.left > 0 /\ ServerGone /\ Exit("E255") /\ UNCHANGED conn
  BY <1>1, <1>3, ExitsWithIs DEF ServerGone, Ends
<1>4. CASE /\ client.left = 0 /\ UNCHANGED conn
           /\ IF ClientHandle(req.cmd) = "none" THEN Exit("SUCCESS") ELSE ClientGoto("code")
  BY <1>1, <1>4, ExitsWithIs, ClientGoesIs DEF Ends, Codes
<1> QED
  BY <1>2, <1>3, <1>4 DEF SendWord

LEMMA ReadCodeIs ==
  ASSUME Typed, ReadCode
  PROVE  /\ client.pc = "code" /\ ClientOnly
         /\ \/ UNCHANGED conn /\ ClientHandle(req.cmd) = "send" /\ ExitsWith("CLIENT_OOM")
            \/ \E c \in Ends :
                 /\ GotCode(c)
                 /\ \/ (c # "SUCCESS" \/ ClientHandle(req.cmd) = "code") /\ ExitsWith(c)
                    \/ c = "SUCCESS" /\ ClientHandle(req.cmd) = "send" /\ ClientGoes("stdin")
                    \/ /\ c = "SUCCESS" /\ ClientHandle(req.cmd) \in {"recv", "nms_recv"}
                       /\ ClientGoes("head")
                    \/ c = "SUCCESS" /\ ClientHandle(req.cmd) = "recv" /\ ExitsWith("CLIENT_OOM")
<1>1. client.pc = "code" /\ ClientOnly
  BY DEF ReadCode, ClientAt, ClientOnly
<1>2. CASE ClientHandle(req.cmd) = "send" /\ Exit("CLIENT_OOM") /\ UNCHANGED conn
  BY <1>1, <1>2, ExitsWithIs DEF Ends, Codes
<1>3. ASSUME NEW c \in Ends, RecvCode(c),
             \/ (c # "SUCCESS" \/ ClientHandle(req.cmd) = "code") /\ Exit(c)
             \/ c = "SUCCESS" /\ ClientHandle(req.cmd) = "send" /\ ClientGoto("stdin")
             \/ /\ c = "SUCCESS" /\ ClientHandle(req.cmd) \in {"recv", "nms_recv"}
                /\ ClientGoto("head")
             \/ c = "SUCCESS" /\ ClientHandle(req.cmd) = "recv" /\ Exit("CLIENT_OOM")
      PROVE  /\ GotCode(c)
             /\ \/ (c # "SUCCESS" \/ ClientHandle(req.cmd) = "code") /\ ExitsWith(c)
                \/ c = "SUCCESS" /\ ClientHandle(req.cmd) = "send" /\ ClientGoes("stdin")
                \/ /\ c = "SUCCESS" /\ ClientHandle(req.cmd) \in {"recv", "nms_recv"}
                   /\ ClientGoes("head")
                \/ c = "SUCCESS" /\ ClientHandle(req.cmd) = "recv" /\ ExitsWith("CLIENT_OOM")
  BY <1>3, GotCodeIs, ExitsWithIs, ClientGoesIs DEF Ends, Codes
<1> QED
  BY <1>1, <1>2, <1>3, Zenon DEF ReadCode

LEMMA ReadHeadIs ==
  ASSUME Typed, ReadHead
  PROVE  /\ client.pc = "head" /\ ClientOnly
         /\ \/ /\ ClientReads("head") /\ Length(conn.s2c[1].len) = 0
               /\ \E c \in Ends : /\ ExitsWith(c)
                                  /\ c = "SUCCESS" <=> ClientHandle(req.cmd) = "recv"
            \/ /\ ClientReads("head") /\ Length(conn.s2c[1].len) > 0
               /\ client'.pc = "body" /\ client'.count = Length(conn.s2c[1].len)
               /\ client'.unread = client.unread /\ client'.stdout = client.stdout
               /\ client'.code = client.code
            \/ ClientReads("head") /\ ExitsWith("IPC_ERROR")
            \/ ClientHearsEnd /\ \E c \in Ends \ {"SUCCESS"} : ExitsWith(c)
<1>1. client.pc = "head" /\ ClientOnly
  BY DEF ReadHead, ClientAt, ClientOnly
<1>2. EmptyPacket => \E c \in Ends : /\ ExitsWith(c)
                                     /\ c = "SUCCESS" <=> ClientHandle(req.cmd) = "recv"
  BY ExitsWithIs DEF EmptyPacket, Ends, Codes
<1>3. CASE ClientTakes("head") /\ Length(conn.s2c[1].len) = 0 /\ EmptyPacket
  BY <1>1, <1>2, <1>3, ClientReadsIs
<1>4. CASE /\ ClientTakes("head") /\ Length(conn.s2c[1].len) > 0
           /\ client' = [client EXCEPT !.pc = "body", !.count = Length(conn.s2c[1].len)]
  <2>1. /\ client'.pc = "body" /\ client'.count = Length(conn.s2c[1].len)
        /\ client'.unread = client.unread /\ client'.stdout = client.stdout
        /\ client'.code = client.code
    BY <1>4, Parts DEF ClientType
  <2> QED
    BY <1>1, <1>4, <2>1, ClientReadsIs
<1>5. CASE ClientTakes("head") /\ Exit("IPC_ERROR")
  BY <1>1, <1>5, ClientReadsIs, ExitsWithIs DEF Ends, Codes
<1>6. CASE ClientHearsEnd /\ Exit("IPC_ERROR")
  BY <1>1, <1>6, ExitsWithIs DEF Ends, Codes
<1>7. CASE ClientHearsEnd /\ ClientHandle(req.cmd) = "nms_recv" /\ EmptyPacket
  BY <1>1, <1>2, <1>7
<1> QED
  BY <1>3, <1>4, <1>5, <1>6, <1>7, Zenon DEF ReadHead

LEMMA ReadBodyIs ==
  ASSUME Typed, ReadBody
  PROVE  /\ client.pc = "body" /\ ClientOnly
         /\ \/ /\ ClientReads("body")
               /\ client'.stdout = client.stdout \o conn.s2c[1].data
               /\ client'.unread = client.unread /\ client'.count = client.count
               /\ \/ /\ client'.pc = "head" /\ ClientHandle(req.cmd) = "recv"
                     /\ client'.code = client.code
                  \/ /\ client'.pc = "closing" /\ ClientHandle(req.cmd) # "recv"
                     /\ client'.code = "SUCCESS"
            \/ ClientHearsEnd /\ ExitsWith("IPC_ERROR")
<1>1. client.pc = "body" /\ ClientOnly
  BY DEF ReadBody, ClientAt, ClientOnly
<1>2. CASE /\ ClientTakes("body") /\ ClientHandle(req.cmd) = "recv"
           /\ client' = [client EXCEPT !.pc = "head",
                                       !.stdout = client.stdout \o conn.s2c[1].data]
  <2>1. /\ client'.stdout = client.stdout \o conn.s2c[1].data
        /\ client'.unread = client.unread /\ client'.count = client.count
        /\ client'.pc = "head" /\ client'.code = client.code
    BY <1>2, Parts DEF ClientType
  <2> QED
    BY <1>1, <1>2, <2>1, ClientReadsIs
<1>3. CASE /\ ClientTakes("body") /\ ClientHandle(req.cmd) # "recv"
           /\ client' = [client EXCEPT !.pc = "closing", !.code = "SUCCESS",
                                       !.stdout = client.stdout \o conn.s2c[1].data]
  <2>1. /\ client'.stdout = client.stdout \o conn.s2c[1].data
        /\ client'.unread = client.unread /\ client'.count = client.count
        /\ client'.pc = "closing" /\ client'.code = "SUCCESS"
    BY <1>3, Parts DEF ClientType
  <2> QED
    BY <1>1, <1>3, <2>1, ClientReadsIs
<1>4. CASE ClientHearsEnd /\ Exit("IPC_ERROR")
  BY <1>1, <1>4, ExitsWithIs DEF Ends, Codes
<1>5. ASSUME ClientTakes("body"),
             client' = [client EXCEPT !.pc = "closing",
                          !.stdout = client.stdout \o conn.s2c[1].data, !.code = "SUCCESS"]
      PROVE  client' = [client EXCEPT !.pc = "closing", !.code = "SUCCESS",
                                      !.stdout = client.stdout \o conn.s2c[1].data]
  BY <1>5, Parts, Zenon DEF ClientType
<1> QED
  BY <1>2, <1>3, <1>4, <1>5, Zenon DEF ReadBody

LEMMA ReadStdinIs ==
  ASSUME Typed, ReadStdin
  PROVE  /\ client.pc = "stdin" /\ ClientOnly /\ UNCHANGED conn
         /\ client'.pc = "put_head" /\ client'.stdout = client.stdout
         /\ client'.code = client.code
         /\ client'.unread = (IF client.unread = 0 THEN 0 ELSE client.unread - 1)
         /\ client'.count = (IF client.unread = 0 THEN 0 ELSE 1)
<1>1. client.pc = "stdin" /\ ClientOnly /\ UNCHANGED conn
  BY DEF ReadStdin, ClientAt, ClientOnly
<1>2. client' = [client EXCEPT !.pc = "put_head",
                   !.unread = IF client.unread = 0 THEN 0 ELSE client.unread - 1,
                   !.count = IF client.unread = 0 THEN 0 ELSE 1]
  BY DEF ReadStdin
<1> QED
  BY <1>1, <1>2, Parts DEF ClientType

LEMMA PutPacketIs ==
  ASSUME Typed, PutPacket
  PROVE  /\ client.pc \in {"put_head", "put_body"} /\ ClientOnly
         /\ \/ /\ client.pc = "put_head" /\ ClientSends(NmsHead(Buffer))
               /\ ClientGoes(IF client.count = 0 THEN "ack" ELSE "put_body")
            \/ client.pc = "put_body" /\ ClientSends(Body(Buffer)) /\ ClientGoes("ack")
            \/ /\ ~conn.s_open /\ UNCHANGED conn
               /\ ExitsWith("IPC_ERROR") \/ (client.pc = "put_body" /\ ClientGoes("ack"))
<1>1. client.pc \in {"put_head", "put_body"} /\ ClientOnly
  BY DEF PutPacket, ClientOnly
<1>2. NmsHead(Buffer) \in Item /\ Body(Buffer) \in Item
  BY BufferTyped, HeadItem, BodyItem
<1>3. CASE /\ ClientAt("put_head") /\ ClientPut(NmsHead(Buffer))
           /\ ClientGoto(IF client.count = 0 THEN "ack" ELSE "put_body")
  BY <1>1, <1>2, <1>3, ClientSendsIs, ClientGoesIs DEF ClientAt
<1>4. CASE ClientAt("put_body") /\ ClientPut(Body(Buffer)) /\ ClientGoto("ack")
  BY <1>1, <1>2, <1>4, ClientSendsIs, ClientGoesIs DEF ClientAt
<1>5. CASE ServerGone /\ Exit("IPC_ERROR") /\ UNCHANGED conn
  BY <1>1, <1>5, ExitsWithIs DEF ServerGone, Ends, Codes
<1>6. CASE ServerGone /\ ClientAt("put_body") /\ ClientGoto("ack") /\ UNCHANGED conn
  BY <1>1, <1>6, ClientGoesIs DEF ServerGone, ClientAt
<1> QED
  BY <1>3, <1>4, <1>5, <1>6 DEF PutPacket

LEMMA ReadAckIs ==
  ASSUME Typed, ReadAck
  PROVE  /\ client.pc = "ack" /\ ClientOnly
         /\ \E c \in Ends :
              /\ GotCode(c)
              /\ IF client.count # 0 /\ c = "SUCCESS" THEN ClientGoes("stdin")
                                                      ELSE ExitsWith(c)
<1>1. client.pc = "ack" /\ ClientOnly
  BY DEF ReadAck, ClientAt, ClientOnly
<1>2. PICK c \in Ends :
        /\ RecvCode(c)
        /\ IF client.count # 0 /\ c = "SUCCESS" THEN ClientGoto("stdin") ELSE Exit(c)
  BY DEF ReadAck
<1>3. GotCode(c)
  BY <1>2, GotCodeIs
<1> QED
  BY <1>1, <1>2, <1>3, ExitsWithIs, ClientGoesIs

LEMMA ClientLeavesIs ==
  ASSUME Typed, CloseClient \/ Kill
  PROVE  /\ client.pc \notin {"start", "exited"} /\ ClientOnly
         /\ client'.pc = "exited" /\ ClientKeeps
         /\ \/ client.pc = "closing" /\ client'.code = client.code
            \/ client'.code = "KILLED"
         /\ ~conn'.c_open /\ conn'.s_open = conn.s_open /\ conn'.s_sends = conn.s_sends
         /\ conn'.c2s = conn.c2s /\ conn'.s2c = conn.s2c
<1>1. client.pc \notin {"start", "exited"} /\ ClientOnly
  BY DEF CloseClient, Kill, ClientAt, ClientOnly
<1>2. /\ ~conn'.c_open /\ conn'.s_open = conn.s_open /\ conn'.s_sends = conn.s_sends
      /\ conn'.c2s = conn.c2s /\ conn'.s2c = conn.s2c
  BY Parts DEF CloseClient, Kill, ConnType
<1>3. CASE CloseClient
  BY <1>1, <1>2, <1>3, ClientGoesIs DEF CloseClient, ClientAt, ClientGoes
<1>4. CASE Kill
  <2>1. client'.pc = "exited" /\ ClientKeeps /\ client'.code = "KILLED"
    BY <1>4, Parts DEF Kill, ClientType, ClientKeeps
  <2> QED
    BY <1>1, <1>2, <2>1
<1> QED
  BY <1>3, <1>4


-----------------------------------------------------------------------------
(* The server's steps.                                                     *)

LEMMA AcceptClientIs ==
  ASSUME Typed, AcceptClient
  PROVE  /\ handler.pc = "accept" /\ server = "up" /\ conn.s_open
         /\ ServerOnly /\ UNCHANGED conn /\ Goes("argc")
BY GoesIs DEF AcceptClient, ServerAt, ServerOnly, HandlerLabels

LEMMA ServerEndsIs ==
  ASSUME Typed, ServerEnds
  PROVE  /\ server' = "down" /\ UNCHANGED <<req, client, handler, sock>>
         /\ conn'.c2s = conn.c2s /\ conn'.s2c = conn.s2c
         /\ conn'.c_open = conn.c_open /\ ~conn'.s_open /\ ~conn'.s_sends
BY ServerEnded DEF ServerEnds, Typed

LEMMA RecvArgcIs ==
  ASSUME Typed, RecvArgc
  PROVE  /\ handler.pc = "argc" /\ server = "up"
         /\ \/ /\ ServerReads("word") /\ ServerOnly
               /\ handler'.pc = "words" /\ handler'.words = WordsSent /\ handler'.heard
               /\ handler'.answer = handler.answer /\ handler'.cmd = handler.cmd
               /\ Keeps
            \/ ServerHearsEnd /\ ServerOnly /\ Goes("shut")
            \/ ServerEnds
<1>1. handler.pc = "argc" /\ server = "up"
  BY DEF RecvArgc, ServerAt
<1>2. CASE /\ ServerTakes("word") /\ UNCHANGED <<req, server, client, sock>>
           /\ handler' = [handler EXCEPT !.pc = "words", !.heard = TRUE, !.words = WordsSent]
  <2>1. /\ handler'.pc = "words" /\ handler'.words = WordsSent /\ handler'.heard
        /\ handler'.answer = handler.answer /\ handler'.cmd = handler.cmd
        /\ Keeps
    BY <1>2, Parts DEF HandlerType, Keeps
  <2> QED
    BY <1>1, <1>2, <2>1, ServerReadsIs DEF ServerOnly
<1>3. CASE ServerHearsEnd /\ ServerGoto("shut") /\ UNCHANGED <<req, server, client, sock>>
  BY <1>1, <1>3, GoesIs DEF ServerOnly, HandlerLabels
<1> QED
  BY <1>1, <1>2, <1>3, Zenon DEF RecvArgc

LEMMA RecvWordIs ==
  ASSUME Typed, RecvWord
  PROVE  /\ handler.pc = "words" /\ server = "up" /\ ServerOnly
         /\ \/ handler.words = 0 /\ UNCHANGED conn /\ Goes("dispatch")
            \/ /\ handler.words > 0 /\ ServerReads("word") /\ handler'.pc = "words"
               /\ handler'.words = handler.words - 1 /\ Told /\ Keeps
            \/ (ServerReads("word") \/ ServerHearsEnd) /\ Goes("shut")
            \/ /\ handler.words > 0 /\ ServerHearsEnd /\ handler'.pc = "words"
               /\ handler'.words = handler.words - 1
               /\ handler'.answer = handler.answer /\ handler'.cmd = handler.cmd
               /\ Keeps
<1>1. handler.pc = "words" /\ server = "up" /\ ServerOnly
  BY DEF RecvWord, ServerAt, ServerOnly
<1>2. CASE handler.words = 0 /\ ServerGoto("dispatch") /\ UNCHANGED conn
  BY <1>1, <1>2, GoesIs DEF HandlerLabels
<1>3. CASE /\ handler.words > 0 /\ ServerTakes("word")
           /\ handler' = [handler EXCEPT !.words = handler.words - 1]
  <2>1. /\ handler'.pc = "words" /\ handler'.words = handler.words - 1
        /\ Told /\ Keeps
    BY <1>1, <1>3, Parts DEF HandlerType, Told, Keeps
  <2> QED
    BY <1>1, <1>3, <2>1, ServerReadsIs
<1>4. CASE (ServerTakes("word") \/ ServerHearsEnd) /\ ServerGoto("shut")
  BY <1>1, <1>4, GoesIs, ServerReadsIs DEF HandlerLabels
<1>5. CASE /\ handler.words > 0 /\ ServerHearsEnd
           /\ handler' = [handler EXCEPT !.words = handler.words - 1,
                            !.heard = handler.heard /\ handler.words # WordsSent]
  <2>1. /\ handler'.pc = "words" /\ handler'.words = handler.words - 1
        /\ handler'.answer = handler.answer /\ handler'.cmd = handler.cmd
        /\ Keeps
    BY <1>1, <1>5, Parts DEF HandlerType, Keeps
  <2> QED
    BY <1>1, <1>5, <2>1
<1> QED
  BY <1>2, <1>3, <1>4, <1>5, Zenon DEF RecvWord

LEMMA DispatchIs ==
  ASSUME Typed, Dispatch
  PROVE  /\ handler.pc = "dispatch" /\ server = "up" /\ UNCHANGED <<req, client, sock>>
         /\ \E cmd \in AllCmds :
              /\ handler.heard => cmd = req.cmd
              /\ \/ UNCHANGED <<server, conn>> /\ Goes("shut")
                 \/ ServerEnds
                 \/ /\ cmd \notin {"unknown", "exit"} /\ UNCHANGED <<server, conn>>
                    /\ handler'.pc \in {"network", "code"} /\ handler'.cmd = cmd
                    /\ handler'.answer = handler.answer /\ handler'.heard = handler.heard
                    /\ Keeps
<1>1. handler.pc = "dispatch" /\ server = "up" /\ UNCHANGED <<req, client, sock>>
  BY DEF Dispatch, ServerAt
<1>2. PICK cmd \in AllCmds : (handler.heard => cmd = req.cmd) /\ Dispatches(cmd)
  BY DispatchOf
<1>3. CASE ServerGoto("shut") /\ UNCHANGED <<server, conn>>
  BY <1>1, <1>2, <1>3, GoesIs DEF HandlerLabels
<1>4. CASE /\ server' = "down" /\ UNCHANGED handler
           /\ conn' = [conn EXCEPT !.s_open = FALSE, !.s_sends = FALSE]
  BY <1>1, <1>2, <1>4 DEF ServerEnds
<1>5. ASSUME cmd \notin {"unknown", "exit"}, UNCHANGED <<server, conn>>,
             NEW l \in {"network", "code"}, handler' = [handler EXCEPT !.cmd = cmd, !.pc = l]
      PROVE  /\ handler'.pc \in {"network", "code"} /\ handler'.cmd = cmd
             /\ handler'.answer = handler.answer /\ handler'.heard = handler.heard
             /\ Keeps
  BY <1>5, Parts DEF HandlerType, Keeps
<1> QED
  BY <1>1, <1>2, <1>3, <1>4, <1>5, Zenon DEF Dispatches

LEMMA NetworkReturnsIs ==
  ASSUME Typed, NetworkReturns
  PROVE  /\ handler.pc = "network" /\ server = "up" /\ ServerOnly /\ UNCHANGED conn
         /\ Goes("code")
BY GoesIs DEF NetworkReturns, ServerAt, ServerOnly, HandlerLabels

LEMMA AnswerCodeIs ==
  ASSUME Typed, AnswerCode
  PROVE  /\ handler.pc = "code" /\ server = "up" /\ ServerOnly
         /\ \E c \in Codes :
              /\ SentCode(c)
              /\ handler'.pc = AfterCode(handler.cmd, c) /\ handler'.answer = c
              /\ handler'.data \in {<<>>, Text}
              /\ handler'.data = <<>> => handler.cmd = "nms_recv"
              /\ handler'.ret = "shut"
              /\ handler'.cmd = handler.cmd /\ handler'.heard = handler.heard
<1>1. handler.pc = "code" /\ server = "up" /\ ServerOnly
  BY DEF AnswerCode, ServerAt, ServerOnly
<1>2. PICK code \in IF req.few /\ handler.cmd \notin {"send", "list"}
                    THEN {"INVALID_ARGS"} ELSE Outcomes(handler.cmd),
           data \in IF handler.cmd = "nms_recv" THEN {<<>>, Text} ELSE {Text} :
        /\ SendCode(code)
        /\ handler' = [handler EXCEPT !.pc = AfterCode(handler.cmd, code),
                         !.answer = code, !.data = data, !.ret = "shut"]
  BY DEF AnswerCode
<1>3. code \in Codes
  <2>1. handler.cmd \in AllCmds \ {"exit", "unknown"}
    BY <1>1, HandlerFields DEF Typed, Held, HandlerHeld
  <2> QED
    BY <1>2, <2>1, OutcomesTyped DEF Codes
<1>4. data \in {<<>>, Text} /\ (data = <<>> => handler.cmd = "nms_recv")
  BY <1>2 DEF Text
<1>5. /\ handler'.pc = AfterCode(handler.cmd, code) /\ handler'.answer = code
      /\ handler'.data = data /\ handler'.ret = "shut"
      /\ handler'.cmd = handler.cmd /\ handler'.heard = handler.heard
  BY <1>2, Parts DEF HandlerType
<1> QED
  BY <1>1, <1>2, <1>3, <1>4, <1>5, SentCodeIs

LEMMA SendPacketIs ==
  ASSUME Typed, SendPacket
  PROVE  /\ handler.pc \in PutLabels /\ server = "up" /\ ServerOnly
         /\ \/ /\ handler.pc = "put_head" /\ ServerSends(NmsHead(handler.data))
               /\ Goes(IF handler.data = <<>> THEN handler.ret ELSE "put_body")
            \/ /\ handler.pc = "put_body" /\ ServerSends(Body(handler.data))
               /\ Goes(handler.ret)
            \/ ~conn.c_open /\ UNCHANGED conn /\ Goes(handler.ret)
<1>1. handler.pc \in PutLabels /\ server = "up" /\ ServerOnly
  BY DEF SendPacket, ServerOnly, PutLabels
<1>2. /\ handler.ret \in HandlerLabels /\ "put_body" \in HandlerLabels
      /\ NmsHead(handler.data) \in Item /\ Body(handler.data) \in Item
  BY <1>1, PutHeld, ReturnsAre DEF HandlerLabels
<1>3. CASE /\ ServerAt("put_head") /\ ServerPut(NmsHead(handler.data))
           /\ ServerGoto(IF handler.data = <<>> THEN handler.ret ELSE "put_body")
  BY <1>1, <1>2, <1>3, ServerSendsIs, GoesIs DEF ServerAt
<1>4. CASE ServerAt("put_body") /\ ServerPut(Body(handler.data)) /\ ServerGoto(handler.ret)
  BY <1>1, <1>2, <1>4, ServerSendsIs, GoesIs DEF ServerAt
<1>5. CASE /\ ClientGone /\ UNCHANGED conn
           /\ handler' = [handler EXCEPT !.pc = handler.ret, !.failed = TRUE]
  <2>1. Goes(handler.ret)
    BY <1>5, Parts DEF HandlerType, Goes, Told, Keeps
  <2> QED
    BY <1>1, <1>5, <2>1 DEF ClientGone
<1>6. CASE ClientGone /\ UNCHANGED conn /\ ServerGoto(handler.ret)
  BY <1>1, <1>2, <1>6, GoesIs DEF ClientGone
<1> QED
  BY <1>3, <1>4, <1>5, <1>6, Zenon DEF SendPacket

\* A packet begins: of data, to be followed by ret.
Begins(data, ret) ==
  /\ handler'.pc = "put_head" /\ handler'.data = data /\ handler'.ret = ret
  /\ Told /\ handler'.recv_count = handler.recv_count

LEMMA EmptyBegins ==
  ASSUME Typed, NEW ret, Packet(<<>>, ret)
  PROVE  Begins(<<>>, ret)
BY Parts DEF Packet, HandlerType, Begins, Told

LEMMA SendItemIs ==
  ASSUME Typed, SendItem
  PROVE  /\ handler.pc = "items" /\ server = "up" /\ ServerOnly /\ UNCHANGED conn
         /\ Begins(Text, "items") \/ Begins(<<>>, "shut")
<1>1. handler.pc = "items" /\ server = "up" /\ ServerOnly /\ UNCHANGED conn
  BY DEF SendItem, ServerAt, ServerOnly
<1>2. CASE handler' = [handler EXCEPT !.pc = "put_head", !.data = Text, !.ret = "items",
                                      !.items = @ + 1]
  <2>1. Begins(Text, "items")
    BY <1>2, Parts DEF HandlerType, Begins, Told
  <2> QED
    BY <1>1, <2>1
<1> QED
  BY <1>1, <1>2, EmptyBegins, Zenon DEF SendItem

\* recv returned n: it failed, or the n bytes go to the client.
Returned(n, ret, onError) ==
  \/ /\ n = -1 /\ UNCHANGED sock
     /\ handler'.pc = onError /\ handler'.received = -1
     /\ Told /\ handler'.recv_count = handler.recv_count
  \/ /\ n >= 0 /\ Begins(Run(sock.taken, n), ret) /\ handler'.received = n
     /\ sock'.taken = sock.taken + n
     /\ sock'.arrived = sock.arrived /\ sock'.peer = sock.peer
     /\ sock'.blocking = sock.blocking /\ sock'.out = sock.out

LEMMA ReturnedIs ==
  ASSUME Typed, NEW size \in 0..Chunk, NEW waitall \in BOOLEAN, NEW ret, NEW onError,
         ReceiveAndSend(size, waitall, ret, onError)
  PROVE  \E n \in Received(size, waitall) : Returned(n, ret, onError)
<1>1. PICK n \in Received(size, waitall) : n \in -1..Chunk /\ Receives(n, ret, onError)
  BY ReceiveIs
<1>2. CASE /\ n = -1 /\ UNCHANGED sock
           /\ handler' = [handler EXCEPT !.pc = onError, !.received = -1, !.failed = FALSE]
  <2>1. handler'.pc = onError /\ handler'.received = -1 /\ Told
        /\ handler'.recv_count = handler.recv_count
    BY <1>2, Parts DEF HandlerType, Told
  <2> QED
    BY <1>1, <1>2, <2>1 DEF Returned
<1>3. CASE /\ n >= 0
           /\ StartsPacket(Run(sock.taken, n), ret, handler.items, n, FALSE)
           /\ sock' = [sock EXCEPT !.taken = sock.taken + n]
  <2>1. Begins(Run(sock.taken, n), ret) /\ handler'.received = n
    BY <1>3, Parts DEF StartsPacket, HandlerType, Begins, Told
  <2>2. /\ sock'.taken = sock.taken + n
        /\ sock'.arrived = sock.arrived /\ sock'.peer = sock.peer
        /\ sock'.blocking = sock.blocking /\ sock'.out = sock.out
    BY <1>3, Parts DEF SockType
  <2> QED
    BY <1>1, <1>3, <2>1, <2>2 DEF Returned
<1> QED
  BY <1>1, <1>2, <1>3 DEF Receives

NetworkOnly == UNCHANGED <<req, server, conn, client>>

LEMMA RecvSetupIs ==
  ASSUME Typed, RecvSetup
  PROVE  /\ handler.pc = "recv" /\ server = "up" /\ NetworkOnly
         /\ handler'.pc = (IF req.mode = "drain" THEN "drain" ELSE "loop")
         /\ handler'.received = 0 /\ handler'.recv_count = req.count \div Chunk
         /\ Told
         /\ sock'.blocking = (req.mode = "blocking")
         /\ sock'.arrived = sock.arrived /\ sock'.taken = sock.taken
         /\ sock'.peer = sock.peer /\ sock'.out = sock.out
<1>1. handler.pc = "recv" /\ server = "up" /\ NetworkOnly
  BY DEF RecvSetup, ServerAt, NetworkOnly
<1> DEFINE l == IF req.mode = "drain" THEN "drain" ELSE "loop"
           c == req.count \div Chunk
           b == req.mode = "blocking"
<1>2. /\ sock' = [sock EXCEPT !.blocking = b]
      /\ handler' = [handler EXCEPT !.pc = l, !.received = 0, !.recv_count = c]
  BY DEF RecvSetup
<1> HIDE DEF l, c, b
<1>3. handler'.pc = l /\ handler'.received = 0 /\ handler'.recv_count = c /\ Told
  BY <1>2, Parts DEF HandlerType, Told
<1>4. /\ sock'.blocking = b
      /\ sock'.arrived = sock.arrived /\ sock'.taken = sock.taken
      /\ sock'.peer = sock.peer /\ sock'.out = sock.out
  BY <1>2, Parts DEF SockType
<1> QED
  BY <1>1, <1>3, <1>4 DEF l, c, b

LEMMA DrainIs ==
  ASSUME Typed, Drain
  PROVE  /\ server = "up" /\ NetworkOnly
         /\ \/ /\ handler.pc = "drain"
               /\ \E n \in Received(Chunk, FALSE) : Returned(n, "drained", "recv_end")
            \/ /\ handler.pc = "drained" /\ UNCHANGED sock
               /\ \E l \in {"recv_end", "drain"} : Goes(l)
<1>1. server = "up" /\ NetworkOnly
  BY DEF Drain, ServerAt, NetworkOnly
<1>2. CASE ServerAt("drain") /\ ReceiveAndSend(Chunk, FALSE, "drained", "recv_end")
  <2>1. Chunk \in 0..Chunk
    BY Constants
  <2> QED
    BY <1>1, <1>2, <2>1, ReturnedIs DEF ServerAt
<1>3. CASE /\ ServerAt("drained") /\ UNCHANGED sock
           /\ \E l \in {"recv_end", "drain"} : ServerGoto(l)
  BY <1>1, <1>3, GoesIs DEF ServerAt, HandlerLabels
<1> QED
  BY <1>2, <1>3 DEF Drain

LEMMA RecvLoopIs ==
  ASSUME Typed, RecvLoop
  PROVE  /\ handler.pc = "loop" /\ server = "up" /\ NetworkOnly /\ UNCHANGED sock
         /\ handler'.pc = (IF handler.recv_count # 0 \/ handler.received = Chunk
                           THEN "chunk" ELSE "rest")
         /\ Told
<1>1. handler.pc = "loop" /\ server = "up" /\ NetworkOnly /\ UNCHANGED sock
  BY DEF RecvLoop, ServerAt, NetworkOnly
<1> DEFINE l == IF handler.recv_count # 0 \/ handler.received = Chunk THEN "chunk" ELSE "rest"
           c == (handler.recv_count + MaxUInt) % (MaxUInt + 1)
<1>2. handler' = [handler EXCEPT !.pc = l, !.recv_count = c]
  BY DEF RecvLoop
<1> HIDE DEF l, c
<1>3. handler'.pc = l /\ Told
  BY <1>2, Parts DEF HandlerType, Told
<1> QED
  BY <1>1, <1>3 DEF l

LEMMA RecvChunkIs ==
  ASSUME Typed, RecvChunk
  PROVE  /\ server = "up" /\ NetworkOnly
         /\ \/ /\ handler.pc = "chunk"
               /\ \E n \in Received(Chunk, req.mode = "blocking") :
                    Returned(n, "chunked", "rest")
            \/ /\ handler.pc = "chunked" /\ UNCHANGED sock
               /\ \E l \in {"recv_end", "loop"} : Goes(l)
<1>1. server = "up" /\ NetworkOnly
  BY DEF RecvChunk, ServerAt, NetworkOnly
<1>2. CASE ServerAt("chunk") /\ ReceiveAndSend(Chunk, req.mode = "blocking", "chunked", "rest")
  <2>1. Chunk \in 0..Chunk
    BY Constants
  <2> QED
    BY <1>1, <1>2, <2>1, ReturnedIs DEF ServerAt
<1>3. CASE /\ ServerAt("chunked") /\ UNCHANGED sock
           /\ \E l \in {"recv_end", "loop"} : ServerGoto(l)
  BY <1>1, <1>3, GoesIs DEF ServerAt, HandlerLabels
<1> QED
  BY <1>2, <1>3 DEF RecvChunk

LEMMA RecvRestIs ==
  ASSUME Typed, RecvRest
  PROVE  /\ server = "up" /\ NetworkOnly
         /\ \/ /\ handler.pc = "rest"
               /\ \E n \in Received(req.count % Chunk, req.mode = "blocking") :
                    Returned(n, "rest_end", "rest_end")
            \/ /\ handler.pc = "rest_end" /\ UNCHANGED sock
               /\ Goes("recv_end") \/ Begins(<<>>, "recv_end")
<1>1. server = "up" /\ NetworkOnly
  BY DEF RecvRest, ServerAt, NetworkOnly
<1>2. CASE /\ ServerAt("rest")
           /\ ReceiveAndSend(req.count % Chunk, req.mode = "blocking", "rest_end", "rest_end")
  BY <1>1, <1>2, CountTyped, ReturnedIs DEF ServerAt
<1>3. CASE /\ ServerAt("rest_end") /\ UNCHANGED sock
           /\ ServerGoto("recv_end") \/ Packet(<<>>, "recv_end")
  BY <1>1, <1>3, GoesIs, EmptyBegins DEF ServerAt, HandlerLabels
<1> QED
  BY <1>2, <1>3 DEF RecvRest

LEMMA RecvEndIs ==
  ASSUME Typed, RecvEnd
  PROVE  /\ handler.pc = "recv_end" /\ server = "up" /\ NetworkOnly /\ Goes("shut")
         /\ sock'.arrived = sock.arrived /\ sock'.taken = sock.taken
         /\ sock'.peer = sock.peer /\ sock'.out = sock.out
<1>1. handler.pc = "recv_end" /\ server = "up" /\ NetworkOnly /\ Goes("shut")
  BY GoesIs DEF RecvEnd, ServerAt, NetworkOnly, HandlerLabels
<1>2. /\ sock'.arrived = sock.arrived /\ sock'.taken = sock.taken
      /\ sock'.peer = sock.peer /\ sock'.out = sock.out
  BY Parts DEF RecvEnd, SockType
<1> QED
  BY <1>1, <1>2

LEMMA GetPacketIs ==
  ASSUME Typed, GetPacket
  PROVE  /\ server = "up" /\ ServerOnly
         /\ \/ /\ handler.pc = "get_head" /\ ServerReads("head")
               /\ \/ Length(conn.c2s[1].len) > 0 /\ Goes("get_body")
                  \/ /\ Length(conn.c2s[1].len) = 0 /\ handler.ret = "shut"
                     /\ handler'.pc = "forward" /\ handler'.data = <<>> /\ Told
                  \/ /\ Length(conn.c2s[1].len) = 0 /\ handler.ret = "last_code"
                     /\ Goes("last_code")
            \/ /\ handler.pc = "get_body" /\ ServerReads("body")
               /\ handler'.pc = "forward" /\ handler'.data = conn.c2s[1].data /\ Told
            \/ /\ handler.pc \in {"get_head", "get_body"} /\ ServerHearsEnd
               /\ Goes(handler.ret)
<1>1. server = "up" /\ ServerOnly
  BY DEF GetPacket, ServerAt, ServerOnly
<1>2. handler.pc \in SendLabels
  BY DEF GetPacket, ServerAt, SendLabels
<1>3. /\ handler.ret \in HandlerLabels /\ "get_body" \in HandlerLabels
      /\ "last_code" \in HandlerLabels
  BY <1>2, SendHeld DEF HandlerLabels
<1>4. CASE ServerAt("get_head") /\ ServerTakes("head") /\ Length(conn.c2s[1].len) > 0
           /\ ServerGoto("get_body")
  BY <1>1, <1>3, <1>4, ServerReadsIs, GoesIs DEF ServerAt
<1>5. CASE /\ ServerAt("get_head") /\ ServerTakes("head") /\ Length(conn.c2s[1].len) = 0
           /\ handler.ret = "shut"
           /\ handler' = [handler EXCEPT !.pc = "forward", !.data = <<>>]
  <2>1. handler'.pc = "forward" /\ handler'.data = <<>> /\ Told
    BY <1>5, Parts DEF HandlerType, Told
  <2> QED
    BY <1>1, <1>5, <2>1, ServerReadsIs DEF ServerAt
<1>6. CASE /\ ServerAt("get_head") /\ ServerTakes("head") /\ Length(conn.c2s[1].len) = 0
           /\ handler.ret = "last_code" /\ ServerGoto("last_code")
  BY <1>1, <1>3, <1>6, ServerReadsIs, GoesIs DEF ServerAt
<1>7. CASE /\ ServerAt("get_body") /\ ServerTakes("body")
           /\ handler' = [handler EXCEPT !.pc = "forward", !.data = conn.c2s[1].data]
  <2>1. handler'.pc = "forward" /\ handler'.data = conn.c2s[1].data /\ Told
    BY <1>7, Parts DEF HandlerType, Told
  <2> QED
    BY <1>1, <1>7, <2>1, ServerReadsIs DEF ServerAt
<1>8. CASE /\ ServerAt("get_head") \/ ServerAt("get_body")
           /\ ServerHearsEnd /\ ServerGoto(handler.ret)
  BY <1>1, <1>3, <1>8, GoesIs DEF ServerAt
<1> QED
  BY <1>4, <1>5, <1>6, <1>7, <1>8, Zenon DEF GetPacket

LEMMA ForwardIs ==
  ASSUME Typed, Forward
  PROVE  /\ handler.pc = "forward" /\ server = "up" /\ NetworkOnly
         /\ handler'.pc = "ack" /\ Told /\ handler'.data = handler.data
         /\ handler'.ret = handler.ret
         /\ sock'.arrived = sock.arrived /\ sock'.taken = sock.taken
         /\ \/ /\ handler'.status = "SUCCESS"
               /\ \/ sock'.out = sock.out \o handler.data /\ sock'.peer = sock.peer
                  \/ sock'.out = sock.out /\ sock'.peer = "reset"
            \/ handler'.status = "NETWORK_ERROR" /\ UNCHANGED sock
<1>1. handler.pc = "forward" /\ server = "up" /\ NetworkOnly
  BY DEF Forward, ServerAt, NetworkOnly
<1>2. ASSUME NEW c, handler' = [handler EXCEPT !.pc = "ack", !.status = c]
      PROVE  /\ handler'.pc = "ack" /\ Told /\ handler'.data = handler.data
             /\ handler'.ret = handler.ret /\ handler'.status = c
  BY <1>2, Parts DEF HandlerType, Told
<1>3. CASE /\ handler' = [handler EXCEPT !.pc = "ack", !.status = "SUCCESS"]
           /\ sock' = [sock EXCEPT !.out = @ \o handler.data]
  <2>1. /\ sock'.out = sock.out \o handler.data /\ sock'.arrived = sock.arrived
        /\ sock'.taken = sock.taken /\ sock'.peer = sock.peer
    BY <1>3, Parts DEF SockType
  <2> QED
    BY <1>1, <1>2, <1>3, <2>1
<1>4. CASE /\ handler' = [handler EXCEPT !.pc = "ack", !.status = "SUCCESS"]
           /\ sock' = [sock EXCEPT !.peer = "reset"]
  <2>1. /\ sock'.out = sock.out /\ sock'.arrived = sock.arrived
        /\ sock'.taken = sock.taken /\ sock'.peer = "reset"
    BY <1>4, Parts DEF SockType
  <2> QED
    BY <1>1, <1>2, <1>4, <2>1
<1>5. CASE /\ handler' = [handler EXCEPT !.pc = "ack", !.status = "NETWORK_ERROR"]
           /\ UNCHANGED sock
  BY <1>1, <1>2, <1>5
<1> QED
  BY <1>3, <1>4, <1>5, Zenon DEF Forward

LEMMA AckIs ==
  ASSUME Typed, Ack
  PROVE  /\ handler.pc = "ack" /\ server = "up" /\ ServerOnly
         /\ SentCode(handler.status) /\ Told
         /\ \/ /\ handler.cmd = "nms_send"
               /\ handler'.pc = (IF handler.status # "SUCCESS" THEN "last_code" ELSE "get_head")
            \/ /\ handler.cmd = "send"
               /\ handler'.pc = (IF handler.status # "SUCCESS" \/ handler.data = <<>>
                                 THEN "shut" ELSE "get_head")
               /\ handler'.ret = handler.ret
<1>1. handler.pc = "ack" /\ server = "up" /\ ServerOnly
  BY DEF Ack, ServerAt, ServerOnly
<1>2. SentCode(handler.status)
  BY HandlerFields, SentCodeIs DEF Ack
<1>3. ASSUME NEW l, handler' = [handler EXCEPT !.ret = "last_code", !.pc = l]
      PROVE  handler'.pc = l /\ Told
  BY <1>3, Parts DEF HandlerType, Told
<1>4. ASSUME NEW l, ServerGoto(l)
      PROVE  handler'.pc = l /\ Told /\ handler'.ret = handler.ret
  BY <1>4, Parts DEF HandlerType, Told, ServerGoto
<1>5. CASE /\ handler.cmd = "nms_send"
           /\ handler' = [handler EXCEPT !.ret = "last_code",
                !.pc = IF handler.status # "SUCCESS" THEN "last_code" ELSE "get_head"]
  BY <1>1, <1>2, <1>3, <1>5
<1>6. CASE /\ handler.cmd = "send"
           /\ ServerGoto(IF handler.status # "SUCCESS" \/ handler.data = <<>>
                         THEN "shut" ELSE "get_head")
  BY <1>1, <1>2, <1>4, <1>6
<1> QED
  BY <1>5, <1>6, Zenon DEF Ack

LEMMA LastCodeIs ==
  ASSUME Typed, LastCode
  PROVE  /\ handler.pc = "last_code" /\ server = "up" /\ ServerOnly
         /\ SentCode("SUCCESS") /\ Goes("shut")
BY SentCodeIs, GoesIs DEF LastCode, ServerAt, ServerOnly, HandlerLabels, Codes

LEMMA CloseConnectionIs ==
  ASSUME Typed, CloseConnection
  PROVE  /\ server = "up" /\ ServerOnly
         /\ conn'.c_open = conn.c_open /\ conn'.c2s = conn.c2s /\ conn'.s2c = conn.s2c
         /\ \/ /\ handler.pc = "shut" /\ Goes("linger")
               /\ ~conn'.s_sends /\ conn'.s_open = conn.s_open
            \/ /\ handler.pc = "linger" /\ Goes("done")
               /\ ~conn'.s_open /\ conn'.s_sends = conn.s_sends
<1>1. CASE /\ ServerAt("shut") /\ ServerGoto("linger")
           /\ conn' = [conn EXCEPT !.s_sends = FALSE] /\ UNCHANGED <<req, server, client, sock>>
  <2>1. /\ conn'.c_open = conn.c_open /\ conn'.c2s = conn.c2s /\ conn'.s2c = conn.s2c
        /\ ~conn'.s_sends /\ conn'.s_open = conn.s_open
    BY <1>1, Parts DEF ConnType
  <2> QED
    BY <1>1, <2>1, GoesIs DEF ServerAt, ServerOnly, HandlerLabels
<1>2. CASE /\ ServerAt("linger") /\ ServerGoto("done")
           /\ conn' = [conn EXCEPT !.s_open = FALSE] /\ UNCHANGED <<req, server, client, sock>>
  <2>1. /\ conn'.c_open = conn.c_open /\ conn'.c2s = conn.c2s /\ conn'.s2c = conn.s2c
        /\ ~conn'.s_open /\ conn'.s_sends = conn.s_sends
    BY <1>2, Parts DEF ConnType
  <2> QED
    BY <1>2, <2>1, GoesIs DEF ServerAt, ServerOnly, HandlerLabels
<1> QED
  BY <1>1, <1>2 DEF CloseConnection

LEMMA PeerIs ==
  ASSUME Typed, Peer
  PROVE  /\ sock.peer = "open" /\ UNCHANGED <<req, server, conn, client, handler>>
         /\ sock'.taken = sock.taken /\ sock'.blocking = sock.blocking
         /\ sock'.out = sock.out
BY Parts DEF Peer, SockType


-----------------------------------------------------------------------------
(* Who is where: Party is inductive.                                       *)

LEMMA PartyStep == Typed /\ Party /\ [Next]_vars => Party'
<1> SUFFICES ASSUME Typed, Party, [Next]_vars PROVE Connection' /\ Heard'
  BY DEF Party
<1> USE DEF Party, Connection, Heard, Quitting, Over, Unused, Early, Ending, RecvLabels,
     SendLabels, PutLabels, Goes, Told, Keeps, SameEnds, ClientSends, ServerSends,
     ClientReads, ServerReads, SentCode, GotCode, ClientKeeps, ExitsWith, ClientGoes,
     ClientOnly, ServerOnly, NetworkOnly, ClientHearsEnd, ServerHearsEnd, Begins, Returned
<1>1. CASE Connect
  <2>1. Connection'
    BY <1>1, ConnectIs
  <2>2. Heard'
    BY <1>1, ConnectIs
  <2> QED
    BY <2>1, <2>2
<1>2. CASE SendWord
  <2>1. Connection'
    BY <1>2, SendWordIs
  <2>2. Heard'
    BY <1>2, SendWordIs
  <2> QED
    BY <2>1, <2>2
<1>3. CASE ReadCode
  <2>1. Connection'
    BY <1>3, ReadCodeIs
  <2>2. Heard'
    BY <1>3, ReadCodeIs
  <2> QED
    BY <2>1, <2>2
<1>4. CASE ReadHead
  <2>1. Connection'
    BY <1>4, ReadHeadIs
  <2>2. Heard'
    BY <1>4, ReadHeadIs
  <2> QED
    BY <2>1, <2>2
<1>5. CASE ReadBody
  <2>0. /\ ClientOnly /\ SameEnds /\ client.pc = "body" /\ (client'.pc = "head" \/ Quitting')
        /\ client'.pc = "head" => ClientHandle(req.cmd) = "recv"
        /\ conn'.s2c = conn.s2c \/ conn.s2c # <<>>
    BY <1>5, ReadBodyIs
  <2>1. Connection'
    BY <1>5, ReadBodyIs
  <2>2. Heard'
    BY <2>0
  <2> QED
    BY <2>1, <2>2
<1>6. CASE ReadStdin
  <2>1. Connection'
    BY <1>6, ReadStdinIs
  <2>2. Heard'
    BY <1>6, ReadStdinIs
  <2> QED
    BY <2>1, <2>2
<1>7. CASE PutPacket
  <2>1. Connection'
    BY <1>7, PutPacketIs
  <2>2. Heard'
    BY <1>7, PutPacketIs
  <2> QED
    BY <2>1, <2>2
<1>8. CASE ReadAck
  <2>1. Connection'
    BY <1>8, ReadAckIs
  <2>2. Heard'
    BY <1>8, ReadAckIs
  <2> QED
    BY <2>1, <2>2
<1>9. CASE CloseClient \/ Kill
  <2>1. Connection'
    BY <1>9, ClientLeavesIs
  <2>2. Heard'
    BY <1>9, ClientLeavesIs
  <2> QED
    BY <2>1, <2>2
<1>10. CASE AcceptClient
  <2>1. Connection'
    BY <1>10, AcceptClientIs
  <2>2. Heard'
    BY <1>10, AcceptClientIs
  <2> QED
    BY <2>1, <2>2
<1>11. CASE RecvArgc
  <2>1. Connection'
    BY <1>11, RecvArgcIs, ServerEndsIs
  <2>2. Heard'
    BY <1>11, RecvArgcIs, ServerEndsIs
  <2> QED
    BY <2>1, <2>2
<1>12. CASE RecvWord
  <2>1. Connection'
    BY <1>12, RecvWordIs
  <2>2. Heard'
    BY <1>12, RecvWordIs
  <2> QED
    BY <2>1, <2>2
<1>13. CASE Dispatch
  <2>1. Connection'
    BY <1>13, DispatchIs, ServerEndsIs
  <2>2. Heard'
    BY <1>13, DispatchIs, ServerEndsIs
  <2> QED
    BY <2>1, <2>2
<1>14. CASE NetworkReturns
  <2>1. Connection'
    BY <1>14, NetworkReturnsIs
  <2>2. Heard'
    BY <1>14, NetworkReturnsIs
  <2> QED
    BY <2>1, <2>2
<1>15. CASE AnswerCode
  <2>0. "none" \notin Codes /\ \A c \in Codes : AfterCode(handler.cmd, c) \in AfterCodes
    BY AfterCodeTyped DEF Codes
  <2>1. Connection'
    BY <1>15, <2>0, AnswerCodeIs DEF AfterCodes
  <2>2. Heard'
    BY <1>15, AnswerCodeIs DEF AfterCode
  <2> QED
    BY <2>1, <2>2
<1>16. CASE SendPacket
  <2>1. Connection'
    BY <1>16, SendPacketIs, PutHeld DEF PutReturns
  <2>2. Heard'
    BY <1>16, SendPacketIs, PutHeld DEF PutReturns
  <2> QED
    BY <2>1, <2>2
<1>17. CASE SendItem
  <2>1. Connection'
    BY <1>17, SendItemIs
  <2>2. Heard'
    BY <1>17, SendItemIs
  <2> QED
    BY <2>1, <2>2
<1>18. CASE RecvSetup
  <2>1. Connection'
    BY <1>18, RecvSetupIs
  <2>2. Heard'
    BY <1>18, RecvSetupIs
  <2> QED
    BY <2>1, <2>2
<1>19. CASE Drain
  <2>0. /\ server = "up" /\ NetworkOnly /\ Told /\ handler.pc \in {"drain", "drained"}
        /\ handler'.pc \in {"put_head", "recv_end", "drain"}
        /\ handler'.pc = "put_head" => handler'.ret = "drained"
        /\ sock'.out = sock.out
    BY <1>19, DrainIs
  <2>1. Connection'
    BY <2>0
  <2>2. Heard'
    BY <2>0
  <2> QED
    BY <2>1, <2>2
<1>20. CASE RecvLoop
  <2>1. Connection'
    BY <1>20, RecvLoopIs
  <2>2. Heard'
    BY <1>20, RecvLoopIs
  <2> QED
    BY <2>1, <2>2
<1>21. CASE RecvChunk
  <2>1. Connection'
    BY <1>21, RecvChunkIs
  <2>2. Heard'
    BY <1>21, RecvChunkIs
  <2> QED
    BY <2>1, <2>2
<1>22. CASE RecvRest
  <2>1. Connection'
    BY <1>22, RecvRestIs
  <2>2. Heard'
    BY <1>22, RecvRestIs
  <2> QED
    BY <2>1, <2>2
<1>23. CASE RecvEnd
  <2>1. Connection'
    BY <1>23, RecvEndIs
  <2>2. Heard'
    BY <1>23, RecvEndIs
  <2> QED
    BY <2>1, <2>2
<1>24. CASE GetPacket
  <2>1. Connection'
    BY <1>24, GetPacketIs, SendHeld DEF GetReturns
  <2>2. Heard'
    BY <1>24, GetPacketIs, SendHeld DEF GetReturns
  <2> QED
    BY <2>1, <2>2
<1>25. CASE Forward
  <2>1. Connection'
    BY <1>25, ForwardIs
  <2>2. Heard'
    BY <1>25, ForwardIs
  <2> QED
    BY <2>1, <2>2
<1>26. CASE Ack
  <2>1. Connection'
    BY <1>26, AckIs
  <2>2. Heard'
    BY <1>26, AckIs
  <2> QED
    BY <2>1, <2>2
<1>27. CASE LastCode
  <2>1. Connection'
    BY <1>27, LastCodeIs
  <2>2. Heard'
    BY <1>27, LastCodeIs
  <2> QED
    BY <2>1, <2>2
<1>28. CASE CloseConnection
  <2>1. Connection'
    BY <1>28, CloseConnectionIs
  <2>2. Heard'
    BY <1>28, CloseConnectionIs
  <2> QED
    BY <2>1, <2>2
<1>29. CASE ServerExits
  <2>1. Connection'
    BY <1>29, ServerEndsIs DEF ServerExits
  <2>2. Heard'
    BY <1>29, ServerEndsIs DEF ServerExits
  <2> QED
    BY <2>1, <2>2
<1>30. CASE Peer
  <2>1. Connection'
    BY <1>30, PeerIs
  <2>2. Heard'
    BY <1>30, PeerIs
  <2> QED
    BY <2>1, <2>2
<1>31. CASE UNCHANGED vars
  BY <1>31 DEF vars
<1> QED
  BY <1>1, <1>2, <1>3, <1>4, <1>5, <1>6, <1>7, <1>8, <1>9, <1>10, <1>11, <1>12,
     <1>13, <1>14, <1>15, <1>16, <1>17, <1>18, <1>19, <1>20, <1>21, <1>22,
     <1>23, <1>24, <1>25, <1>26, <1>27, <1>28, <1>29, <1>30, <1>31, Steps, Zenon


LEMMA InitParty == Init => Party
BY DEF Init, Party, Connection, Heard, Unused, Over, Quitting, Early, Ending, RecvLabels,
   SendLabels, PutLabels

-----------------------------------------------------------------------------
(* Chains.                                                                 *)

LEMMA ChainAppend ==
  ASSUME NEW q \in Seq(Item), NEW x \in Item, NEW wants, NEW k, NEW sends \in BOOLEAN,
         Chain(q, wants, x.kind, sends), k \in {"any", KindAfter(x, sends)}
  PROVE  Chain(Append(q, x), wants, k, sends)
<1> DEFINE r == Append(q, x)
<1>1. x.kind # "any"
  BY ItemFields
<1>2. /\ r \in Seq(Item) /\ r # <<>> /\ Len(r) = Len(q) + 1
      /\ \A i \in 1..Len(q) : r[i] = q[i]
      /\ r[Len(q) + 1] = x
  BY Put
<1> HIDE DEF r
<1>3. r[1].kind = wants
  <2>1. CASE q = <<>>
    BY <1>1, <1>2, <2>1 DEF Chain
  <2>2. CASE q # <<>>
    <3>1. 1 \in 1..Len(q)
      BY <2>2
    <3> QED
      BY <1>2, <2>2, <3>1 DEF Chain
  <2> QED
    BY <2>1, <2>2
<1>4. ASSUME NEW i \in 1..(Len(r) - 1)
      PROVE  r[i + 1].kind = KindAfter(r[i], sends)
  <2>1. CASE i < Len(q)
    <3>1. i \in 1..(Len(q) - 1) /\ r[i] = q[i] /\ r[i + 1] = q[i + 1]
      BY <1>2, <2>1
    <3> QED
      BY <3>1 DEF Chain
  <2>2. CASE i = Len(q)
    <3>1. q # <<>> /\ r[i] = q[Len(q)] /\ r[i + 1] = x
      BY <1>2, <2>2
    <3> QED
      BY <1>1, <3>1 DEF Chain
  <2> QED
    BY <1>2, <2>1, <2>2
<1>5. r[Len(r)] = x
  BY <1>2
<1> QED
  BY <1>2, <1>3, <1>4, <1>5 DEF Chain, r

LEMMA ChainTail ==
  ASSUME NEW q \in Seq(Item), q # <<>>, NEW wants, NEW writes, NEW sends \in BOOLEAN,
         Chain(q, wants, writes, sends)
  PROVE  Chain(Tail(q), KindAfter(q[1], sends), writes, sends)
<1> DEFINE r == Tail(q)
<1>1. /\ r \in Seq(Item) /\ Len(r) = Len(q) - 1 /\ Len(q) \in Nat /\ Len(q) >= 1
      /\ \A i \in 1..(Len(q) - 1) : r[i] = q[i + 1]
  BY Take
<1> HIDE DEF r
<1>2. r # <<>> => r[1].kind = KindAfter(q[1], sends)
  <2>1. ASSUME r # <<>> PROVE 1 \in 1..(Len(q) - 1)
    BY <1>1, <2>1
  <2> QED
    BY <1>1, <2>1 DEF Chain
<1>3. ASSUME NEW i \in 1..(Len(r) - 1)
      PROVE  r[i + 1].kind = KindAfter(r[i], sends)
  <2>1. i + 1 \in 1..(Len(q) - 1) /\ r[i] = q[i + 1] /\ r[i + 1] = q[(i + 1) + 1]
    BY <1>1
  <2> QED
    BY <2>1 DEF Chain
<1>4. r # <<>> => r[Len(r)] = q[Len(q)]
  <2>1. ASSUME r # <<>> PROVE Len(r) \in 1..(Len(q) - 1) /\ Len(r) + 1 = Len(q)
    BY <1>1, <2>1
  <2> QED
    BY <1>1, <2>1
<1>5. ASSUME r = <<>> PROVE q[Len(q)] = q[1]
  <2>1. Len(r) = 0
    BY <1>5
  <2>2. Len(q) = 1
    BY <1>1, <2>1
  <2> QED
    BY <2>2
<1> QED
  BY <1>2, <1>3, <1>4, <1>5 DEF Chain, r

LEMMA ChainAny ==
  ASSUME NEW q, NEW wants, NEW writes, NEW sends, Chain(q, wants, writes, sends)
  PROVE  Chain(q, wants, "any", sends)
BY DEF Chain

LEMMA ChainEmpty ==
  ASSUME NEW wants, NEW writes, NEW sends, writes = "any" \/ writes = wants
  PROVE  Chain(<<>>, wants, writes, sends)
<1>1. Len(<<>>) = 0 /\ 1..(0 - 1) = {}
  OBVIOUS
<1> QED
  BY <1>1 DEF Chain


-----------------------------------------------------------------------------
(* The server's side of the stream to the client.                          *)

LEMMA GoneNotLive ==
  ASSUME Party, ~conn.c_open
  PROVE  ~Live
BY DEF Party, Connection, Live

LEMMA ToClientFrame ==
  ASSUME ToClient, conn'.s2c = conn.s2c, req' = req, Live' => Live,
         Live' => ClientWants' = ClientWants,
         Live' => ServerWrites' \in {ServerWrites, "any"}
  PROVE  ToClient'
BY ChainAny DEF ToClient, Sends

\* The server writes x and will write k next.
LEMMA ToClientSent ==
  ASSUME Typed, Party, ToClient, NEW x \in Item, UNCHANGED <<req, client>>, ServerSends(x),
         Live => x.kind = ServerWrites,
         Live => ServerWrites' \in {"any", KindAfter(x, Sends)}
  PROVE  ToClient'
<1> SUFFICES ASSUME Live' PROVE Chain(conn'.s2c, ClientWants', ServerWrites', Sends')
  BY DEF ToClient
<1>1. Live /\ ClientWants' = ClientWants /\ Sends' = Sends /\ Sends \in BOOLEAN
  BY DEF Live, ClientWants, Sends
<1>2. Chain(conn.s2c, ClientWants, x.kind, Sends)
  BY <1>1 DEF ToClient
<1>3. Chain(Append(conn.s2c, x), ClientWants, ServerWrites', Sends)
  BY <1>1, <1>2, ChainAppend, Parts
<1> QED
  BY <1>1, <1>3 DEF ServerSends

\* The steps of the server that write nothing.
SilentStep ==
  \/ AcceptClient \/ RecvArgc \/ RecvWord \/ Dispatch \/ NetworkReturns \/ SendItem
  \/ RecvSetup \/ Drain \/ RecvLoop \/ RecvChunk \/ RecvRest \/ RecvEnd \/ GetPacket
  \/ Forward \/ CloseConnection \/ ServerExits \/ Peer

LEMMA SilentWrites ==
  ASSUME Typed, Party, SilentStep
  PROVE  /\ conn'.s2c = conn.s2c /\ req' = req /\ client' = client
         /\ ServerWrites' \in {ServerWrites, "any"}
<1> USE DEF ServerWrites, Over, Early, SendLabels, Goes, SameEnds, ServerReads, ServerOnly,
     NetworkOnly, ServerHearsEnd, Begins, Returned
<1>1. CASE AcceptClient
  BY <1>1, AcceptClientIs
<1>2. CASE RecvArgc
  BY <1>2, RecvArgcIs, ServerEndsIs
<1>3. CASE RecvWord
  BY <1>3, RecvWordIs
<1>4. CASE Dispatch
  BY <1>4, DispatchIs, ServerEndsIs
<1>5. CASE NetworkReturns
  BY <1>5, NetworkReturnsIs
<1>6. CASE SendItem
  BY <1>6, SendItemIs
<1>7. CASE RecvSetup
  BY <1>7, RecvSetupIs
<1>8. CASE Drain
  BY <1>8, DrainIs
<1>9. CASE RecvLoop
  BY <1>9, RecvLoopIs
<1>10. CASE RecvChunk
  BY <1>10, RecvChunkIs
<1>11. CASE RecvRest
  BY <1>11, RecvRestIs
<1>12. CASE RecvEnd
  BY <1>12, RecvEndIs
<1>13. CASE GetPacket
  BY <1>13, GetPacketIs, SendHeld DEF GetReturns
<1>14. CASE Forward
  BY <1>14, ForwardIs
<1>15. CASE CloseConnection
  BY <1>15, CloseConnectionIs
<1>16. CASE ServerExits
  BY <1>16, ServerEndsIs DEF ServerExits
<1>17. CASE Peer
  BY <1>17, PeerIs
<1> QED
  BY <1>1, <1>2, <1>3, <1>4, <1>5, <1>6, <1>7, <1>8, <1>9, <1>10, <1>11, <1>12,
     <1>13, <1>14, <1>15, <1>16, <1>17, Zenon DEF SilentStep

LEMMA SilentToClient ==
  ASSUME Typed, Party, ToClient, SilentStep
  PROVE  ToClient'
BY SilentWrites, ToClientFrame DEF Live, ClientWants

LEMMA AnswerCodeToClient ==
  ASSUME Typed, Party, ToClient, AnswerCode
  PROVE  ToClient'
<1>1. PICK c \in Codes :
        SentCode(c) /\ handler'.pc = AfterCode(handler.cmd, c) /\ handler'.cmd = handler.cmd
  BY AnswerCodeIs
<1>2. handler.pc = "code" /\ server = "up" /\ UNCHANGED <<req, server, client, sock>>
  BY AnswerCodeIs DEF ServerOnly
<1>3. CASE ServerSends(Code(c))
  <2>1. /\ Code(c) \in Item /\ Code(c).kind = "code"
        /\ KindAfter(Code(c), Sends) = IF Sends THEN "code" ELSE "head"
    BY CodeItem DEF Code, KindAfter
  <2>2. ServerWrites = "code"
    BY <1>2 DEF ServerWrites, Over, Early
  <2>3. handler.cmd = req.cmd
    BY <1>2, <1>3 DEF ServerSends, Party, Heard
  <2>4. ServerWrites' \in {"any", KindAfter(Code(c), Sends)}
    <3>1. CASE handler'.pc = "shut"
      BY <3>1 DEF ServerWrites, Early, SendLabels
    <3>2. CASE handler'.pc = "get_head"
      <4>1. handler.cmd \in {"send", "nms_send"}
        BY <1>1, <3>2 DEF AfterCode
      <4>2. Sends
        BY <2>3, <4>1 DEF Sends, ClientHandle, CodeCmds
      <4> QED
        BY <1>2, <2>1, <3>2, <4>2 DEF ServerWrites, Over, SendLabels
    <3>3. CASE handler'.pc \in {"put_head", "items", "recv"}
      <4>1. handler.cmd \in {"accept", "info", "nms_recv", "list", "poll", "recv"}
        BY <1>1, <3>3 DEF AfterCode
      <4>2. ~Sends
        BY <2>3, <4>1 DEF Sends, ClientHandle, CodeCmds
      <4> QED
        BY <1>2, <2>1, <3>3, <4>2 DEF ServerWrites, Over, SendLabels, Early
    <3> QED
      BY <1>1, <3>1, <3>2, <3>3, AfterCodeTyped DEF AfterCodes
  <2> QED
    BY <1>2, <1>3, <2>1, <2>2, <2>4, ToClientSent
<1>4. CASE ~conn.c_open
  BY <1>2, <1>4, GoneNotLive DEF ToClient, Live
<1> QED
  BY <1>1, <1>3, <1>4 DEF SentCode

LEMMA AckToClient ==
  ASSUME Typed, Party, ToClient, Ack \/ LastCode
  PROVE  ToClient'
<1>1. PICK c \in Codes : SentCode(c)
  BY AckIs, LastCodeIs, HandlerFields DEF Codes
<1>2. /\ handler.pc \in {"ack", "last_code"} /\ server = "up"
      /\ UNCHANGED <<req, server, client, sock>>
      /\ handler'.pc \in {"last_code", "get_head", "shut"}
  BY AckIs, LastCodeIs DEF ServerOnly, Goes
<1>3. CASE ServerSends(Code(c))
  <2>1. /\ Code(c) \in Item /\ Code(c).kind = "code"
        /\ KindAfter(Code(c), Sends) = IF Sends THEN "code" ELSE "head"
    BY CodeItem DEF Code, KindAfter
  <2>2. ServerWrites = "code"
    BY <1>2 DEF ServerWrites, Over, SendLabels
  <2>3. Sends
    <3>1. handler.cmd \in {"send", "nms_send"} /\ handler.cmd = req.cmd
      BY <1>2, <1>3 DEF ServerSends, Party, Heard, Connection, SendLabels, Early, Ending
    <3> QED
      BY <3>1 DEF Sends, ClientHandle, CodeCmds
  <2>4. ServerWrites' \in {"any", "code"}
    BY <1>2 DEF ServerWrites, Over, SendLabels
  <2> QED
    BY <1>2, <1>3, <2>1, <2>2, <2>3, <2>4, ToClientSent
<1>4. CASE ~conn.c_open
  BY <1>2, <1>4, GoneNotLive DEF ToClient, Live
<1> QED
  BY <1>1, <1>3, <1>4 DEF SentCode

LEMMA SendPacketToClient ==
  ASSUME Typed, Party, ToClient, SendPacket
  PROVE  ToClient'
<1>1. handler.pc \in PutLabels /\ server = "up" /\ UNCHANGED <<req, server, client, sock>>
  BY SendPacketIs DEF ServerOnly
<1>2. ServerWrites = (IF handler.pc = "put_body" THEN "body" ELSE "head")
  BY <1>1 DEF ServerWrites, Over, PutLabels, SendLabels, Early
<1>3. handler.ret \in PutReturns
  BY <1>1, PutHeld
<1>4. handler'.pc = handler.ret => ServerWrites' \in {"any", "head"}
  BY <1>1, <1>3 DEF ServerWrites, Over, PutReturns, SendLabels, Early
<1>5. CASE /\ handler.pc = "put_head" /\ ServerSends(NmsHead(handler.data))
           /\ Goes(IF handler.data = <<>> THEN handler.ret ELSE "put_body")
  <2> DEFINE x == NmsHead(handler.data)
  <2>1. x \in Item /\ x.kind = "head" /\ Length(x.len) = Len(handler.data)
    BY <1>1, PutHeld
  <2>2. CASE handler.data = <<>>
    <3>1. Length(x.len) = 0
      BY <2>1, <2>2
    <3>2. KindAfter(x, Sends) = "head"
      BY <2>1, <3>1 DEF KindAfter
    <3> QED
      BY <1>1, <1>2, <1>4, <1>5, <2>1, <2>2, <3>2, ToClientSent DEF Goes
  <2>3. CASE handler.data # <<>>
    <3>1. Length(x.len) > 0
      BY <1>1, <2>1, <2>3, PutHeld
    <3>2. KindAfter(x, Sends) = "body"
      BY <2>1, <3>1 DEF KindAfter
    <3>3. ServerWrites' = "body"
      BY <1>1, <1>5, <2>3 DEF Goes, ServerWrites, Over, Early, SendLabels
    <3> QED
      BY <1>1, <1>2, <1>5, <2>1, <3>2, <3>3, ToClientSent
  <2> QED
    BY <2>2, <2>3
<1>6. CASE /\ handler.pc = "put_body" /\ ServerSends(Body(handler.data))
           /\ Goes(handler.ret)
  <2>1. /\ Body(handler.data) \in Item /\ Body(handler.data).kind = "body"
        /\ KindAfter(Body(handler.data), Sends) = "head"
    BY <1>1, PutHeld DEF KindAfter
  <2> QED
    BY <1>1, <1>2, <1>4, <1>6, <2>1, ToClientSent DEF Goes
<1>7. CASE ~conn.c_open
  BY <1>1, <1>7, GoneNotLive DEF ToClient, Live
<1> QED
  BY <1>5, <1>6, <1>7, SendPacketIs

-----------------------------------------------------------------------------
(* The client's side of the stream to the client.                          *)

\* The client reads an item and will read the one after it.
LEMMA ToClientTaken ==
  ASSUME Typed, ToClient, ClientOnly, NEW kind, ClientReads(kind), Live,
         Live' => ClientWants' = KindAfter(conn.s2c[1], Sends)
  PROVE  ToClient'
<1> SUFFICES ASSUME Live' PROVE Chain(conn'.s2c, ClientWants', ServerWrites', Sends')
  BY DEF ToClient
<1>1. ServerWrites' = ServerWrites /\ Sends' = Sends /\ Sends \in BOOLEAN
  BY DEF ClientOnly, ServerWrites, Over, Sends
<1>2. Chain(Tail(conn.s2c), KindAfter(conn.s2c[1], Sends), ServerWrites, Sends)
  BY ChainTail, <1>1, Parts DEF ToClient, ClientReads
<1> QED
  BY <1>1, <1>2 DEF ClientReads

LEMMA ToClientEnded ==
  ASSUME Party, ClientOnly, ClientHearsEnd, Live
  PROVE  ToClient'
<1>1. ServerWrites' = "any" /\ conn'.s2c = <<>>
  BY DEF Party, Connection, Live, ClientOnly, ClientHearsEnd, ServerWrites, Over, Early, SendLabels
<1> QED
  BY <1>1, ChainEmpty DEF ToClient

LEMMA ToClientKept ==
  ASSUME ToClient, ClientOnly, conn'.s2c = conn.s2c,
         Live' => Live /\ ClientWants' = ClientWants
  PROVE  ToClient'
BY ToClientFrame DEF ClientOnly, ServerWrites, Over

LEMMA ConnectToClient ==
  ASSUME Typed, Party, Connect
  PROVE  ToClient'
<1>1. /\ conn'.s2c = <<>> /\ client'.pc = "words" /\ server' = "up" /\ handler'.pc = "accept"
  BY ConnectIs DEF Party, Connection, Unused, Early
<1>2. ServerWrites' = "code" /\ ClientWants' = "code"
  BY <1>1 DEF ServerWrites, Over, Early, ClientWants
<1> QED
  BY <1>1, <1>2, ChainEmpty DEF ToClient

\* A client that has read a code.
LEMMA GotCodeToClient ==
  ASSUME Typed, Party, ToClient, ClientOnly, NEW c, GotCode(c), client.pc \in {"code", "ack"},
         Live' => client'.pc = IF Sends THEN "stdin" ELSE "head"
  PROVE  ToClient'
<1>1. Live
  BY DEF Live
<1>2. CASE ClientReads("code")
  <2>1. KindAfter(conn.s2c[1], Sends) = IF Sends THEN "code" ELSE "head"
    BY <1>2 DEF ClientReads, KindAfter
  <2>2. Live' => ClientWants' = KindAfter(conn.s2c[1], Sends)
    BY <2>1 DEF ClientWants, Live
  <2> QED
    BY <1>1, <1>2, <2>2, ToClientTaken
<1> QED
  BY <1>1, <1>2, ToClientEnded DEF GotCode

LEMMA ReadCodeToClient ==
  ASSUME Typed, Party, ToClient, ReadCode
  PROVE  ToClient'
<1>1. client.pc = "code" /\ ClientOnly
  BY ReadCodeIs
<1>2. CASE conn' = conn /\ ExitsWith("CLIENT_OOM")
  BY <1>1, <1>2, ToClientKept DEF ExitsWith, Live
<1>3. ASSUME NEW c \in Ends, GotCode(c),
             \/ \E d \in Ends : ExitsWith(d)
             \/ ClientHandle(req.cmd) = "send" /\ ClientGoes("stdin")
             \/ ClientHandle(req.cmd) \in {"recv", "nms_recv"} /\ ClientGoes("head")
      PROVE  ToClient'
  <2>1. Live' => client'.pc = IF Sends THEN "stdin" ELSE "head"
    BY <1>3 DEF ExitsWith, ClientGoes, Live, Sends
  <2> QED
    BY <1>1, <1>3, <2>1, GotCodeToClient
<1>4. "CLIENT_OOM" \in Ends
  BY DEF Ends, Codes
<1> QED
  BY <1>2, <1>3, <1>4, ReadCodeIs

LEMMA ReadHeadToClient ==
  ASSUME Typed, Party, ToClient, ReadHead
  PROVE  ToClient'
<1>1. client.pc = "head" /\ ClientOnly /\ Live
  BY ReadHeadIs DEF Live
<1>2. CASE /\ ClientReads("head") /\ Length(conn.s2c[1].len) > 0 /\ client'.pc = "body"
  <2>1. ClientWants' = KindAfter(conn.s2c[1], Sends)
    BY <1>2 DEF ClientReads, ClientWants, KindAfter
  <2> QED
    BY <1>1, <1>2, <2>1, ToClientTaken
<1>3. CASE ClientReads("head") /\ client'.pc = "closing"
  BY <1>1, <1>3, ToClientTaken DEF Live
<1>4. CASE ClientHearsEnd
  BY <1>1, <1>4, ToClientEnded
<1> QED
  BY <1>2, <1>3, <1>4, ReadHeadIs DEF ExitsWith

LEMMA ReadBodyToClient ==
  ASSUME Typed, Party, ToClient, ReadBody
  PROVE  ToClient'
<1>1. client.pc = "body" /\ ClientOnly /\ Live
  BY ReadBodyIs DEF Live
<1>2. CASE ClientReads("body") /\ client'.pc \in {"head", "closing"}
  <2>1. Live' => ClientWants' = KindAfter(conn.s2c[1], Sends)
    BY <1>2 DEF ClientReads, ClientWants, KindAfter, Live
  <2> QED
    BY <1>1, <1>2, <2>1, ToClientTaken
<1>3. CASE ClientHearsEnd
  BY <1>1, <1>3, ToClientEnded
<1> QED
  BY <1>2, <1>3, ReadBodyIs

LEMMA ReadAckToClient ==
  ASSUME Typed, Party, ToClient, ReadAck
  PROVE  ToClient'
<1>1. client.pc = "ack" /\ ClientOnly /\ Sends
  BY ReadAckIs DEF Party, Heard, Sends
<1>2. PICK c \in Ends : GotCode(c) /\ (ClientGoes("stdin") \/ ExitsWith(c))
  BY ReadAckIs
<1>3. Live' => client'.pc = IF Sends THEN "stdin" ELSE "head"
  BY <1>1, <1>2 DEF ExitsWith, ClientGoes, Live
<1> QED
  BY <1>1, <1>2, <1>3, GotCodeToClient

\* The client's steps that read nothing from the server.
MuteStep == SendWord \/ ReadStdin \/ PutPacket \/ CloseClient \/ Kill

LEMMA MuteToClient ==
  ASSUME Typed, ToClient, MuteStep
  PROVE  ToClient'
<1> USE DEF ClientOnly, ClientSends, ExitsWith, ClientGoes, Live, ClientWants
<1>1. CASE SendWord
  BY <1>1, SendWordIs, ToClientKept
<1>2. CASE ReadStdin
  BY <1>2, ReadStdinIs, ToClientKept
<1>3. CASE PutPacket
  BY <1>3, PutPacketIs, ToClientKept
<1>4. CASE CloseClient \/ Kill
  BY <1>4, ClientLeavesIs, ToClientKept
<1> QED
  BY <1>1, <1>2, <1>3, <1>4 DEF MuteStep

LEMMA MoreSteps ==
  ASSUME [Next]_vars
  PROVE  \/ Connect \/ ReadCode \/ ReadHead \/ ReadBody \/ ReadAck \/ MuteStep
         \/ AnswerCode \/ SendPacket \/ Ack \/ LastCode \/ SilentStep \/ UNCHANGED vars
BY Steps DEF MuteStep, SilentStep

LEMMA ToClientStep == Typed /\ Party /\ ToClient /\ [Next]_vars => ToClient'
<1> SUFFICES ASSUME Typed, Party, ToClient, [Next]_vars PROVE ToClient'
  OBVIOUS
<1>1. CASE UNCHANGED vars
  BY <1>1, ToClientFrame DEF vars, Live, ClientWants, ServerWrites, Over
<1> QED
  BY <1>1, MoreSteps, ConnectToClient, ReadCodeToClient, ReadHeadToClient, ReadBodyToClient,
     ReadAckToClient, MuteToClient, AnswerCodeToClient, SendPacketToClient, AckToClient,
     SilentToClient, Zenon

-----------------------------------------------------------------------------
(* Bodies have the length of their heads.                                  *)

LEMMA WantsBody ==
  ASSUME ToClient', Live', handler'.pc = "put_body", ~Over', conn'.s2c = <<>>
  PROVE  client'.pc = "body"
<1>1. ServerWrites' = "body"
  BY DEF ServerWrites, Early, SendLabels
<1>2. Chain(conn'.s2c, ClientWants', "body", Sends')
  BY <1>1 DEF ToClient
<1>3. ClientWants' = "body"
  BY <1>2 DEF Chain
<1> QED
  BY <1>3 DEF ClientWants

LEMMA HasBody ==
  ASSUME ToClient', Live', client'.pc = "body", conn'.s2c # <<>>
  PROVE  conn'.s2c[1].kind = "body"
BY DEF ToClient, Chain, ClientWants

LEMMA LengthsFrame ==
  ASSUME ToClient', Lengths, conn'.s2c = conn.s2c,
         Live' => Live,
         Live' /\ client'.pc = "body" => client.pc = "body" /\ client'.count = client.count,
         handler'.pc = "put_body" /\ ~Over' =>
           handler.pc = "put_body" /\ ~Over /\ handler'.data = handler.data
  PROVE  Lengths'
<1>1. Live' /\ handler'.pc = "put_body" /\ ~Over' /\ conn'.s2c = <<>> => client'.pc = "body"
  BY WantsBody
<1> QED
  BY <1>1 DEF Lengths

LEMMA LengthsSent ==
  ASSUME Typed, ToClient', Lengths, NEW x \in Item, UNCHANGED <<req, client>>, ServerSends(x),
         Live /\ x.kind = "body" =>
           Len(x.data) = IF conn.s2c = <<>> THEN client.count
                                            ELSE Length(conn.s2c[Len(conn.s2c)].len),
         handler'.pc = "put_body" =>
           Len(handler'.data) > 0 /\ Len(handler'.data) = Length(x.len)
  PROVE  Lengths'
<1> DEFINE q == conn.s2c
           r == conn'.s2c
<1> SUFFICES ASSUME Live' PROVE
       /\ \A i \in 1..(Len(r) - 1) :
            r[i].kind = "head" /\ r[i + 1].kind = "body" => Len(r[i + 1].data) = Length(r[i].len)
       /\ client'.pc = "body" => Len(r[1].data) = client'.count
       /\ handler'.pc = "put_body" =>
            Len(handler'.data) > 0 /\ Len(handler'.data) = Length(r[Len(r)].len)
       /\ r # <<>>
  BY DEF Lengths
<1>1. Live /\ client' = client
  BY DEF Live
<1>2. /\ q \in Seq(Item) /\ r # <<>> /\ Len(r) = Len(q) + 1 /\ Len(q) \in Nat
      /\ \A i \in 1..Len(q) : r[i] = q[i]
      /\ r[Len(q) + 1] = x
  BY Put, Parts DEF ServerSends
<1>3. /\ \A i \in 1..(Len(q) - 1) :
           q[i].kind = "head" /\ q[i + 1].kind = "body" => Len(q[i + 1].data) = Length(q[i].len)
      /\ client.pc = "body" /\ q # <<>> => Len(q[1].data) = client.count
  BY <1>1 DEF Lengths
<1>4. client'.pc = "body" => r[1].kind = "body"
  BY <1>2, HasBody
<1> HIDE DEF q, r
<1>5. ASSUME NEW i \in 1..(Len(r) - 1), r[i].kind = "head", r[i + 1].kind = "body"
      PROVE  Len(r[i + 1].data) = Length(r[i].len)
  <2>1. CASE i < Len(q)
    <3>1. i \in 1..(Len(q) - 1) /\ r[i] = q[i] /\ r[i + 1] = q[i + 1]
      BY <1>2, <2>1
    <3> QED
      BY <1>3, <1>5, <3>1
  <2>2. CASE i = Len(q)
    <3>1. q # <<>> /\ r[i] = q[Len(q)] /\ r[i + 1] = x
      BY <1>2, <2>2
    <3> QED
      BY <1>1, <1>5, <3>1 DEF q
  <2> QED
    BY <1>2, <2>1, <2>2
<1>6. ASSUME client'.pc = "body" PROVE Len(r[1].data) = client'.count
  <2>1. CASE q = <<>>
    <3>1. r[1] = x
      BY <1>2, <2>1
    <3> QED
      BY <1>1, <1>4, <1>6, <2>1, <3>1 DEF q
  <2>2. CASE q # <<>>
    <3>1. r[1] = q[1]
      BY <1>2, <2>2
    <3> QED
      BY <1>1, <1>3, <1>6, <2>2, <3>1
  <2> QED
    BY <2>1, <2>2
<1>7. r[Len(r)] = x
  BY <1>2
<1> QED
  BY <1>2, <1>5, <1>6, <1>7

LEMMA LengthsTaken ==
  ASSUME Typed, ToClient', Lengths, ClientOnly, NEW kind, ClientReads(kind), Live,
         Live' /\ client'.pc = "body" =>
           conn.s2c[1].kind = "head" /\ client'.count = Length(conn.s2c[1].len)
  PROVE  Lengths'
<1> DEFINE q == conn.s2c
           r == conn'.s2c
<1> SUFFICES ASSUME Live' PROVE
       /\ \A i \in 1..(Len(r) - 1) :
            r[i].kind = "head" /\ r[i + 1].kind = "body" => Len(r[i + 1].data) = Length(r[i].len)
       /\ client'.pc = "body" /\ r # <<>> => Len(r[1].data) = client'.count
       /\ handler'.pc = "put_body" /\ ~Over' =>
            /\ Len(handler'.data) > 0
            /\ Len(handler'.data) = IF r = <<>> THEN client'.count ELSE Length(r[Len(r)].len)
  BY DEF Lengths
<1>1. /\ q \in Seq(Item) /\ q # <<>> /\ r \in Seq(Item) /\ Len(q) >= 1
      /\ Len(r) = Len(q) - 1 /\ Len(q) \in Nat
      /\ \A i \in 1..(Len(q) - 1) : r[i] = q[i + 1]
  BY Take, Parts DEF ClientReads
<1>2. /\ \A i \in 1..(Len(q) - 1) :
           q[i].kind = "head" /\ q[i + 1].kind = "body" => Len(q[i + 1].data) = Length(q[i].len)
      /\ handler.pc = "put_body" /\ ~Over =>
           Len(handler.data) > 0 /\ Len(handler.data) = Length(q[Len(q)].len)
  BY <1>1 DEF Lengths
<1>3. /\ client'.pc = "body" => q[1].kind = "head" /\ client'.count = Length(q[1].len)
      /\ client'.pc = "body" /\ r # <<>> => r[1].kind = "body"
      /\ handler'.pc = "put_body" /\ ~Over' /\ r = <<>> => client'.pc = "body"
      /\ handler' = handler /\ Over' = Over
  BY HasBody, WantsBody DEF ClientOnly, Over
<1> HIDE DEF q, r
<1>4. ASSUME NEW i \in 1..(Len(r) - 1), r[i].kind = "head", r[i + 1].kind = "body"
      PROVE  Len(r[i + 1].data) = Length(r[i].len)
  <2>1. i + 1 \in 1..(Len(q) - 1) /\ r[i] = q[i + 1] /\ r[i + 1] = q[(i + 1) + 1]
    BY <1>1
  <2> QED
    BY <1>2, <1>4, <2>1
<1>5. ASSUME client'.pc = "body", r # <<>> PROVE Len(r[1].data) = client'.count
  <2>1. 1 \in 1..(Len(q) - 1) /\ r[1] = q[1 + 1]
    BY <1>1, <1>5
  <2> QED
    BY <1>2, <1>3, <1>5, <2>1
<1>6. ASSUME handler'.pc = "put_body", ~Over'
      PROVE  /\ Len(handler'.data) > 0
             /\ Len(handler'.data) = IF r = <<>> THEN client'.count ELSE Length(r[Len(r)].len)
  <2>1. CASE r = <<>>
    <3>1. Len(r) = 0
      BY <2>1
    <3>2. Len(q) = 1
      BY <1>1, <3>1
    <3> QED
      BY <1>2, <1>3, <1>6, <2>1, <3>2
  <2>2. CASE r # <<>>
    <3>1. Len(r) \in 1..(Len(q) - 1) /\ Len(r) + 1 = Len(q)
      BY <1>1, <2>2
    <3>2. r[Len(r)] = q[Len(q)]
      BY <1>1, <3>1
    <3> QED
      BY <1>2, <1>3, <1>6, <2>2, <3>2
  <2> QED
    BY <2>1, <2>2
<1> QED
  BY <1>4, <1>5, <1>6

LEMMA CodeLengths ==
  ASSUME Typed, Party, ToClient', Lengths, AnswerCode \/ Ack \/ LastCode
  PROVE  Lengths'
<1>1. PICK c \in Codes : SentCode(c)
  BY AnswerCodeIs, AckIs, LastCodeIs, HandlerFields DEF Codes
<1>2. UNCHANGED <<req, client>> /\ handler'.pc # "put_body"
  BY AnswerCodeIs, AckIs, LastCodeIs, AfterCodeTyped DEF ServerOnly, Goes, AfterCodes
<1>3. CASE ServerSends(Code(c))
  <2>1. Code(c) \in Item /\ Code(c).kind # "body"
    BY CodeItem DEF Code
  <2> QED
    BY <1>2, <1>3, <2>1, LengthsSent
<1>4. CASE ~conn.c_open
  BY <1>2, <1>4, GoneNotLive DEF Lengths, Live
<1> QED
  BY <1>1, <1>3, <1>4 DEF SentCode

LEMMA SendPacketLengths ==
  ASSUME Typed, Party, ToClient', Lengths, SendPacket
  PROVE  Lengths'
<1>1. handler.pc \in PutLabels /\ server = "up" /\ UNCHANGED <<req, server, client, sock>>
  BY SendPacketIs DEF ServerOnly
<1>2. handler.ret # "put_body" /\ ~Over
  BY <1>1, PutHeld DEF PutReturns, PutLabels, Over
<1>3. CASE /\ handler.pc = "put_head" /\ ServerSends(NmsHead(handler.data))
           /\ Goes(IF handler.data = <<>> THEN handler.ret ELSE "put_body")
  <2> DEFINE x == NmsHead(handler.data)
  <2>1. x \in Item /\ x.kind = "head" /\ Length(x.len) = Len(handler.data)
    BY <1>1, PutHeld
  <2>2. handler'.pc = "put_body" => handler'.data = handler.data /\ handler.data # <<>>
    BY <1>2, <1>3 DEF Goes, Keeps
  <2>3. handler'.pc = "put_body" => Len(handler'.data) > 0 /\ Len(handler'.data) = Length(x.len)
    BY <1>1, <2>1, <2>2, PutHeld
  <2> HIDE DEF x
  <2> QED
    BY <1>1, <1>3, <2>1, <2>3, LengthsSent DEF x
<1>4. CASE /\ handler.pc = "put_body" /\ ServerSends(Body(handler.data))
           /\ Goes(handler.ret)
  <2>1. Body(handler.data) \in Item /\ Body(handler.data).data = handler.data
    BY <1>1, PutHeld
  <2>2. handler'.pc # "put_body"
    BY <1>2, <1>4 DEF Goes
  <2>3. Live => Len(handler.data) = IF conn.s2c = <<>> THEN client.count
                                       ELSE Length(conn.s2c[Len(conn.s2c)].len)
    BY <1>2, <1>4 DEF Lengths
  <2> QED
    BY <1>1, <1>4, <2>1, <2>2, <2>3, LengthsSent
<1>5. CASE ~conn.c_open
  BY <1>1, <1>5, GoneNotLive DEF Lengths, Live
<1> QED
  BY <1>3, <1>4, <1>5, SendPacketIs

\* A silent step leaves no packet half written.
LEMMA SilentGoes ==
  ASSUME Typed, SilentStep
  PROVE  handler'.pc = "put_body" /\ ~Over' => UNCHANGED <<handler, server>>
<1> USE DEF Over, Goes, NetworkOnly, Begins, Returned, ServerOnly
<1>1. CASE AcceptClient \/ RecvArgc \/ NetworkReturns \/ SendItem
  BY <1>1, AcceptClientIs, RecvArgcIs, ServerEndsIs, NetworkReturnsIs, SendItemIs
<1>2. CASE RecvWord
  BY <1>2, RecvWordIs
<1>3. CASE Dispatch
  BY <1>3, DispatchIs, ServerEndsIs
<1>4. CASE RecvSetup \/ Drain \/ RecvLoop \/ RecvChunk
  BY <1>4, RecvSetupIs, DrainIs, RecvLoopIs, RecvChunkIs
<1>5. CASE RecvRest \/ RecvEnd \/ Forward
  BY <1>5, RecvRestIs, RecvEndIs, ForwardIs
<1>6. CASE GetPacket
  BY <1>6, GetPacketIs, SendHeld DEF SendLabels, GetReturns
<1>7. CASE CloseConnection \/ ServerExits \/ Peer
  BY <1>7, CloseConnectionIs, ServerEndsIs, PeerIs DEF ServerExits
<1> QED
  BY <1>1, <1>2, <1>3, <1>4, <1>5, <1>6, <1>7, Zenon DEF SilentStep

LEMMA SilentLengths ==
  ASSUME Typed, Party, ToClient', Lengths, SilentStep
  PROVE  Lengths'
<1>1. conn'.s2c = conn.s2c /\ client' = client
  BY SilentWrites
<1>2. handler'.pc = "put_body" /\ ~Over' => UNCHANGED <<handler, server>>
  BY SilentGoes
<1> QED
  BY <1>1, <1>2, LengthsFrame DEF Live, Over

LEMMA ReadLengths ==
  ASSUME Typed, ToClient', Lengths, ReadCode \/ ReadHead \/ ReadBody \/ ReadAck
  PROVE  Lengths'
<1> USE DEF Live, GotCode, ExitsWith, ClientGoes, ClientOnly, ClientHearsEnd, Over
<1>1. CASE ReadCode
  <2>1. ClientOnly /\ Live /\ client'.pc # "body" /\ (ClientReads("code") \/ UNCHANGED conn)
    BY <1>1, ReadCodeIs
  <2> QED
    BY <2>1, LengthsTaken, LengthsFrame
<1>2. CASE ReadHead
  <2>1. /\ ClientOnly /\ Live
        /\ ClientReads("head") \/ UNCHANGED conn
        /\ client'.pc = "body" => /\ ClientReads("head")
                                  /\ client'.count = Length(conn.s2c[1].len)
    BY <1>2, ReadHeadIs
  <2> QED
    BY <2>1, LengthsTaken, LengthsFrame DEF ClientReads
<1>3. CASE ReadBody
  <2>1. ClientOnly /\ Live /\ client'.pc # "body" /\ (ClientReads("body") \/ UNCHANGED conn)
    BY <1>3, ReadBodyIs
  <2> QED
    BY <2>1, LengthsTaken, LengthsFrame
<1>4. CASE ReadAck
  <2>1. ClientOnly /\ Live /\ client'.pc # "body" /\ (ClientReads("code") \/ UNCHANGED conn)
    BY <1>4, ReadAckIs
  <2> QED
    BY <2>1, LengthsTaken, LengthsFrame
<1> QED
  BY <1>1, <1>2, <1>3, <1>4

LEMMA MuteLengths ==
  ASSUME Typed, ToClient', Lengths, MuteStep
  PROVE  Lengths'
<1>1. /\ ClientOnly /\ conn'.s2c = conn.s2c /\ (Live' => Live) /\ (Live' => client'.pc # "body")
  BY SendWordIs, ReadStdinIs, PutPacketIs, ClientLeavesIs
     DEF MuteStep, ClientOnly, ClientSends, ExitsWith, ClientGoes, Live
<1> QED
  BY <1>1, LengthsFrame DEF ClientOnly, Over

LEMMA LengthsStep == Typed /\ Party /\ ToClient' /\ Lengths /\ [Next]_vars => Lengths'
<1> SUFFICES ASSUME Typed, Party, ToClient', Lengths, [Next]_vars PROVE Lengths'
  OBVIOUS
<1>1. CASE UNCHANGED vars
  BY <1>1, LengthsFrame DEF vars, Live, Over
<1>2. CASE Connect
  <2>1. conn'.s2c = <<>> /\ client'.pc = "words" /\ handler'.pc = "accept"
    BY <1>2, ConnectIs DEF Party, Connection, Unused, Early
  <2>2. Len(<<>>) = 0 /\ 1..(0 - 1) = {}
    OBVIOUS
  <2> QED
    BY <2>1, <2>2 DEF Lengths
<1> QED
  BY <1>1, <1>2, MoreSteps, ReadLengths, MuteLengths, CodeLengths, SendPacketLengths,
     SilentLengths, Zenon

-----------------------------------------------------------------------------
(* The words of the command.                                               *)

LEMMA WordsFrame ==
  ASSUME Words, conn'.c2s = conn.c2s, req' = req, handler' = handler,
         client'.pc # "start" => client.pc # "start",
         client'.pc = "words" => client.pc = "words" /\ client'.left = client.left
  PROVE  Words'
BY DEF Words, WordsLeft, WordsSent

\* A handler that has answered, or ends, reads no words.
LEMMA WordsRead ==
  ASSUME Words, handler'.pc \notin Early, handler'.answer = handler.answer, client' = client
  PROVE  Words'
BY DEF Words

LEMMA ConnectWords ==
  ASSUME Typed, Party, Connect
  PROVE  Words'
<1>1. /\ conn'.c2s = <<>> /\ handler'.pc = "accept" /\ handler'.answer = "none"
      /\ client'.pc = "words" /\ client'.left = (IF req'.few THEN 2 ELSE 3)
  BY ConnectIs DEF Party, Connection, Unused, Early
<1>2. Len(<<>>) = 0 /\ DOMAIN <<>> = {}
  OBVIOUS
<1> QED
  BY <1>1, <1>2 DEF Words, WordsLeft, WordsSent

LEMMA SendWordWords ==
  ASSUME Typed, Party, Words, SendWord
  PROVE  Words'
<1>1. client.pc = "words" /\ req' = req /\ handler' = handler
  BY SendWordIs DEF ClientOnly
<1>2. CASE /\ client.left > 0 /\ ClientSends(Word) /\ client'.pc = "words"
           /\ client'.left = client.left - 1
  <2>1. /\ Len(conn'.c2s) = Len(conn.c2s) + 1 /\ conn'.c2s \in Seq(Item)
        /\ \A i \in 1..Len(conn.c2s) : conn'.c2s[i] = conn.c2s[i]
        /\ conn'.c2s[Len(conn.c2s) + 1] = Word
    BY <1>2, Put, WordItem, Parts DEF ClientSends
  <2>2. Len(conn.c2s) \in Nat /\ conn.c2s \in Seq(Item) /\ client.left \in Nat
    BY Parts, ClientFields DEF Typed
  <2>3. ASSUME handler.pc \in Early
        PROVE  /\ \A i \in DOMAIN conn'.c2s : conn'.c2s[i].kind = "word"
               /\ Len(conn'.c2s) + client'.left = WordsLeft
               /\ Len(conn'.c2s) <= WordsLeft
    <3>1. Len(conn.c2s) + client.left = WordsLeft
      BY <1>1, <2>3 DEF Words
    <3>2. \A i \in DOMAIN conn.c2s : conn.c2s[i].kind = "word"
      BY <2>3 DEF Words
    <3>3. PICK n : n = Len(conn.c2s)
      OBVIOUS
    <3>4. \A i \in DOMAIN conn'.c2s : i \in 1..n \/ i = n + 1
      BY <2>1, <2>2, <3>3
    <3>5. \A i \in 1..n : conn'.c2s[i].kind = "word"
      <4>1. DOMAIN conn.c2s = 1..n
        BY <2>2, <3>3
      <4> QED BY <2>1, <3>2, <3>3, <4>1, Zenon
    <3>6. conn'.c2s[n + 1].kind = "word"
      BY <2>1, <3>3 DEF Word
    <3>7. \A i \in DOMAIN conn'.c2s : conn'.c2s[i].kind = "word"
      BY <3>4, <3>5, <3>6, Zenon
    <3> QED
      BY <1>2, <2>1, <2>2, <3>1, <3>7
  <2>4. handler.answer = "none"
    BY <1>1, <1>2 DEF Words
  <2>5. WordsLeft' = WordsLeft
    BY <1>1 DEF WordsLeft, WordsSent
  <2> QED
    BY <1>1, <1>2, <2>3, <2>4, <2>5 DEF Words
<1>3. CASE UNCHANGED conn /\ client'.pc \in {"closing", "code"}
  BY <1>1, <1>3, WordsFrame
<1> QED
  BY <1>1, <1>2, <1>3, SendWordIs DEF ExitsWith, ClientGoes

LEMMA ClientWords ==
  ASSUME Typed, Party, Words,
         ReadCode \/ ReadHead \/ ReadBody \/ ReadAck \/ ReadStdin \/ CloseClient \/ Kill
  PROVE  Words'
<1>1. /\ ClientOnly /\ client.pc # "start" /\ client'.pc # "words" /\ conn'.c2s = conn.c2s
  BY ReadCodeIs, ReadHeadIs, ReadBodyIs, ReadAckIs, ReadStdinIs, ClientLeavesIs
     DEF GotCode, ClientReads, ClientHearsEnd, ExitsWith, ClientGoes
<1> QED
  BY <1>1, WordsFrame DEF ClientOnly

LEMMA PutPacketWords ==
  ASSUME Typed, Party, Words, PutPacket
  PROVE  Words'
<1>1. ClientOnly /\ client.pc \in {"put_head", "put_body"} /\ client'.pc \notin {"start", "words"}
  BY PutPacketIs DEF ClientGoes, ExitsWith
<1>2. CASE UNCHANGED conn
  BY <1>1, <1>2, WordsFrame DEF ClientOnly
<1>3. CASE conn.s_open
  <2>1. handler.pc \notin Early
    BY <1>1, <1>3 DEF Party, Connection, Quitting, Over, Early
  <2> QED
    BY <1>1, <2>1 DEF Words, ClientOnly
<1> QED
  BY <1>2, <1>3, PutPacketIs DEF ClientSends

LEMMA RecvWords ==
  ASSUME Typed, Party, Words, RecvArgc \/ RecvWord
  PROVE  Words'
<1>1. handler.pc \in {"argc", "words"} /\ handler.answer = "none"
  BY RecvArgcIs, RecvWordIs DEF Party, Connection, Early
<1>2. handler.words \in 0..2 /\ client.left \in 0..3 /\ WordsSent \in {1, 2}
  BY HandlerFields, ClientFields DEF Typed, WordsSent
<1>3. CASE /\ ServerReads("word") /\ ServerOnly /\ handler'.pc = "words"
           /\ handler'.words = WordsLeft - 1 /\ handler'.answer = handler.answer
  <2>1. /\ Len(conn'.c2s) = Len(conn.c2s) - 1 /\ conn.c2s \in Seq(Item)
        /\ conn'.c2s \in Seq(Item)
        /\ \A i \in 1..(Len(conn.c2s) - 1) : conn'.c2s[i] = conn.c2s[i + 1]
    BY <1>3, Take, Parts DEF ServerReads
  <2>2. /\ \A i \in DOMAIN conn.c2s : conn.c2s[i].kind = "word"
        /\ client.pc # "start" => Len(conn.c2s) <= WordsLeft
        /\ client.pc = "words" => Len(conn.c2s) + client.left = WordsLeft
    BY <1>1 DEF Words, Early
  <2>3. WordsLeft \in Int /\ WordsLeft' = WordsLeft - 1
    BY <1>1, <1>2, <1>3 DEF WordsLeft
  <2>4. \A i \in DOMAIN conn'.c2s : conn'.c2s[i].kind = "word"
    BY <2>1, <2>2
  <2>5. /\ client.pc # "start" => Len(conn'.c2s) <= WordsLeft'
        /\ client.pc = "words" => Len(conn'.c2s) + client.left = WordsLeft'
    <3>1. Len(conn.c2s) \in Nat /\ Len(conn'.c2s) = Len(conn.c2s) - 1
      BY <2>1
    <3>2. /\ client.pc # "start" => Len(conn.c2s) <= WordsLeft
          /\ client.pc = "words" => Len(conn.c2s) + client.left = WordsLeft
      BY <2>2, Zenon
    <3>3. PICK m, w, left : m = Len(conn.c2s) /\ w = WordsLeft /\ left = client.left
      OBVIOUS
    <3>4. m \in Nat /\ w \in Int /\ left \in Int
      BY <1>2, <2>3, <3>1, <3>3
    <3>5. m <= w => m - 1 <= w - 1
      BY <3>4
    <3>6. m + left = w => (m - 1) + left = w - 1
      BY <3>4
    <3> QED BY <2>3, <3>1, <3>2, <3>3, <3>5, <3>6, Zenon
  <2> QED
    BY <1>1, <1>3, <2>4, <2>5 DEF Words, ServerOnly
<1>4. CASE Goes("shut") /\ ServerOnly
  BY <1>4, WordsRead DEF Goes, Told, ServerOnly, Early
<1>5. CASE ServerEnds
  BY <1>5, ServerEndsIs, WordsFrame
<1>6. CASE /\ handler.words = 0 /\ handler.pc = "words" /\ UNCHANGED conn /\ ServerOnly
           /\ Goes("dispatch")
  BY <1>6 DEF Words, WordsLeft, Goes, Told, ServerOnly, Early
<1>7. CASE /\ handler.words > 0 /\ handler.pc = "words" /\ ServerHearsEnd /\ ServerOnly
           /\ handler'.pc = "words" /\ handler'.words = handler.words - 1
           /\ handler'.answer = handler.answer
  <2>1. conn'.c2s = <<>> /\ client'.pc # "words"
    BY <1>7 DEF ServerHearsEnd, ServerOnly, Party, Connection
  <2>2. Len(<<>>) = 0 /\ DOMAIN <<>> = {}
    OBVIOUS
  <2> QED
    BY <1>2, <1>7, <2>1, <2>2 DEF Words, WordsLeft, Early
<1> QED
  BY <1>1, <1>2, <1>3, <1>4, <1>5, <1>6, <1>7, RecvArgcIs, RecvWordIs DEF WordsLeft, Told

LEMMA SetupWords ==
  ASSUME Typed, Party, Words, AcceptClient \/ Dispatch \/ NetworkReturns \/ AnswerCode
  PROVE  Words'
<1> USE DEF ServerOnly, Goes, Told, Early
<1>1. CASE AcceptClient
  BY <1>1, AcceptClientIs DEF Words, WordsLeft, WordsSent
<1>2. CASE Dispatch
  <2>1. CASE ServerEnds
    <3>1. UNCHANGED <<req, client, handler>> /\ conn'.c2s = conn.c2s
      BY <2>1, ServerEndsIs
    <3> QED BY <3>1, WordsFrame
  <2>2. CASE /\ UNCHANGED <<server, conn>>
             /\ handler'.pc \in {"network", "code"} /\ handler'.answer = handler.answer
    <3>1. handler.pc = "dispatch" /\ client' = client
      BY <1>2, DispatchIs
    <3>2. WordsLeft = 0 /\ WordsLeft' = 0
      BY <2>2, <3>1 DEF WordsLeft
    <3> QED BY <2>2, <3>1, <3>2 DEF Words
  <2>3. CASE UNCHANGED <<server, conn>> /\ Goes("shut")
    BY <1>2, <2>3, DispatchIs, WordsRead
  <2>4. PICK cmd \in AllCmds :
          \/ UNCHANGED <<server, conn>> /\ Goes("shut")
          \/ ServerEnds
          \/ /\ UNCHANGED <<server, conn>>
             /\ handler'.pc \in {"network", "code"} /\ handler'.answer = handler.answer
    BY <1>2, DispatchIs
  <2> QED
    BY <2>1, <2>2, <2>3, <2>4
<1>3. CASE NetworkReturns
  BY <1>3, NetworkReturnsIs DEF Words, WordsLeft
<1>4. CASE AnswerCode
  <2>1. /\ handler.pc = "code" /\ client' = client /\ conn'.c2s = conn.c2s
        /\ handler'.pc \notin Early
    BY <1>4, AnswerCodeIs, AfterCodeTyped DEF SentCode, ServerSends, AfterCodes
  <2>2. client.pc = "words" => Len(conn.c2s) + client.left = 0
    BY <2>1 DEF Words, WordsLeft
  <2>3. Len(conn.c2s) \in Nat /\ client.left \in 0..3
    BY Parts, ClientFields DEF Typed
  <2>4. client'.pc = "words" => client'.left = 0
    BY <2>1, <2>2, <2>3
  <2> QED
    BY <2>1, <2>4 DEF Words
<1> QED
  BY <1>1, <1>2, <1>3, <1>4

\* The steps of a handler that has answered.
LateStep ==
  \/ SendPacket \/ SendItem \/ RecvSetup \/ Drain \/ RecvLoop \/ RecvChunk \/ RecvRest
  \/ RecvEnd \/ GetPacket \/ Forward \/ Ack \/ LastCode \/ CloseConnection

LEMMA LateGoes ==
  ASSUME Typed, LateStep
  PROVE  /\ UNCHANGED <<req, server, client>> /\ Told
         /\ handler.pc \notin Early /\ handler'.pc \notin Early
<1> USE DEF Goes, NetworkOnly, Begins, Returned, ServerOnly, Told, Early
<1>1. CASE SendPacket
  BY <1>1, SendPacketIs, PutHeld DEF PutReturns, PutLabels
<1>2. CASE SendItem \/ RecvSetup \/ RecvLoop \/ RecvEnd \/ Forward
  BY <1>2, SendItemIs, RecvSetupIs, RecvLoopIs, RecvEndIs, ForwardIs
<1>3. CASE Drain
  BY <1>3, DrainIs
<1>4. CASE RecvChunk
  BY <1>4, RecvChunkIs
<1>5. CASE RecvRest
  BY <1>5, RecvRestIs
<1>6. CASE GetPacket
  BY <1>6, GetPacketIs, SendHeld DEF SendLabels, GetReturns
<1>7. CASE Ack \/ LastCode \/ CloseConnection
  BY <1>7, AckIs, LastCodeIs, CloseConnectionIs
<1> QED
  BY <1>1, <1>2, <1>3, <1>4, <1>5, <1>6, <1>7, Zenon DEF LateStep

LEMMA WordsStep == Typed /\ Party /\ Words /\ [Next]_vars => Words'
<1> SUFFICES ASSUME Typed, Party, Words, [Next]_vars PROVE Words'
  OBVIOUS
<1>1. CASE UNCHANGED vars
  BY <1>1, WordsFrame DEF vars
<1>2. CASE ServerExits \/ Peer
  BY <1>2, ServerEndsIs, PeerIs, WordsFrame DEF ServerExits
<1>3. CASE LateStep
  BY <1>3, LateGoes, WordsRead DEF Told
<1> QED
  BY <1>1, <1>2, <1>3, Steps, ConnectWords, SendWordWords, ClientWords, PutPacketWords,
     RecvWords, SetupWords, Zenon DEF LateStep

-----------------------------------------------------------------------------
(* The stream to the server, once the handler reads packets.               *)

Reading == handler.pc \in {"get_head", "get_body", "forward", "ack"} /\ server = "up"

LEMMA ToServerIs == ToServer <=> (Reading => Chain(conn.c2s, HandlerWants, ClientWrites, FALSE))
BY DEF ToServer, Reading, SendLabels

\* Its next items are the ones it wanted.
LEMMA ToServerFrame ==
  ASSUME ToServer, conn'.c2s = conn.c2s, Reading' => Reading /\ HandlerWants' = HandlerWants,
         Reading => ClientWrites' \in {"any", ClientWrites}
  PROVE  ToServer'
BY ChainAny, ToServerIs DEF ToServer, Reading, SendLabels

LEMMA ToServerSent ==
  ASSUME Typed, ToServer, ClientOnly, NEW x \in Item, ClientSends(x),
         x.kind = ClientWrites, ClientWrites' \in {"any", KindAfter(x, FALSE)}
  PROVE  ToServer'
<1> SUFFICES ASSUME Reading' PROVE Chain(conn'.c2s, HandlerWants', ClientWrites', FALSE)
  BY DEF ToServer, Reading, SendLabels
<1>1. Reading /\ HandlerWants' = HandlerWants
  BY DEF Reading, HandlerWants, ClientOnly
<1>2. Chain(conn.c2s, HandlerWants, x.kind, FALSE)
  BY <1>1, ToServerIs
<1>3. Chain(Append(conn.c2s, x), HandlerWants, ClientWrites', FALSE)
  BY <1>2, ChainAppend, Parts
<1> QED
  BY <1>1, <1>3 DEF ClientSends

LEMMA ToServerTaken ==
  ASSUME Typed, ToServer, ServerOnly, NEW kind, ServerReads(kind), Reading,
         Reading' => HandlerWants' = KindAfter(conn.c2s[1], FALSE)
  PROVE  ToServer'
<1> SUFFICES ASSUME Reading' PROVE Chain(conn'.c2s, HandlerWants', ClientWrites', FALSE)
  BY DEF ToServer, Reading, SendLabels
<1>1. ClientWrites' = ClientWrites
  BY DEF ClientWrites, ServerOnly
<1>2. Chain(conn.c2s, HandlerWants, ClientWrites, FALSE)
  BY ToServerIs
<1>3. Chain(Tail(conn.c2s), KindAfter(conn.c2s[1], FALSE), ClientWrites, FALSE)
  BY ChainTail, <1>2, Parts DEF ServerReads
<1> QED
  BY <1>1, <1>3 DEF ServerReads

LEMMA BufferLength ==
  ASSUME Typed, client.pc \in {"put_head", "put_body"}
  PROVE  /\ NmsHead(Buffer) \in Item /\ NmsHead(Buffer).kind = "head"
         /\ Length(NmsHead(Buffer).len) = IF client.count = 0 THEN 0 ELSE 1
         /\ Body(Buffer) \in Item /\ Body(Buffer).kind = "body"
<1>1. Buffer \in Seq(Nat)
  BY BufferTyped
<1>2. Len(Buffer) = IF client.count = 0 THEN 0 ELSE 1
  BY DEF Buffer, Input
<1>3. Len(Buffer) \in Nat /\ Len(Buffer) <= 65535
  BY <1>2
<1>4. Length(NmsHead(Buffer).len) = Len(Buffer)
  BY <1>1, <1>3, LengthRoundTrip DEF NmsHead
<1> QED
  BY <1>1, <1>2, <1>4, HeadItem, BodyItem DEF NmsHead, Body

LEMMA PutPacketToServer ==
  ASSUME Typed, Party, ToServer, PutPacket
  PROVE  ToServer'
<1>1. client.pc \in {"put_head", "put_body"} /\ ClientOnly
  BY PutPacketIs
<1>2. CASE /\ client.pc = "put_head" /\ ClientSends(NmsHead(Buffer))
           /\ ClientGoes(IF client.count = 0 THEN "ack" ELSE "put_body")
  <2>1. ClientWrites = "head"
    BY <1>2 DEF ClientWrites
  <2>2. ClientWrites' = IF client.count = 0 THEN "head" ELSE "body"
    BY <1>2 DEF ClientGoes, ClientWrites
  <2>3. KindAfter(NmsHead(Buffer), FALSE) = IF client.count = 0 THEN "head" ELSE "body"
    BY <1>1, BufferLength DEF KindAfter
  <2> QED
    BY <1>1, <1>2, <2>1, <2>2, <2>3, BufferLength, ToServerSent
<1>3. CASE client.pc = "put_body" /\ ClientSends(Body(Buffer)) /\ ClientGoes("ack")
  <2>1. ClientWrites = "body" /\ ClientWrites' = "head"
    BY <1>3 DEF ClientGoes, ClientWrites
  <2>2. KindAfter(Body(Buffer), FALSE) = "head"
    BY <1>1, BufferLength DEF KindAfter
  <2> QED
    BY <1>1, <1>3, <2>1, <2>2, BufferLength, ToServerSent
<1>4. CASE UNCHANGED conn /\ ExitsWith("IPC_ERROR")
  BY <1>1, <1>4, ToServerFrame DEF ExitsWith, ClientWrites, ClientOnly, Reading, HandlerWants
<1>5. CASE ~conn.s_open
  <2>1. ~Reading' /\ ~Reading
    BY <1>1, <1>5 DEF Party, Connection, Over, Ending, Reading, ClientOnly
  <2> QED
    BY <2>1, ToServerIs DEF ToServer, Reading, SendLabels
<1> QED
  BY <1>2, <1>3, <1>4, <1>5, PutPacketIs

LEMMA SendWordToServer ==
  ASSUME Typed, Party, Words, ToServer, SendWord
  PROVE  ToServer'
<1>1. client.pc = "words" /\ ClientOnly /\ client'.pc \in {"words", "closing", "code"}
  BY SendWordIs DEF ExitsWith, ClientGoes
<1>2. CASE client.left > 0 /\ ClientSends(Word)
  <2>1. handler.answer = "none"
    BY <1>1, <1>2 DEF Words
  <2>2. ~Reading'
    BY <1>1, <2>1 DEF Party, Connection, Reading, Early, Ending, ClientOnly
  <2> QED
    BY <2>2 DEF ToServer, Reading, SendLabels
<1>3. CASE UNCHANGED conn
  BY <1>1, <1>3, ToServerFrame DEF ClientOnly, Reading, HandlerWants, ClientWrites
<1> QED
  BY <1>2, <1>3, SendWordIs

LEMMA ClientToServer ==
  ASSUME Typed, Party, ToServer,
         ReadCode \/ ReadHead \/ ReadBody \/ ReadAck \/ ReadStdin \/ CloseClient \/ Kill
  PROVE  ToServer'
<1>1. /\ ClientOnly /\ conn'.c2s = conn.c2s
      /\ \/ client.pc \in {"code", "ack"}
            /\ client'.pc \in {"stdin", "head", "closing"}
         \/ client.pc = "stdin" /\ client'.pc = "put_head"
         \/ client.pc \in {"head", "body"} /\ client'.pc \in {"head", "body", "closing"}
         \/ client'.pc = "exited"
  BY ReadCodeIs, ReadHeadIs, ReadBodyIs, ReadAckIs, ReadStdinIs, ClientLeavesIs
     DEF GotCode, ClientReads, ClientHearsEnd, ExitsWith, ClientGoes
<1>2. ClientWrites' \in {"any", ClientWrites}
  BY <1>1 DEF ClientWrites
<1> QED
  BY <1>1, <1>2, ToServerFrame DEF ClientOnly, Reading, HandlerWants

LEMMA AnswerCodeToServer ==
  ASSUME Typed, Party, Words, AnswerCode
  PROVE  ToServer'
<1>1. /\ handler.pc = "code" /\ server = "up" /\ UNCHANGED client
      /\ conn'.c2s = conn.c2s /\ handler'.pc # "get_body"
  BY AnswerCodeIs, AfterCodeTyped DEF SentCode, ServerSends, ServerOnly, AfterCodes
<1>2. /\ client.pc # "start" /\ handler.answer = "none" /\ ~Over
  BY <1>1 DEF Party, Connection, Unused, Early, Over
<1>3. client.pc \in {"words", "code"} \/ Quitting
  BY <1>2 DEF Party, Connection
<1>4. conn.c2s = <<>>
  <2>1. Len(conn.c2s) <= 0
    BY <1>1, <1>2 DEF Words, WordsLeft, Early
  <2>2. Len(conn.c2s) \in Nat /\ conn.c2s \in Seq(Item)
    BY Parts
  <2> QED
    BY <2>1, <2>2
<1>5. ClientWrites' \in {"any", "head"}
  BY <1>1, <1>3 DEF ClientWrites, Quitting
<1>6. HandlerWants' = "head"
  BY <1>1 DEF HandlerWants
<1>7. Chain(<<>>, HandlerWants', ClientWrites', FALSE)
  BY <1>5, <1>6, ChainEmpty
<1> QED
  BY <1>1, <1>4, <1>7 DEF ToServer

LEMMA GetPacketToServer ==
  ASSUME Typed, ToServer, GetPacket
  PROVE  ToServer'
<1>1. ServerOnly /\ server = "up" /\ handler.pc \in {"get_head", "get_body"}
  BY GetPacketIs
<1>2. Reading /\ handler.ret \in {"shut", "last_code"}
  BY <1>1, SendHeld DEF Reading, SendLabels, GetReturns
<1>3. CASE /\ ServerReads("head")
           /\ IF Length(conn.c2s[1].len) > 0 THEN handler'.pc = "get_body"
                                             ELSE handler'.pc \in {"forward", "last_code"}
  <2>1. Reading' => HandlerWants' = KindAfter(conn.c2s[1], FALSE)
    BY <1>3 DEF Reading, HandlerWants, KindAfter, ServerReads
  <2> QED
    BY <1>1, <1>2, <1>3, <2>1, ToServerTaken
<1>4. CASE ServerReads("body") /\ handler'.pc = "forward"
  <2>1. HandlerWants' = KindAfter(conn.c2s[1], FALSE)
    BY <1>4 DEF HandlerWants, KindAfter, ServerReads
  <2> QED
    BY <1>1, <1>2, <1>4, <2>1, ToServerTaken
<1>5. CASE handler'.pc \in {"shut", "last_code"}
  BY <1>5 DEF ToServer, SendLabels
<1> QED
  BY <1>2, <1>3, <1>4, <1>5, GetPacketIs DEF Goes

\* The other steps of the server.
AsideStep ==
  \/ AcceptClient \/ RecvArgc \/ RecvWord \/ Dispatch \/ NetworkReturns
  \/ SendPacket \/ SendItem \/ RecvSetup \/ Drain \/ RecvLoop \/ RecvChunk \/ RecvRest
  \/ RecvEnd \/ LastCode \/ CloseConnection

LEMMA AsideGoes ==
  ASSUME Typed, AsideStep
  PROVE  ~Reading'
<1> USE DEF Goes, NetworkOnly, Begins, Returned, ServerOnly, Reading
<1>1. CASE SendPacket
  BY <1>1, SendPacketIs, PutHeld DEF PutReturns
<1>2. CASE AcceptClient \/ RecvArgc \/ NetworkReturns
  BY <1>2, AcceptClientIs, RecvArgcIs, ServerEndsIs, NetworkReturnsIs
<1>3. CASE RecvWord
  BY <1>3, RecvWordIs
<1>4. CASE Dispatch
  BY <1>4, DispatchIs, ServerEndsIs
<1>5. CASE SendItem \/ RecvSetup \/ RecvLoop \/ RecvEnd
  BY <1>5, SendItemIs, RecvSetupIs, RecvLoopIs, RecvEndIs
<1>6. CASE Drain
  BY <1>6, DrainIs
<1>7. CASE RecvChunk
  BY <1>7, RecvChunkIs
<1>8. CASE RecvRest
  BY <1>8, RecvRestIs
<1>9. CASE LastCode \/ CloseConnection
  BY <1>9, LastCodeIs, CloseConnectionIs
<1> QED
  BY <1>1, <1>2, <1>3, <1>4, <1>5, <1>6, <1>7, <1>8, <1>9, Zenon DEF AsideStep

LEMMA ToServerStep == Typed /\ Party /\ Words /\ ToServer /\ [Next]_vars => ToServer'
<1> SUFFICES ASSUME Typed, Party, Words, ToServer, [Next]_vars PROVE ToServer'
  OBVIOUS
<1>1. CASE UNCHANGED vars
  BY <1>1, ToServerFrame DEF vars, Reading, HandlerWants, ClientWrites
<1>2. CASE Peer
  BY <1>2, PeerIs, ToServerFrame DEF Reading, HandlerWants, ClientWrites
<1>3. CASE ServerExits \/ Connect
  <2>1. ~Reading'
    BY <1>3, ServerEndsIs, ConnectIs DEF ServerExits, Reading, Party, Connection, Unused
  <2> QED
    BY <2>1 DEF ToServer, Reading, SendLabels
<1>4. CASE AsideStep
  BY <1>4, AsideGoes DEF ToServer, Reading, SendLabels
<1>5. CASE Forward
  BY <1>5, ForwardIs, ToServerFrame DEF NetworkOnly, Reading, HandlerWants, ClientWrites
<1>6. CASE Ack
  <2>1. /\ ServerOnly /\ conn'.c2s = conn.c2s /\ handler.pc = "ack" /\ server = "up"
        /\ handler'.pc \in {"last_code", "shut", "get_head"}
    BY <1>6, AckIs DEF SentCode, ServerSends
  <2> QED
    BY <2>1, ToServerFrame DEF ServerOnly, Reading, HandlerWants, ClientWrites
<1> QED
  BY <1>1, <1>2, <1>3, <1>4, <1>5, <1>6, Steps, SendWordToServer, ClientToServer,
     PutPacketToServer, AnswerCodeToServer, GetPacketToServer, Zenon DEF AsideStep

-----------------------------------------------------------------------------
(* Client and server are in step.                                          *)

LEMMA InitFraming == Init => Framing
<1> SUFFICES ASSUME Init PROVE Framing
  OBVIOUS
<1>1. ~Live /\ client.pc = "start" /\ handler.pc = "accept" /\ conn.c2s = <<>>
  BY DEF Init, Live
<1>2. DOMAIN <<>> = {}
  OBVIOUS
<1> QED
  BY <1>1, <1>2 DEF Framing, ToClient, Lengths, Words, ToServer, SendLabels

LEMMA FramingStep == Typed /\ Party /\ Framing /\ [Next]_vars => Framing'
BY ToClientStep, LengthsStep, WordsStep, ToServerStep DEF Framing

LEMMA FramingInSteps == Typed /\ Framing => InSteps
<1> SUFFICES ASSUME Typed, Framing PROVE InSteps
  OBVIOUS
<1>1. ASSUME conn.s2c # <<>>, client.pc \in {"code", "ack", "head", "body"}
      PROVE  /\ conn.s2c[1].kind = ClientWants
             /\ client.pc = "body" => Len(conn.s2c[1].data) = client.count
  BY <1>1 DEF Framing, ToClient, Lengths, Live, Chain
<1>2. ASSUME conn.c2s # <<>>, handler.pc \in {"argc", "words"}
      PROVE  conn.c2s[1].kind = "word"
  <2>1. 1 \in DOMAIN conn.c2s
    BY <1>2, Take, Parts
  <2> QED
    BY <1>2, <2>1 DEF Framing, Words, Early
<1>3. ASSUME conn.c2s # <<>>, server = "up", handler.pc \in {"get_head", "get_body"}
      PROVE  conn.c2s[1].kind = HandlerWants
  BY <1>3, ToServerIs DEF Framing, Reading, Chain
<1> QED
  BY <1>1, <1>2, <1>3 DEF InSteps, ClientWants, HandlerWants

LEMMA InStepsInvariant == Spec => [](Typed /\ Party /\ Framing)
<1>1. Init => Typed /\ Party /\ Framing
  BY InitTyped, InitParty, InitFraming
<1>2. Typed /\ Party /\ Framing /\ [Next]_vars => (Typed /\ Party /\ Framing)'
  BY TypedStep, PartyStep, FramingStep
<1> QED
  BY <1>1, <1>2, PTL DEF Spec

\* Whatever the command, wherever the other end stopped and whatever arrived,
\* client and server read off both streams what the other one wrote there: a
\* code is never taken for the head of a packet and a body has the length its
\* head announced (nms_recv, recv_code, message_recv).
THEOREM DialogueInSteps == Spec => []InSteps
BY InStepsInvariant, FramingInSteps, PTL

-----------------------------------------------------------------------------
(* The exit code of a command that is answered by its code alone.          *)

\* The steps of the client, and those of the server.
ClientStep ==
  \/ SendWord \/ ReadCode \/ ReadHead \/ ReadBody \/ ReadStdin \/ PutPacket \/ ReadAck
  \/ CloseClient \/ Kill

LEMMA ThreeSteps ==
  ASSUME [Next]_vars
  PROVE  \/ Connect \/ ClientStep
         \/ AnswerCode \/ SendPacket \/ Ack \/ LastCode \/ SilentStep \/ UNCHANGED vars
BY Steps DEF ClientStep, SilentStep

LEMMA ClientStepOnly ==
  ASSUME Typed, ClientStep
  PROVE  ClientOnly
BY SendWordIs, ReadCodeIs, ReadHeadIs, ReadBodyIs, ReadStdinIs, PutPacketIs, ReadAckIs,
   ClientLeavesIs DEF ClientStep

\* What is over stays over, and a silent step answers nothing.
LEMMA SilentKeeps ==
  ASSUME Typed, SilentStep
  PROVE  handler'.answer = handler.answer /\ (Over => Over')
<1> USE DEF Over, Goes, NetworkOnly, Begins, Returned, ServerOnly, Told
<1>1. CASE AcceptClient \/ RecvArgc \/ NetworkReturns \/ SendItem
  BY <1>1, AcceptClientIs, RecvArgcIs, ServerEndsIs, NetworkReturnsIs, SendItemIs
<1>2. CASE RecvWord
  BY <1>2, RecvWordIs
<1>3. CASE Dispatch
  BY <1>3, DispatchIs, ServerEndsIs
<1>4. CASE RecvSetup \/ Drain \/ RecvLoop \/ RecvChunk
  BY <1>4, RecvSetupIs, DrainIs, RecvLoopIs, RecvChunkIs
<1>5. CASE RecvRest \/ RecvEnd \/ Forward
  BY <1>5, RecvRestIs, RecvEndIs, ForwardIs
<1>6. CASE GetPacket
  BY <1>6, GetPacketIs
<1>7. CASE CloseConnection \/ ServerExits \/ Peer
  BY <1>7, CloseConnectionIs, ServerEndsIs, PeerIs DEF ServerExits
<1> QED
  BY <1>1, <1>2, <1>3, <1>4, <1>5, <1>6, <1>7, Zenon DEF SilentStep

LEMMA WritesNotOver ==
  ASSUME Typed, SendPacket \/ Ack \/ LastCode
  PROVE  ~Over /\ Told /\ UNCHANGED <<req, client, server>>
BY SendPacketIs, AckIs, LastCodeIs DEF Over, Goes, PutLabels, ServerOnly

\* The end of the stream before the answer: the server will not send one.
LEMMA HeardEnd ==
  ASSUME Party, Live, ClientHearsEnd
  PROVE  Over
BY DEF Party, Connection, Live, ClientHearsEnd

LEMMA CodeClient ==
  ASSUME Typed, Party, Words, CodeArrives, ClientStep
  PROVE  CodeArrives'
<1>1. ClientOnly
  BY ClientStepOnly
<1> SUFFICES ASSUME ClientHandle(req.cmd) = "code"
             PROVE  /\ Live' /\ handler.answer # "none" => conn'.s2c = <<Code(handler.answer)>>
                    /\ Quitting' /\ client'.code # "KILLED" =>
                         IF handler.answer = "none" THEN Over ELSE client'.code = handler.answer
  BY <1>1 DEF CodeArrives, ClientOnly, Over
<1> USE DEF CodeArrives
<1>2. CASE SendWord
  <2>1. client.pc = "words" /\ Live
    BY <1>2, SendWordIs DEF Live
  <2>2. CASE conn'.s2c = conn.s2c /\ client'.pc \in {"words", "code"}
    BY <2>1, <2>2 DEF Quitting
  <2>3. CASE client.left > 0 /\ ~conn.s_open /\ client'.pc = "closing"
    <3>1. handler.answer = "none"
      BY <2>1, <2>3 DEF Words
    <3>2. Over
      BY <2>1, <2>3, Parts DEF Party, Connection, Over
    <3> QED
      BY <2>3, <3>1, <3>2 DEF Live
  <2> QED
    BY <1>2, <2>2, <2>3, SendWordIs DEF ClientSends, ExitsWith, ClientGoes
<1>3. CASE ReadCode
  <2>1. PICK c \in Ends : GotCode(c) /\ ExitsWith(c)
    BY <1>3, ReadCodeIs
  <2>2. Live
    BY <1>3, ReadCodeIs DEF Live
  <2>3. CASE ClientHearsEnd
    <3>1. handler.answer = "none"
      BY <2>2, <2>3 DEF ClientHearsEnd
    <3> QED
      BY <2>1, <2>2, <2>3, <3>1, HeardEnd DEF ExitsWith, Live
  <2>4. CASE ClientReads("code") /\ c = conn.s2c[1].code
    <3>1. handler.answer # "none"
      BY <2>4 DEF ClientReads, Party, Connection
    <3>2. conn.s2c[1].code = handler.answer
      BY <2>2, <3>1 DEF Code
    <3> QED
      BY <2>1, <2>4, <3>1, <3>2 DEF ExitsWith, Live
  <2> QED
    BY <2>1, <2>3, <2>4 DEF GotCode
<1>4. CASE CloseClient \/ Kill
  BY <1>4, ClientLeavesIs DEF Live, Quitting
<1>5. CASE ReadHead \/ ReadBody \/ ReadStdin \/ PutPacket \/ ReadAck
  <2>1. client.pc \in {"head", "body", "stdin", "put_head", "put_body", "ack"}
    BY <1>5, ReadHeadIs, ReadBodyIs, ReadStdinIs, PutPacketIs, ReadAckIs
  <2> QED
    BY <2>1 DEF Party, Heard
<1> QED
  BY <1>2, <1>3, <1>4, <1>5 DEF ClientStep

LEMMA CodeServer ==
  ASSUME Typed, Party, CodeArrives, AnswerCode \/ SendPacket \/ Ack \/ LastCode \/ SilentStep
  PROVE  CodeArrives'
<1> USE DEF CodeArrives
<1>1. CASE SilentStep
  BY <1>1, SilentWrites, SilentKeeps DEF Live, Quitting
<1>2. CASE SendPacket \/ Ack \/ LastCode
  <2>1. ~Over /\ Told /\ UNCHANGED <<req, client, server>>
    BY <1>2, WritesNotOver
  <2>2. ~Over => handler.answer # "none"
    BY <1>2, SendPacketIs, AckIs, LastCodeIs DEF PutLabels, Party, Connection, Early, Ending
  <2>3. CASE ClientHandle(req.cmd) = "code" /\ Live
    <3>1. handler.cmd = req.cmd
      BY <2>1, <2>2, <2>3 DEF Party, Connection, Heard, Live, Over
    <3>2. handler.cmd \in {"accept", "info", "nms_recv", "list", "poll", "recv", "send", "nms_send"}
      BY <1>2, SendPacketIs, AckIs, LastCodeIs DEF PutLabels, SendLabels, Party, Heard
    <3> QED
      BY <2>3, <3>1, <3>2 DEF ClientHandle, CodeCmds
  <2>4. CASE ~Live
    BY <2>1, <2>2, <2>4 DEF Live, Quitting, Told
  <2>5. CASE ClientHandle(req.cmd) # "code"
    BY <2>1, <2>5
  <2> QED
    BY <2>3, <2>4, <2>5
<1>3. CASE AnswerCode
  <2>1. PICK c \in Codes : SentCode(c) /\ handler'.answer = c
    BY <1>3, AnswerCodeIs
  <2>2. /\ handler.pc = "code" /\ UNCHANGED <<req, server, client>> /\ ~Over
        /\ handler.answer = "none" /\ conn.s2c = <<>>
    BY <1>3, AnswerCodeIs DEF ServerOnly, Over, Party, Connection, Early
  <2>3. Live => conn'.s2c = <<Code(c)>>
    BY <2>1, <2>2, GoneNotLive DEF SentCode, ServerSends
  <2> QED
    BY <2>1, <2>2, <2>3 DEF Live, Quitting
<1> QED
  BY <1>1, <1>2, <1>3

LEMMA CodeStep == Typed /\ Party /\ Framing /\ CodeArrives /\ [Next]_vars => CodeArrives'
<1> SUFFICES ASSUME Typed, Party, Framing, CodeArrives, [Next]_vars PROVE CodeArrives'
  OBVIOUS
<1>1. CASE UNCHANGED vars
  BY <1>1 DEF vars, CodeArrives, Live, Quitting, Over
<1>2. CASE Connect
  BY <1>2, ConnectIs DEF CodeArrives, Party, Connection, Unused, Early, Quitting
<1> QED
  BY <1>1, <1>2, ThreeSteps, CodeClient, CodeServer, Zenon DEF Framing

\* new, free, bind, listen and connect exit with the code their handler sent,
\* even if the server ends before the client reads it (client_handle_code).
THEOREM ExitCode == Spec => []ExitCodeIsAnswer
<1>1. Init => CodeArrives
  BY DEF Init, CodeArrives, Live, Quitting
<1>2. CodeArrives => ExitCodeIsAnswer
  BY DEF CodeArrives, ExitCodeIsAnswer, Ended, Quitting, Ends
<1> QED
  BY <1>1, <1>2, InStepsInvariant, CodeStep, PTL DEF Spec

-----------------------------------------------------------------------------
(* Runs of bytes, and streams of an item or two.                           *)

LEMMA RunAppend ==
  ASSUME NEW m \in Nat, NEW n \in Nat, NEW k \in Nat
  PROVE  Run(m, n) \o Run(m + n, k) = Run(m, n + k)
<1> DEFINE s == Run(m, n)
           t == Run(m + n, k)
           u == Run(m, n + k)
<1>1. /\ s \in Seq(Nat) /\ Len(s) = n /\ (\A i \in 1..n : s[i] = m + i)
      /\ t \in Seq(Nat) /\ Len(t) = k /\ (\A i \in 1..k : t[i] = m + n + i)
      /\ u \in Seq(Nat) /\ Len(u) = n + k /\ (\A i \in 1..(n + k) : u[i] = m + i)
  <2>1. m + n \in Nat /\ n + k \in Nat
    OBVIOUS
  <2> QED
    BY <2>1, RunOf
<1> HIDE DEF s, t, u
<1>2. /\ s \o t \in Seq(Nat) /\ Len(s \o t) = n + k
      /\ \A i \in 1..(n + k) : (s \o t)[i] = IF i <= n THEN s[i] ELSE t[i - n]
  BY <1>1, ConcatProperties
<1>3. ASSUME NEW i \in 1..(n + k) PROVE (s \o t)[i] = u[i]
  <2>1. CASE i <= n
    <3>1. i \in 1..n
      BY <2>1
    <3> QED
      BY <1>1, <1>2, <2>1, <3>1
  <2>2. CASE ~(i <= n)
    <3>1. i - n \in 1..k /\ m + n + (i - n) = m + i
      BY <2>2
    <3> QED
      BY <1>1, <1>2, <2>2, <3>1
  <2> QED
    BY <2>1, <2>2
<1>4. s \o t = u
  BY <1>1, <1>2, <1>3, SeqEqual
<1> QED
  BY <1>4 DEF s, t, u

LEMMA RunOne ==
  ASSUME NEW m \in Nat
  PROVE  Run(m, 1) = <<m + 1>> /\ Run(m, 0) = <<>>
<1>1. /\ Run(m, 1) \in Seq(Nat) /\ Len(Run(m, 1)) = 1 /\ Run(m, 1)[1] = m + 1
      /\ Run(m, 0) \in Seq(Nat) /\ Len(Run(m, 0)) = 0
  <2>1. 0 \in Nat /\ 1 \in Nat /\ 1 \in 1..1
    OBVIOUS
  <2> QED
    BY <2>1, RunOf
<1> QED
  BY <1>1

LEMMA Short ==
  ASSUME NEW x \in Item, NEW y \in Item
  PROVE  /\ Append(<<>>, x) = <<x>> /\ Append(<<x>>, y) = <<x, y>>
         /\ Tail(<<x>>) = <<>> /\ Tail(<<x, y>>) = <<y>>
         /\ <<x>>[1] = x /\ <<x, y>>[1] = x /\ Len(<<x>>) = 1
         /\ <<x>> # <<>> /\ <<x, y>> # <<>>
<1>1. /\ <<>> \in Seq(Item) /\ <<x>> \in Seq(Item) /\ <<y>> \in Seq(Item)
      /\ <<x, y>> \in Seq(Item)
  OBVIOUS
<1>2. Append(<<>>, x) = <<x>>
  BY <1>1, SeqEqual
<1>3. Append(<<x>>, y) = <<x, y>>
  <2> DEFINE s == <<x>>
             r == Append(s, y)
             t == <<x, y>>
  <2>1. s \in Seq(Item) /\ Len(s) = 1 /\ s[1] = x
    BY <1>1
  <2>2. t \in Seq(Item) /\ Len(t) = 2 /\ t[1] = x /\ t[2] = y
    BY <1>1
  <2> HIDE DEF s, t
  <2>3. r \in Seq(Item) /\ Len(r) = 2 /\ r[1] = x /\ r[2] = y
    <3>1. /\ r \in Seq(Item) /\ Len(r) = Len(s) + 1 /\ r[Len(s) + 1] = y
          /\ \A i \in 1..Len(s) : r[i] = s[i]
      <4> HIDE DEF r
      <4> QED BY <2>1, Put DEF r
    <3> HIDE DEF r
    <3>2. 1 \in 1..Len(s) /\ Len(s) + 1 = 2
      BY <2>1
    <3> QED
      BY <2>1, <3>1, <3>2
  <2> HIDE DEF r
  <2>4. \A i \in 1..2 : r[i] = t[i]
    BY <2>2, <2>3
  <2>5. r = t
    BY <2>2, <2>3, <2>4, SeqEqual
  <2> QED
    BY <2>5 DEF r, s, t
<1>4. Tail(<<x>>) = <<>>
  BY <1>1, SeqEqual
<1>5. Tail(<<x, y>>) = <<y>>
  BY <1>1, SeqEqual
<1> QED
  BY <1>2, <1>3, <1>4, <1>5

-----------------------------------------------------------------------------
(* send and nms_send: the client.                                          *)

USE DEF AtPeer

Sending == req.cmd \in {"send", "nms_send"}

LEMMA SendingSends ==
  ASSUME Sending
  PROVE  Sends /\ ClientHandle(req.cmd) = "send"
BY DEF Sending, Sends, ClientHandle, CodeCmds

LEMMA ReadCodeSent ==
  ASSUME Typed, Party, Sent, ReadCode
  PROVE  Sent'
<1>1. client.pc = "code" /\ ClientOnly
  BY ReadCodeIs
<1> SUFFICES ASSUME Sending
             PROVE  AtCode' /\ AtStdin' /\ AtHead' /\ AtBody' /\ AtAck' /\ AtEnd'
  BY <1>1 DEF Sent, Sending, ClientOnly
<1>2. ClientHandle(req.cmd) = "send" /\ AtCode
  BY SendingSends DEF Sent, Sending
<1>3. CASE client'.pc = "closing" /\ client'.code # "SUCCESS"
  BY <1>3 DEF AtCode, AtStdin, AtHead, AtBody, AtAck, AtEnd, Succeeded, Quitting
<1>4. CASE GotCode("SUCCESS") /\ ClientGoes("stdin")
  <2>1. client'.pc = "stdin" /\ client'.unread = client.unread
    BY <1>4 DEF ClientGoes, ClientKeeps
  <2>2. ASSUME handler.answer # "none"
        PROVE  handler.pc = "get_head" /\ Quiet' /\ AtPeer(Taken')
    <3>1. conn.s2c = <<Code(handler.answer)>> /\ sock.out = <<>> /\ client.unread = req.input
      BY <1>1, <1>2, <2>2 DEF AtCode
    <3>2. Code(handler.answer) \in Item
      BY <2>2, CodeItem, HandlerFields
    <3>3. conn.s2c # <<>> /\ conn.s2c[1] = Code(handler.answer) /\ Tail(conn.s2c) = <<>>
      BY <3>1, <3>2, Short
    <3>4. ClientReads("code") /\ handler.answer = "SUCCESS"
      BY <1>4, <3>3 DEF GotCode, ClientHearsEnd, Code
    <3>5. handler.pc = "get_head" /\ conn.c2s = <<>>
      BY <1>1, <1>2, <2>2, <3>4 DEF AtCode
    <3>6. Taken' = 0
      BY <1>1, <2>1, <3>1, UnreadTyped DEF Taken, ClientOnly
    <3>7. Sofar(0) = <<>>
      BY RunOne, Constants DEF Sofar
    <3> QED
      BY <3>1, <3>3, <3>4, <3>5, <3>6, <3>7 DEF ClientReads, Quiet
  <2>3. AtStdin'
    BY <1>1, <2>1, <2>2 DEF AtStdin, ClientOnly
  <2> QED
    BY <2>1, <2>3 DEF AtCode, AtHead, AtBody, AtAck, AtEnd, Succeeded, Quitting
<1> QED
  BY <1>2, <1>3, <1>4, ReadCodeIs DEF ExitsWith

LEMMA SameBuffer ==
  ASSUME req' = req, ClientKeeps
  PROVE  Buffer' = Buffer /\ Taken' = Taken /\ (PutsOne' <=> PutsOne)
BY DEF ClientKeeps, Buffer, Taken, PutsOne

LEMMA SendWordSent ==
  ASSUME Typed, Party, Words, Sent, SendWord
  PROVE  Sent'
<1>1. client.pc = "words" /\ ClientOnly
  BY SendWordIs
<1> SUFFICES ASSUME Sending
             PROVE  AtCode' /\ AtStdin' /\ AtHead' /\ AtBody' /\ AtAck' /\ AtEnd'
  BY <1>1 DEF Sent, Sending, ClientOnly
<1>2. ClientHandle(req.cmd) = "send" /\ AtCode
  BY SendingSends DEF Sent, Sending
<1>3. CASE client'.pc = "closing" /\ client'.code # "SUCCESS"
  BY <1>3 DEF AtCode, AtStdin, AtHead, AtBody, AtAck, AtEnd, Succeeded, Quitting
<1>4. CASE client.left > 0 /\ ClientSends(Word) /\ client'.pc = "words" /\ ClientKeeps
  <2>1. handler.answer = "none"
    BY <1>1, <1>4 DEF Words
  <2>2. AtCode'
    BY <1>1, <1>2, <1>4, <2>1 DEF AtCode, ClientOnly, ClientKeeps
  <2> QED
    BY <1>4, <2>2 DEF AtStdin, AtHead, AtBody, AtAck, AtEnd, Succeeded, Quitting
<1>5. CASE UNCHANGED conn /\ ClientGoes("code")
  <2>1. AtCode'
    BY <1>1, <1>2, <1>5 DEF AtCode, ClientOnly, ClientGoes, ClientKeeps
  <2> QED
    BY <1>5, <2>1 DEF AtStdin, AtHead, AtBody, AtAck, AtEnd, Succeeded, Quitting, ClientGoes
<1> QED
  BY <1>2, <1>3, <1>4, <1>5, SendWordIs DEF ExitsWith

LEMMA ReadStdinSent ==
  ASSUME Typed, Party, Sent, ReadStdin
  PROVE  Sent'
<1>1. /\ client.pc = "stdin" /\ ClientOnly /\ UNCHANGED conn /\ client'.pc = "put_head"
      /\ client'.unread = (IF client.unread = 0 THEN 0 ELSE client.unread - 1)
      /\ client'.count = (IF client.unread = 0 THEN 0 ELSE 1)
  BY ReadStdinIs
<1> SUFFICES ASSUME Sending PROVE AtHead'
  BY <1>1 DEF Sent, Sending, ClientOnly, AtCode, AtStdin, AtBody, AtAck, AtEnd, Succeeded, Quitting
<1>2. /\ req.input \in Nat /\ client.unread \in Nat /\ client.unread <= req.input
      /\ req'.input = req.input
  BY <1>1, UnreadTyped DEF ClientOnly
<1>3. Taken' - client'.count = Taken /\ client'.count <= Taken'
  BY <1>1, <1>2 DEF Taken
<1>4. PutsOne'
  BY <1>1, <1>3 DEF PutsOne
<1>5. handler.answer # "none" =>
        server = "down" \/ (handler.pc = "get_head" /\ Quiet /\ AtPeer(Taken))
  BY <1>1 DEF Sent, Sending, AtStdin
<1>6. Quiet' = Quiet
  BY <1>1 DEF Quiet
<1> QED
  BY <1>1, <1>3, <1>4, <1>5, <1>6 DEF AtHead, ClientOnly

LEMMA PutPacketSent ==
  ASSUME Typed, Party, Sent, PutPacket
  PROVE  Sent'
<1>1. client.pc \in {"put_head", "put_body"} /\ ClientOnly
  BY PutPacketIs
<1> SUFFICES ASSUME Sending
             PROVE  AtCode' /\ AtStdin' /\ AtHead' /\ AtBody' /\ AtAck' /\ AtEnd'
  BY <1>1 DEF Sent, Sending, ClientOnly
<1>2. AtHead /\ AtBody
  BY DEF Sent, Sending
<1>3. CASE ExitsWith("IPC_ERROR")
  BY <1>3 DEF AtCode, AtStdin, AtHead, AtBody, AtAck, AtEnd, Succeeded, Quitting, ExitsWith
<1>4. NmsHead(Buffer) \in Item /\ Body(Buffer) \in Item
  BY <1>1, BufferLength
<1>5. CASE /\ client.pc = "put_head" /\ ClientSends(NmsHead(Buffer))
           /\ ClientGoes(IF client.count = 0 THEN "ack" ELSE "put_body")
  <2>1. Buffer' = Buffer /\ Taken' = Taken /\ PutsOne'
    BY <1>1, <1>2, <1>5, SameBuffer DEF ClientGoes, ClientOnly, AtHead
  <2>2. server = "up"
    BY <1>5, Parts DEF ClientSends, Party, Connection
  <2>3. handler.answer # "none" =>
          /\ handler.pc = "get_head" /\ conn.s2c = <<>> /\ conn.c2s = <<>>
          /\ AtPeer(Taken - client.count)
    BY <1>2, <1>5, <2>2 DEF AtHead, Quiet
  <2>4. handler.answer # "none" => conn'.c2s = <<NmsHead(Buffer')>> /\ conn'.s2c = <<>>
    BY <1>4, <1>5, <2>1, <2>3, Short DEF ClientSends
  <2>5. client.count \in {0, 1}
    BY <1>2, <1>5 DEF AtHead, PutsOne
  <2>6. CASE client.count = 0
    <3>1. client'.pc = "ack" /\ client'.count = 0
      BY <1>5, <2>6 DEF ClientGoes, ClientKeeps
    <3>2. handler.answer # "none" => Underway'
      BY <1>1, <2>1, <2>3, <2>4, <2>6, <3>1 DEF Underway, ClientOnly
    <3> QED
      BY <1>1, <2>1, <3>1, <3>2
         DEF AtCode, AtStdin, AtHead, AtBody, AtAck, AtEnd, Succeeded, Quitting, ClientOnly
  <2>7. CASE client.count = 1
    <3>1. client'.pc = "put_body" /\ client'.count = 1
      BY <1>5, <2>7 DEF ClientGoes, ClientKeeps
    <3> QED
      BY <1>1, <2>1, <2>3, <2>4, <2>7, <3>1
         DEF AtCode, AtStdin, AtHead, AtBody, AtAck, AtEnd, Succeeded, Quitting, ClientOnly
  <2> QED
    BY <2>5, <2>6, <2>7
<1>6. CASE client.pc = "put_body" /\ ClientSends(Body(Buffer)) /\ ClientGoes("ack")
  <2>1. Buffer' = Buffer /\ Taken' = Taken /\ PutsOne' /\ client'.count = 1
    BY <1>1, <1>2, <1>6, SameBuffer DEF ClientGoes, ClientKeeps, ClientOnly, AtBody
  <2>2. server = "up"
    BY <1>6, Parts DEF ClientSends, Party, Connection
  <2>3. handler.answer # "none" =>
          /\ conn.s2c = <<>> /\ AtPeer(Taken - 1)
          /\ \/ handler.pc = "get_head" /\ conn.c2s = <<NmsHead(Buffer)>>
             \/ handler.pc = "get_body" /\ conn.c2s = <<>>
    BY <1>2, <1>6, <2>2 DEF AtBody
  <2>4. handler.answer # "none" =>
          /\ conn'.s2c = <<>>
          /\ \/ handler.pc = "get_head" /\ conn'.c2s = <<NmsHead(Buffer), Body(Buffer)>>
             \/ handler.pc = "get_body" /\ conn'.c2s = <<Body(Buffer)>>
    <3> DEFINE h == NmsHead(Buffer)
               b == Body(Buffer)
    <3>1. h \in Item /\ b \in Item
      BY <1>4
    <3>2. conn'.c2s = Append(conn.c2s, b) /\ conn'.s2c = conn.s2c
      BY <1>6 DEF ClientSends
    <3>3. handler.answer # "none" =>
            /\ conn.s2c = <<>>
            /\ \/ handler.pc = "get_head" /\ conn.c2s = <<h>>
               \/ handler.pc = "get_body" /\ conn.c2s = <<>>
      BY <2>3
    <3> HIDE DEF h, b
    <3>4. Append(<<>>, b) = <<b>> /\ Append(<<h>>, b) = <<h, b>>
      BY <3>1, Short
    <3>5. handler.answer # "none" =>
            /\ conn'.s2c = <<>>
            /\ \/ handler.pc = "get_head" /\ conn'.c2s = <<h, b>>
               \/ handler.pc = "get_body" /\ conn'.c2s = <<b>>
      BY <3>2, <3>3, <3>4
    <3> QED
      BY <3>5 DEF h, b
  <2>5. handler.answer # "none" => Underway'
    BY <1>1, <2>1, <2>3, <2>4 DEF Underway, ClientOnly
  <2> QED
    BY <1>1, <1>6, <2>1, <2>5
       DEF AtCode, AtStdin, AtHead, AtBody, AtAck, AtEnd, Succeeded, Quitting, ClientOnly,
           ClientGoes
<1>7. CASE ~conn.s_open /\ UNCHANGED conn /\ client.pc = "put_body" /\ ClientGoes("ack")
  <2>1. PutsOne' /\ client'.count = 1
    BY <1>1, <1>2, <1>7, SameBuffer DEF ClientGoes, ClientKeeps, ClientOnly, AtBody
  <2>2. handler.answer # "none" => server = "down"
    BY <1>2, <1>7, Parts DEF AtBody, Party, Connection
  <2> QED
    BY <1>1, <1>7, <2>1, <2>2
       DEF AtCode, AtStdin, AtHead, AtBody, AtAck, AtEnd, Succeeded, Quitting, ClientOnly,
           ClientGoes
<1> QED
  BY <1>3, <1>5, <1>6, <1>7, PutPacketIs

LEMMA ReadAckSent ==
  ASSUME Typed, Party, Sent, ReadAck
  PROVE  Sent'
<1>1. client.pc = "ack" /\ ClientOnly /\ Live
  BY ReadAckIs DEF Live
<1> SUFFICES ASSUME Sending
             PROVE  AtCode' /\ AtStdin' /\ AtHead' /\ AtBody' /\ AtAck' /\ AtEnd'
  BY <1>1 DEF Sent, Sending, ClientOnly
<1> USE DEF AtCode, AtStdin, AtHead, AtBody, AtAck, AtEnd, Succeeded, Quitting
<1>2. /\ PutsOne
      /\ handler.answer # "none" => Underway \/ (server = "down" /\ client.count = 1)
  BY <1>1 DEF Sent, Sending
<1>3. PICK c \in Ends :
        /\ GotCode(c)
        /\ IF client.count # 0 /\ c = "SUCCESS" THEN ClientGoes("stdin") ELSE ExitsWith(c)
  BY ReadAckIs
<1>4. CASE c # "SUCCESS"
  BY <1>3, <1>4 DEF ExitsWith
<1>5. ClientKeeps /\ Taken' = Taken
  BY <1>1, <1>3, SameBuffer DEF ClientGoes, ExitsWith, ClientOnly
<1>6. ASSUME c = "SUCCESS", handler.answer # "none", ClientReads("code"), Underway
      PROVE  /\ AtPeer(Taken) /\ conn'.c2s = <<>>
             /\ handler.pc \in {"get_head", "last_code"} \cup Ending
             /\ client.count = 1 => handler.pc = "get_head" /\ conn'.s2c = <<>>
  <2>1. conn.s2c # <<>> /\ conn.s2c[1].code = "SUCCESS"
    BY <1>3, <1>6 DEF GotCode, ClientReads, ClientHearsEnd
  <2>2. /\ conn.c2s = <<>> /\ handler.pc \in {"get_head", "last_code"} \cup Ending
        /\ AtPeer(Taken)
        /\ client.count = 1 => handler.pc = "get_head" /\ Len(conn.s2c) = 1
    BY <1>2, <1>6, <2>1 DEF Underway, Quiet
  <2>3. Len(conn.s2c) = 1 => conn'.s2c = <<>>
    <3>1. conn'.s2c \in Seq(Item) /\ Len(conn'.s2c) = Len(conn.s2c) - 1
      BY <1>6, Take, Parts DEF ClientReads
    <3> QED
      BY <3>1
  <2> QED
    BY <1>6, <2>2, <2>3 DEF ClientReads
<1>7. ASSUME handler.answer # "none", ClientHearsEnd, Underway
      PROVE  /\ server = "down" /\ UNCHANGED conn
             /\ client.count = 0 => AtPeer(Taken)
  <2>1. conn.s2c = <<>> /\ UNCHANGED conn /\ Over
    BY <1>1, <1>7, HeardEnd DEF ClientHearsEnd
  <2>2. handler.pc \in {"get_head", "get_body", "forward", "ack", "last_code"}
    BY <1>2, <1>7, <2>1 DEF Underway
  <2>3. ASSUME client.count = 0 PROVE AtPeer(Taken)
    <3>1. Taken - 0 = Taken
      BY UnreadTyped DEF Taken
    <3> QED
      BY <1>2, <1>7, <2>1, <2>3, <3>1 DEF Underway
  <2> QED
    BY <2>1, <2>2, <2>3, Parts DEF Over
<1>8. CASE c = "SUCCESS" /\ client.count # 0
  <2>1. client.count = 1 /\ ClientGoes("stdin")
    BY <1>2, <1>3, <1>8 DEF PutsOne
  <2>2. ASSUME handler.answer # "none"
        PROVE  server = "down" \/ (handler.pc = "get_head" /\ Quiet' /\ AtPeer(Taken))
    BY <1>2, <1>3, <1>6, <1>7, <1>8, <2>1, <2>2 DEF GotCode, Quiet
  <2> QED
    BY <1>1, <1>5, <2>1, <2>2 DEF ClientGoes, ClientOnly
<1>9. CASE c = "SUCCESS" /\ client.count = 0
  <2>1. client.unread = 0 /\ Taken = req.input /\ client'.pc = "closing"
    BY <1>2, <1>3, <1>9, UnreadTyped DEF PutsOne, Taken, ExitsWith
  <2>2. handler.answer = "none" => Over
    <3>1. CASE ClientHearsEnd
      BY <1>1, <3>1, HeardEnd
    <3>2. CASE ClientReads("code")
      BY <3>2 DEF ClientReads, Party, Connection
    <3> QED
      BY <1>3, <3>1, <3>2 DEF GotCode
  <2>3. ASSUME handler.answer # "none"
        PROVE  /\ AtPeer(Taken)
               /\ \/ server = "down"
                  \/ conn'.c2s = <<>> /\ handler.pc \in {"get_head", "last_code"} \cup Ending
    BY <1>2, <1>3, <1>6, <1>7, <1>9, <2>3 DEF GotCode
  <2> QED
    BY <1>1, <2>1, <2>2, <2>3 DEF ClientOnly, Over
<1> QED
  BY <1>4, <1>8, <1>9

LEMMA ClientSent ==
  ASSUME Typed, Party, Words, Sent, ClientStep
  PROVE  Sent'
<1>1. CASE CloseClient \/ Kill
  <2>1. /\ ClientOnly /\ client'.pc = "exited"
        /\ client'.code = "SUCCESS" => client.pc = "closing" /\ client.code = "SUCCESS"
        /\ conn'.c2s = conn.c2s
    BY <1>1, ClientLeavesIs
  <2> QED
    BY <2>1 DEF Sent, AtCode, AtStdin, AtHead, AtBody, AtAck, AtEnd, Succeeded, Quitting,
                ClientOnly, Over
<1>2. CASE ReadHead \/ ReadBody
  <2>1. ClientOnly /\ client.pc \in {"head", "body"}
    BY <1>2, ReadHeadIs, ReadBodyIs
  <2>2. ~Sending
    BY <2>1, SendingSends DEF Party, Heard
  <2> QED
    BY <2>1, <2>2 DEF Sent, Sending, ClientOnly
<1> QED
  BY <1>1, <1>2, SendWordSent, ReadCodeSent, ReadStdinSent, PutPacketSent, ReadAckSent,
     Zenon DEF ClientStep

-----------------------------------------------------------------------------
(* send and nms_send: the server.                                          *)

SentParts == AtCode /\ AtStdin /\ AtHead /\ AtBody /\ AtAck /\ AtEnd

LEMMA SentIs == Sent <=> (Sending => SentParts)
BY DEF Sent, Sending, SentParts

LEMMA SameClient ==
  ASSUME UNCHANGED <<req, client>>
  PROVE  /\ Buffer' = Buffer /\ Taken' = Taken /\ (PutsOne' <=> PutsOne)
         /\ (Succeeded' <=> Succeeded) /\ (Live' <=> Live) /\ (Sending' <=> Sending)
BY DEF Buffer, Taken, PutsOne, Succeeded, Quitting, Live, Sending

\* Nobody is there to be answered.
LEMMA GoneSent ==
  ASSUME UNCHANGED <<req, client>>, ~Live, Sending => AtEnd'
  PROVE  Sent'
<1>1. client'.pc \in {"start", "closing", "exited"}
  BY DEF Live
<1> QED
  BY <1>1, SameClient DEF Sent, Sending, AtCode, AtStdin, AtHead, AtBody, AtAck

\* The packets and the recv of other commands.
PlainStep ==
  \/ SendPacket \/ SendItem \/ RecvSetup \/ Drain \/ RecvLoop \/ RecvChunk \/ RecvRest
  \/ RecvEnd

LEMMA PlainSent ==
  ASSUME Typed, Party, Sent, PlainStep
  PROVE  Sent'
<1>1. /\ server = "up" /\ UNCHANGED <<req, client>>
      /\ handler.pc \in {"items"} \cup PutLabels \cup RecvLabels
  BY SendPacketIs, SendItemIs, RecvSetupIs, DrainIs, RecvLoopIs, RecvChunkIs, RecvRestIs,
     RecvEndIs DEF PlainStep, ServerOnly, NetworkOnly, RecvLabels
<1>2. handler.answer # "none"
  BY <1>1 DEF Party, Connection, Early, Ending, PutLabels, RecvLabels
<1>3. handler.cmd \in {"accept", "info", "nms_recv", "list", "poll", "recv"}
  BY <1>1 DEF Party, Heard, PutLabels
<1>4. Sending => ~conn.c_open
  BY <1>2, <1>3 DEF Party, Heard, Sending
<1>5. Sending => ~Live
  BY <1>4, GoneNotLive
<1>6. Sending => ~Succeeded
  BY <1>1, <1>2 DEF Sent, Sending, AtEnd, PutLabels, RecvLabels, Ending
<1>7. Sending => AtEnd'
  BY <1>1, <1>6, SameClient DEF AtEnd
<1>8. ~Sending => Sent'
  BY <1>1, SameClient DEF Sent, Sending
<1> QED
  BY <1>1, <1>5, <1>7, <1>8, GoneSent

LEMMA EndsSent ==
  ASSUME Typed, Sent, ServerEnds
  PROVE  Sent'
<1>1. /\ server' = "down" /\ UNCHANGED <<req, client, handler, sock>>
      /\ conn'.c2s = conn.c2s /\ conn'.s2c = conn.s2c
  BY ServerEndsIs
<1> SUFFICES ASSUME Sending PROVE SentParts'
  BY <1>1 DEF Sent, Sending, SentParts
<1>2. SentParts
  BY SentIs
<1>3. Buffer' = Buffer /\ Taken' = Taken /\ (PutsOne' <=> PutsOne) /\ (Succeeded' <=> Succeeded)
  BY <1>1, SameClient
<1>4. AtCode' /\ AtStdin'
  BY <1>1, <1>2, <1>3 DEF SentParts, AtCode, AtStdin
<1>5. AtHead' /\ AtBody'
  BY <1>1, <1>2, <1>3 DEF SentParts, AtHead, AtBody
<1>6. AtAck'
  BY <1>1, <1>2, <1>3 DEF SentParts, AtAck, Underway, Quiet
<1>7. AtEnd'
  BY <1>1, <1>2, <1>3 DEF SentParts, AtEnd, Over
<1> QED
  BY <1>4, <1>5, <1>6, <1>7 DEF SentParts

\* Before the answer, and whatever the peer does.
LEMMA UnansweredSent ==
  ASSUME Sent, UNCHANGED <<req, client>>, sock'.out = sock.out,
         handler.answer = "none", handler'.answer = "none", Over => Over'
  PROVE  Sent'
<1> SUFFICES ASSUME Sending PROVE SentParts'
  BY SameClient, SentIs DEF Sent, Sending, SentParts
<1> QED
  BY SentIs, SameClient DEF SentParts, AtCode, AtStdin, AtHead, AtBody, AtAck, AtEnd

LEMMA PeerSent ==
  ASSUME Typed, Sent, Peer
  PROVE  Sent'
<1>1. /\ UNCHANGED <<req, server, conn, client, handler>> /\ sock'.out = sock.out
      /\ sock.peer = "open"
  BY PeerIs
<1> QED
  BY <1>1, SameClient DEF Sent, AtCode, AtStdin, AtHead, AtBody, AtAck, AtEnd, Underway, Quiet, Over

LEMMA SetupSent ==
  ASSUME Typed, Party, Sent,
         AcceptClient \/ RecvArgc \/ RecvWord \/ Dispatch \/ NetworkReturns
  PROVE  Sent'
<1>1. CASE ServerEnds
  BY <1>1, EndsSent
<1>2. CASE ~ServerEnds
  <2>1. UNCHANGED <<req, client, sock>> /\ handler.pc \in Early
    BY <1>2, AcceptClientIs, RecvArgcIs, RecvWordIs, DispatchIs, NetworkReturnsIs
       DEF ServerOnly, Early
  <2>2. handler.answer = "none"
    BY <2>1 DEF Party, Connection
  <2>3. handler'.answer = handler.answer /\ (Over => Over')
    BY SilentKeeps DEF SilentStep
  <2> QED
    BY <2>1, <2>2, <2>3, UnansweredSent
<1> QED
  BY <1>1, <1>2

LEMMA AnswerCodeSent ==
  ASSUME Typed, Party, Words, Sent, AnswerCode
  PROVE  Sent'
<1>1. PICK c \in Codes :
        SentCode(c) /\ handler'.pc = AfterCode(handler.cmd, c) /\ handler'.answer = c
  BY AnswerCodeIs
<1>2. handler.pc = "code" /\ server = "up" /\ UNCHANGED <<req, server, client, sock>>
  BY AnswerCodeIs DEF ServerOnly
<1>3. /\ handler.answer = "none" /\ conn.s2c = <<>> /\ ~Over
      /\ client.pc \in {"words", "code"} \/ Quitting
  BY <1>2 DEF Party, Connection, Unused, Early, Over
<1> SUFFICES ASSUME Sending PROVE SentParts'
  BY <1>2 DEF Sent, Sending, SentParts
<1>4. AtCode /\ AtEnd
  BY DEF Sent, Sending
<1>5. ~Succeeded
  BY <1>3, <1>4 DEF AtEnd
<1>6. ASSUME client.pc \in {"words", "code"}
      PROVE  /\ conn'.s2c = <<Code(c)>> /\ conn'.c2s = <<>>
             /\ handler'.pc \in {"get_head", "shut"}
             /\ handler'.pc = "get_head" <=> c = "SUCCESS"
  <2>1. conn.c_open
    BY <1>6 DEF Party, Connection
  <2>2. handler.cmd \in {"send", "nms_send"}
    BY <1>2, <2>1 DEF Party, Heard, Sending
  <2>3. handler'.pc = IF c = "SUCCESS" THEN "get_head" ELSE "shut"
    BY <1>1, <2>2 DEF AfterCode
  <2>4. Code(c) \in Item /\ conn'.s2c = Append(<<>>, Code(c)) /\ conn'.c2s = conn.c2s
    BY <1>1, <1>3, <2>1, CodeItem DEF SentCode, ServerSends
  <2>5. Append(<<>>, Code(c)) = <<Code(c)>>
    BY <2>4, Short
  <2>6. conn.c2s = <<>>
    <3>1. Len(conn.c2s) <= 0
      BY <1>2, <1>6 DEF Words, WordsLeft, Early
    <3>2. Len(conn.c2s) \in Nat /\ conn.c2s \in Seq(Item)
      BY Parts
    <3> QED
      BY <3>1, <3>2
  <2> QED
    BY <2>3, <2>4, <2>5, <2>6
<1>7. AtCode'
  BY <1>1, <1>2, <1>4, <1>6 DEF AtCode, Ending
<1>8. client.pc \notin {"stdin", "put_head", "put_body", "ack"}
  BY <1>3 DEF Quitting
<1>9. AtEnd'
  BY <1>2, <1>5, SameClient DEF AtEnd
<1> QED
  BY <1>2, <1>7, <1>8, <1>9 DEF SentParts, AtStdin, AtHead, AtBody, AtAck

LEMMA BufferItems ==
  ASSUME Typed, PutsOne
  PROVE  /\ Buffer \in Seq(Nat) /\ NmsHead(Buffer) \in Item /\ Body(Buffer) \in Item
         /\ Length(NmsHead(Buffer).len) = client.count
         /\ NmsHead(Buffer).kind = "head"
         /\ Body(Buffer).kind = "body" /\ Body(Buffer).data = Buffer
         /\ client.count = 0 => Buffer = <<>>
         /\ client.count = 1 => Buffer # <<>> /\ Buffer = <<MaxBytes + Taken>>
<1>1. Buffer \in Seq(Nat) /\ client.count \in {0, 1}
  BY BufferTyped DEF PutsOne
<1>2. /\ client.count = 0 => Buffer = <<>>
      /\ client.count = 1 => Buffer # <<>> /\ Buffer = <<MaxBytes + Taken>>
  BY DEF Buffer, Input, Taken
<1>3. Len(Buffer) = client.count
  BY <1>1, <1>2
<1>4. Len(Buffer) \in Nat /\ Len(Buffer) <= 65535
  BY <1>1, <1>3
<1>5. Length(NmsHead(Buffer).len) = Len(Buffer)
  BY <1>1, <1>4, LengthRoundTrip DEF NmsHead
<1>6. /\ NmsHead(Buffer) \in Item /\ Body(Buffer) \in Item
      /\ NmsHead(Buffer).kind = "head"
      /\ Body(Buffer).kind = "body" /\ Body(Buffer).data = Buffer
  BY <1>1, HeadItem, BodyItem DEF NmsHead, Body
<1> QED
  BY <1>1, <1>2, <1>3, <1>5, <1>6

\* The handler reads the head or the body that is on the stream.
LEMMA GetPacketSent ==
  ASSUME Typed, Party, Sent, GetPacket
  PROVE  Sent'
<1>1. /\ server = "up" /\ UNCHANGED <<req, server, client, sock>>
      /\ handler.pc \in {"get_head", "get_body"} /\ handler.ret \in {"shut", "last_code"}
      /\ conn'.s2c = conn.s2c
  BY GetPacketIs, SendHeld DEF ServerOnly, SendLabels, GetReturns, ServerReads, ServerHearsEnd
<1>2. handler.answer # "none" /\ handler'.answer = handler.answer
  BY <1>1, GetPacketIs DEF Party, Connection, Early, Ending, Goes, Told
<1> SUFFICES ASSUME Sending PROVE Sent'
  BY <1>1 DEF Sent, Sending
<1>3. SentParts
  BY SentIs
<1>4. /\ Buffer' = Buffer /\ Taken' = Taken /\ (PutsOne' <=> PutsOne)
      /\ (Succeeded' <=> Succeeded) /\ (Sending' <=> Sending)
  BY <1>1, SameClient
<1>5. CASE ServerHearsEnd /\ Goes(handler.ret)
  <2>1. ~Live
    BY <1>5, GoneNotLive DEF ServerHearsEnd
  <2>2. AtEnd'
    BY <1>1, <1>2, <1>3, <1>4, <1>5 DEF SentParts, AtEnd, ServerHearsEnd, Goes, Ending
  <2> QED
    BY <1>1, <2>1, <2>2, GoneSent
<1>6. CASE conn.c2s # <<>>
  <2>1. ~Succeeded
    BY <1>1, <1>2, <1>3, <1>6 DEF SentParts, AtEnd
  <2>2. client.pc \notin {"words", "code", "stdin", "put_head"}
    BY <1>1, <1>2, <1>3, <1>6 DEF SentParts, AtCode, AtStdin, AtHead, Quiet, Ending
  <2>3. CASE client.pc = "put_body"
    <3>1. PutsOne /\ client.count = 1
      BY <1>3, <2>3 DEF SentParts, AtBody
    <3>2. /\ conn.s2c = <<>> /\ AtPeer(Taken - 1) /\ handler.pc = "get_head"
          /\ conn.c2s = <<NmsHead(Buffer)>>
      BY <1>1, <1>2, <1>3, <1>6, <2>3 DEF SentParts, AtBody
    <3>3. conn.c2s[1] = NmsHead(Buffer) /\ Tail(conn.c2s) = <<>>
      BY <3>1, <3>2, BufferItems, Short
    <3>4. Length(conn.c2s[1].len) = 1
      BY <3>1, <3>3, BufferItems
    <3>5. conn'.c2s = <<>> /\ handler'.pc = "get_body"
      BY <1>6, <3>2, <3>3, <3>4, GetPacketIs DEF ServerReads, Goes, ServerHearsEnd
    <3>6. AtBody'
      BY <1>1, <1>4, <2>3, <3>1, <3>2, <3>5 DEF AtBody
    <3>7. AtCode' /\ AtStdin' /\ AtHead' /\ AtAck' /\ AtEnd'
      BY <1>1, <1>4, <2>1, <2>3 DEF AtCode, AtStdin, AtHead, AtAck, AtEnd
    <3> QED
      BY <3>6, <3>7 DEF Sent
  <2>4. CASE client.pc = "ack"
    <3>1. PutsOne /\ Underway /\ client.count \in {0, 1}
      BY <1>1, <1>2, <1>3, <2>4 DEF SentParts, AtAck, PutsOne
    <3>2. /\ conn.s2c = <<>> /\ AtPeer(Taken - client.count)
          /\ \/ handler.pc = "get_head" /\ client.count = 0 /\ conn.c2s = <<NmsHead(Buffer)>>
             \/ /\ handler.pc = "get_head" /\ client.count = 1
                /\ conn.c2s = <<NmsHead(Buffer), Body(Buffer)>>
             \/ handler.pc = "get_body" /\ client.count = 1 /\ conn.c2s = <<Body(Buffer)>>
      BY <1>1, <1>6, <3>1 DEF Underway, Quiet
    <3>3. Underway'
      <4>1. CASE handler.pc = "get_head" /\ client.count = 0 /\ conn.c2s = <<NmsHead(Buffer)>>
        <5>1. conn.c2s[1] = NmsHead(Buffer) /\ Tail(conn.c2s) = <<>>
          BY <3>1, <4>1, BufferItems, Short
        <5>2. Length(conn.c2s[1].len) = 0 /\ Buffer = <<>>
          BY <3>1, <4>1, <5>1, BufferItems
        <5>3. /\ conn'.c2s = <<>>
              /\ \/ handler'.pc = "forward" /\ handler'.data = <<>>
                 \/ handler'.pc = "last_code"
          BY <1>6, <4>1, <5>1, <5>2, GetPacketIs DEF ServerReads, Goes, ServerHearsEnd
        <5>4. Taken - client.count = Taken
          BY <4>1, UnreadTyped DEF Taken
        <5> QED
          BY <1>1, <1>4, <3>2, <4>1, <5>2, <5>3, <5>4 DEF Underway, Quiet
      <4>2. CASE /\ handler.pc = "get_head" /\ client.count = 1
                 /\ conn.c2s = <<NmsHead(Buffer), Body(Buffer)>>
        <5>1. conn.c2s[1] = NmsHead(Buffer) /\ Tail(conn.c2s) = <<Body(Buffer)>>
          BY <3>1, <4>2, BufferItems, Short
        <5>2. Length(conn.c2s[1].len) = 1
          BY <3>1, <4>2, <5>1, BufferItems
        <5>3. conn'.c2s = <<Body(Buffer)>> /\ handler'.pc = "get_body"
          BY <1>6, <4>2, <5>1, <5>2, GetPacketIs DEF ServerReads, Goes, ServerHearsEnd
        <5> QED
          BY <1>1, <1>4, <3>2, <4>2, <5>3 DEF Underway
      <4>3. CASE handler.pc = "get_body" /\ client.count = 1 /\ conn.c2s = <<Body(Buffer)>>
        <5>1. conn.c2s[1] = Body(Buffer) /\ Tail(conn.c2s) = <<>> /\ Body(Buffer).data = Buffer
          BY <3>1, <4>3, BufferItems, Short
        <5>2. conn'.c2s = <<>> /\ handler'.pc = "forward" /\ handler'.data = Buffer
          BY <1>6, <4>3, <5>1, GetPacketIs DEF ServerReads, ServerHearsEnd
        <5> QED
          BY <1>1, <1>4, <3>2, <4>3, <5>2 DEF Underway
      <4> QED
        BY <3>2, <4>1, <4>2, <4>3
    <3>4. AtAck'
      BY <1>4, <3>1, <3>3 DEF AtAck
    <3>5. AtCode' /\ AtStdin' /\ AtHead' /\ AtBody' /\ AtEnd'
      BY <1>1, <1>4, <2>1, <2>4 DEF AtCode, AtStdin, AtHead, AtBody, AtEnd
    <3> QED
      BY <3>4, <3>5 DEF Sent
  <2>5. CASE client.pc \notin {"words", "code", "stdin", "put_head", "put_body", "ack"}
    BY <1>1, <1>4, <2>1, <2>5 DEF Sent, AtCode, AtStdin, AtHead, AtBody, AtAck, AtEnd
  <2> QED
    BY <2>2, <2>3, <2>4, <2>5
<1> QED
  BY <1>5, <1>6, GetPacketIs DEF ServerReads

LEMMA SofarMore ==
  ASSUME Typed, PutsOne
  PROVE  Sofar(Taken - client.count) \o Buffer = Sofar(Taken)
<1>1. /\ MaxBytes \in Nat /\ Taken \in Nat /\ Taken - client.count \in Nat
      /\ client.count \in {0, 1}
  BY UnreadTyped DEF PutsOne, Taken
<1>2. Buffer = Run(MaxBytes + (Taken - client.count), client.count)
  <2>1. CASE client.count = 0
    BY <1>1, <2>1, RunOne, BufferItems
  <2>2. CASE client.count = 1
    <3>1. MaxBytes + (Taken - 1) \in Nat /\ (MaxBytes + (Taken - 1)) + 1 = MaxBytes + Taken
      BY <1>1, <2>2
    <3>2. Run(MaxBytes + (Taken - 1), 1) = <<(MaxBytes + (Taken - 1)) + 1>>
      BY <3>1, RunOne
    <3> QED
      BY <2>2, <3>1, <3>2, BufferItems
  <2> QED
    BY <1>1, <2>1, <2>2
<1>3. \A n, k \in Nat : Run(MaxBytes, n) \o Run(MaxBytes + n, k) = Run(MaxBytes, n + k)
  BY <1>1, RunAppend
<1>4. (Taken - client.count) + client.count = Taken /\ client.count \in Nat
  BY <1>1
<1>5. Run(MaxBytes, Taken - client.count)
        \o Run(MaxBytes + (Taken - client.count), client.count) = Run(MaxBytes, Taken)
  BY <1>1, <1>3, <1>4, Zenon
<1> QED
  BY <1>2, <1>5 DEF Sofar

LEMMA ForwardSent ==
  ASSUME Typed, Party, Sent, Forward
  PROVE  Sent'
<1>1. /\ handler.pc = "forward" /\ server = "up" /\ UNCHANGED <<req, server, conn, client>>
      /\ handler'.pc = "ack" /\ handler'.answer = handler.answer /\ handler'.data = handler.data
      /\ \/ /\ handler'.status = "SUCCESS"
            /\ sock'.peer \in {sock.peer, "reset"}
            /\ sock'.peer # "reset" => sock'.out = sock.out \o handler.data
         \/ handler'.status = "NETWORK_ERROR" /\ UNCHANGED sock
  BY ForwardIs DEF NetworkOnly, Told
<1>2. handler.answer # "none"
  BY <1>1 DEF Party, Connection, Early, Ending
<1> SUFFICES ASSUME Sending PROVE Sent'
  BY <1>1 DEF Sent, Sending
<1>3. SentParts
  BY SentIs
<1>4. /\ Buffer' = Buffer /\ Taken' = Taken /\ (PutsOne' <=> PutsOne)
      /\ (Succeeded' <=> Succeeded) /\ (Sending' <=> Sending)
  BY <1>1, SameClient
<1>5. /\ ~Succeeded
      /\ client.pc \notin {"words", "code", "stdin", "put_head", "put_body"}
  BY <1>1, <1>2, <1>3 DEF SentParts, AtCode, AtStdin, AtHead, AtBody, AtEnd, Ending
<1>6. ASSUME client.pc = "ack" PROVE PutsOne /\ Underway'
  <2>1. PutsOne /\ Underway
    BY <1>1, <1>2, <1>3, <1>6 DEF SentParts, AtAck
  <2>2. /\ Quiet /\ handler.data = Buffer /\ AtPeer(Taken - client.count)
    BY <1>1, <2>1 DEF Underway, Quiet, Ending
  <2>3. sock.peer # "reset" => sock.out \o handler.data = Sofar(Taken)
    BY <2>1, <2>2, SofarMore
  <2>4. sock'.peer # "reset" =>
          sock'.out = Sofar(IF handler'.status = "SUCCESS" THEN Taken ELSE Taken - client.count)
    BY <1>1, <2>2, <2>3
  <2>5. client'.count = client.count /\ Quiet'
    BY <1>1, <2>2 DEF Quiet
  <2> QED
    BY <1>1, <1>4, <2>1, <2>2, <2>4, <2>5 DEF Underway
<1> QED
  BY <1>1, <1>4, <1>5, <1>6 DEF Sent, AtCode, AtStdin, AtHead, AtBody, AtAck, AtEnd

LEMMA AckSent ==
  ASSUME Typed, Party, Sent, Ack
  PROVE  Sent'
<1>1. /\ handler.pc = "ack" /\ server = "up" /\ UNCHANGED <<req, server, client, sock>>
      /\ SentCode(handler.status) /\ handler'.answer = handler.answer
      /\ handler'.pc \in {"last_code", "shut", "get_head"}
      /\ handler.status = "SUCCESS" /\ handler.data # <<>> => handler'.pc = "get_head"
  BY AckIs DEF ServerOnly, Told
<1>2. handler.answer # "none" /\ (conn.c_open <=> client.pc \notin {"start", "exited"})
  BY <1>1 DEF Party, Connection, Early, Ending
<1> SUFFICES ASSUME Sending PROVE Sent'
  BY <1>1 DEF Sent, Sending
<1>3. SentParts
  BY SentIs
<1>4. /\ Buffer' = Buffer /\ Taken' = Taken /\ (PutsOne' <=> PutsOne)
      /\ (Succeeded' <=> Succeeded) /\ (Sending' <=> Sending)
  BY <1>1, SameClient
<1>5. /\ ~Succeeded
      /\ client.pc \notin {"words", "code", "stdin", "put_head", "put_body"}
  BY <1>1, <1>2, <1>3 DEF SentParts, AtCode, AtStdin, AtHead, AtBody, AtEnd, Ending
<1>6. ASSUME client.pc = "ack" PROVE PutsOne /\ Underway'
  <2>1. PutsOne /\ Underway
    BY <1>1, <1>2, <1>3, <1>6 DEF SentParts, AtAck
  <2>2. /\ Quiet /\ handler.data = Buffer
        /\ AtPeer(IF handler.status = "SUCCESS" THEN Taken ELSE Taken - client.count)
    BY <1>1, <2>1 DEF Underway, Quiet, Ending
  <2>3. handler.status \in Codes /\ Code(handler.status) \in Item
    BY HandlerFields, CodeItem DEF Typed
  <2>4. conn'.s2c = Append(<<>>, Code(handler.status)) /\ conn'.c2s = <<>>
    BY <1>1, <1>2, <1>6, <2>2 DEF SentCode, ServerSends, Quiet
  <2>5. conn'.s2c = <<Code(handler.status)>>
    BY <2>3, <2>4, Short
  <2>6. /\ conn'.s2c # <<>> /\ Len(conn'.s2c) = 1
        /\ conn'.s2c[1].code = handler.status
    BY <2>3, <2>5, Short DEF Code
  <2>7. client.count = 1 /\ handler.status = "SUCCESS" => handler'.pc = "get_head"
    BY <1>1, <2>1, <2>2, BufferItems
  <2> QED
    BY <1>1, <1>4, <2>1, <2>2, <2>4, <2>6, <2>7 DEF Underway, Ending
<1> QED
  BY <1>1, <1>4, <1>5, <1>6 DEF Sent, AtCode, AtStdin, AtHead, AtBody, AtAck, AtEnd

LEMMA LastCodeSent ==
  ASSUME Typed, Party, Sent, LastCode
  PROVE  Sent'
<1>1. /\ handler.pc = "last_code" /\ server = "up" /\ UNCHANGED <<req, server, client, sock>>
      /\ SentCode("SUCCESS") /\ handler'.answer = handler.answer /\ handler'.pc = "shut"
  BY LastCodeIs DEF ServerOnly, Told, Goes
<1>2. handler.answer # "none" /\ (conn.c_open <=> client.pc \notin {"start", "exited"})
  BY <1>1 DEF Party, Connection, Early, Ending
<1> SUFFICES ASSUME Sending PROVE Sent'
  BY <1>1 DEF Sent, Sending
<1>3. SentParts
  BY SentIs
<1>4. /\ Buffer' = Buffer /\ Taken' = Taken /\ (PutsOne' <=> PutsOne)
      /\ (Succeeded' <=> Succeeded) /\ (Sending' <=> Sending)
  BY <1>1, SameClient
<1>5. client.pc \notin {"words", "code", "stdin", "put_head", "put_body"}
  BY <1>1, <1>2, <1>3 DEF SentParts, AtCode, AtStdin, AtHead, AtBody, Ending
<1>6. conn'.c2s = conn.c2s
  BY <1>1 DEF SentCode, ServerSends
<1>7. AtEnd'
  BY <1>1, <1>2, <1>3, <1>4, <1>6 DEF SentParts, AtEnd, Ending
<1>9. ASSUME conn.c2s = <<>>, conn'.s2c # <<>>,
             conn'.s2c[1].code = "SUCCESS" => AtPeer(Taken) /\ client.count # 1
      PROVE  Underway'
  BY <1>1, <1>4, <1>6, <1>9 DEF Underway, Ending
<1>8. ASSUME client.pc = "ack" PROVE PutsOne /\ Underway'
  <2>1. PutsOne /\ Underway
    BY <1>1, <1>2, <1>3, <1>8 DEF SentParts, AtAck
  <2>2. Code("SUCCESS") \in Item /\ Code("SUCCESS").code = "SUCCESS"
    BY CodeItem DEF Codes, Code
  <2>3. conn'.s2c = Append(conn.s2c, Code("SUCCESS"))
    BY <1>1, <1>2, <1>8 DEF SentCode, ServerSends
  <2>4. CASE conn.s2c = <<>>
    <3>1. conn.c2s = <<>> /\ client.count = 0 /\ AtPeer(Taken)
      BY <1>1, <2>1, <2>4 DEF Underway, Quiet, Ending
    <3>2. conn'.s2c = <<Code("SUCCESS")>>
      BY <2>2, <2>3, <2>4, Short
    <3>3. conn'.s2c # <<>> /\ conn'.s2c[1].code = "SUCCESS"
      BY <2>2, <3>2, Short
    <3> QED
      BY <1>9, <2>1, <3>1, <3>3
  <2>5. CASE conn.s2c # <<>>
    <3>1. /\ conn.c2s = <<>>
          /\ conn.s2c[1].code = "SUCCESS" => AtPeer(Taken) /\ client.count # 1
      BY <1>1, <2>1, <2>5 DEF Underway, Quiet, Ending
    <3>2. conn'.s2c # <<>> /\ conn'.s2c[1] = conn.s2c[1]
      <4>1. conn.s2c \in Seq(Item) /\ 1 \in 1..Len(conn.s2c)
        BY <2>5, Parts
      <4> QED
        BY <2>2, <2>3, <4>1, Put
    <3> QED
      BY <1>9, <2>1, <2>5, <3>1, <3>2
  <2> QED
    BY <2>1, <2>4, <2>5
<1> QED
  BY <1>1, <1>4, <1>5, <1>7, <1>8 DEF Sent, AtCode, AtStdin, AtHead, AtBody, AtAck

LEMMA CloseConnectionSent ==
  ASSUME Typed, Party, Sent, CloseConnection
  PROVE  Sent'
<1>1. /\ server = "up" /\ UNCHANGED <<req, server, client, sock>>
      /\ conn'.c2s = conn.c2s /\ conn'.s2c = conn.s2c /\ handler'.answer = handler.answer
      /\ handler.pc \in {"shut", "linger"} /\ handler'.pc \in {"linger", "done"}
  BY CloseConnectionIs DEF ServerOnly, Told, Goes
<1> SUFFICES ASSUME Sending PROVE Sent'
  BY <1>1 DEF Sent, Sending
<1>2. SentParts
  BY SentIs
<1>3. /\ Buffer' = Buffer /\ Taken' = Taken /\ (PutsOne' <=> PutsOne)
      /\ (Succeeded' <=> Succeeded) /\ (Sending' <=> Sending)
  BY <1>1, SameClient
<1>4. AtCode' /\ AtStdin' /\ AtHead'
  BY <1>1, <1>2, <1>3 DEF SentParts, AtCode, AtStdin, AtHead, Ending
<1>5. AtBody'
  BY <1>1, <1>2, <1>3 DEF SentParts, AtBody
<1>6. AtAck'
  BY <1>1, <1>2, <1>3 DEF SentParts, AtAck, Underway, Quiet, Ending
<1>7. AtEnd'
  BY <1>1, <1>2, <1>3 DEF SentParts, AtEnd, Over, Ending
<1> QED
  BY <1>4, <1>5, <1>6, <1>7 DEF Sent

LEMMA ConnectSent ==
  ASSUME Typed, Party, Connect
  PROVE  Sent'
<1>1. /\ client.pc = "start" /\ client'.pc = "words" /\ client'.unread = req'.input
      /\ UNCHANGED <<server, handler, sock>>
  BY ConnectIs
<1>2. sock.out = <<>> /\ handler.answer = "none"
  BY <1>1 DEF Party, Connection, Unused, Early
<1> QED
  BY <1>1, <1>2 DEF Sent, AtCode, AtStdin, AtHead, AtBody, AtAck, AtEnd, Succeeded, Quitting

LEMMA SentStep == Typed /\ Party /\ Framing /\ Sent /\ [Next]_vars => Sent'
<1> SUFFICES ASSUME Typed, Party, Framing, Sent, [Next]_vars PROVE Sent'
  OBVIOUS
<1>1. Words
  BY DEF Framing
<1>2. CASE UNCHANGED vars
  BY <1>2 DEF vars, Sent, AtCode, AtStdin, AtHead, AtBody, AtAck, AtEnd, PutsOne, Underway,
              Quiet, Taken, Buffer, Succeeded, Quitting, Over
<1>3. CASE ClientStep
  BY <1>1, <1>3, ClientSent
<1>4. CASE PlainStep
  BY <1>4, PlainSent
<1>5. CASE AcceptClient \/ RecvArgc \/ RecvWord \/ Dispatch \/ NetworkReturns
  BY <1>5, SetupSent
<1>6. CASE ServerExits
  BY <1>6, EndsSent DEF ServerExits
<1>7. CASE AnswerCode
  BY <1>1, <1>7, AnswerCodeSent
<1> QED
  BY <1>2, <1>3, <1>4, <1>5, <1>6, <1>7, Steps, ConnectSent, GetPacketSent, ForwardSent,
     AckSent, LastCodeSent, CloseConnectionSent, PeerSent, Zenon DEF ClientStep, PlainStep

\* send and nms_send end well only if all of stdin went to the peer, once and
\* in order, provided that a handler answered and that the peer did not reset the
\* connection (client_handle_send, server_cmd_send, server_cmd_nms_send).
THEOREM SendsInput == Spec => []InputDelivered
<1>1. Init => Sent
  BY DEF Init, Sent, NoRequest
<1>2. Typed /\ Sent => InputDelivered
  <2> SUFFICES ASSUME Typed, Sent, Ended({"SUCCESS"}), Sending, handler.answer # "none",
                      sock.peer # "reset"
               PROVE  sock.out = [i \in 1..req.input |-> MaxBytes + i]
    BY DEF InputDelivered, Sending
  <2>1. Succeeded
    BY DEF Ended, Succeeded, Quitting
  <2> QED
    BY <2>1 DEF Sent, Sending, AtEnd, Sofar, Run
<1> QED
  BY <1>1, <1>2, InStepsInvariant, SentStep, PTL DEF Spec

HIDE DEF AtPeer

-----------------------------------------------------------------------------
(* recv: the positions of the bytes on a stream.                           *)

LEMMA SizeIs ==
  ASSUME NEW x \in Item
  PROVE  /\ Size(x) \in Nat
         /\ x.kind # "body" => Size(x) = 0
         /\ x.kind = "body" => Size(x) = Len(x.data)
BY ItemFields DEF Size

LEMMA CarriesNone ==
  ASSUME NEW n \in Nat, NEW end \in Nat, n <= end
  PROVE  Carries(<<>>, n, n, end)
<1> DEFINE p == [i \in 0..0 |-> n]
<1>1. p \in [0..Len(<<>>) -> 0..end] /\ p[0] = n /\ p[Len(<<>>)] = n
  OBVIOUS
<1>2. Spans(<<>>, p, n, n, end)
  BY <1>1 DEF Spans
<1> QED
  BY <1>1, <1>2 DEF Carries

LEMMA CarriesPut ==
  ASSUME NEW q \in Seq(Item), NEW from \in Nat, NEW to \in Nat, NEW end \in Nat,
         Carries(q, from, to, end), NEW x \in Item, to + Size(x) <= end,
         x.kind = "body" => x.data = Run(to, Size(x)),
         Empty(x) => to + Size(x) = end
  PROVE  Carries(Append(q, x), from, to + Size(x), end)
<1>1. PICK pos \in [0..Len(q) -> 0..end] : Spans(q, pos, from, to, end)
  BY DEF Carries
<1> DEFINE n == Len(q)
           s == Append(q, x)
           z == to + Size(x)
           p == [i \in 0..(n + 1) |-> IF i <= n THEN pos[i] ELSE z]
<1>2. /\ n \in Nat /\ Len(s) = n + 1 /\ s[n + 1] = x
      /\ \A i \in 1..n : s[i] = q[i]
  BY Put
<1>3. z \in 0..end
  BY SizeIs
<1>4. /\ p \in [0..(n + 1) -> 0..end] /\ p[n + 1] = z
      /\ \A i \in 0..n : p[i] = pos[i]
  BY <1>1, <1>2, <1>3
<1>5. /\ pos[0] = from /\ pos[n] = to
      /\ \A i \in 1..n :
           /\ pos[i] = pos[i - 1] + Size(q[i])
           /\ q[i].kind = "body" => q[i].data = Run(pos[i - 1], Size(q[i]))
           /\ Empty(q[i]) => pos[i] = end
  BY <1>1 DEF Spans
<1> HIDE DEF s, p, n
<1>6. p[0] = from /\ p[n] = to
  BY <1>2, <1>4, <1>5
<1>7. ASSUME NEW i \in 1..(n + 1)
      PROVE  /\ p[i] = p[i - 1] + Size(s[i])
             /\ s[i].kind = "body" => s[i].data = Run(p[i - 1], Size(s[i]))
             /\ Empty(s[i]) => p[i] = end
  <2>1. CASE i = n + 1
    <3>1. i - 1 = n
      BY <1>2, <2>1
    <3> QED
      BY <1>2, <1>4, <1>6, <2>1, <3>1
  <2>2. CASE i # n + 1
    <3>1. i \in 1..n /\ i \in 0..n /\ i - 1 \in 0..n
      BY <1>2, <2>2
    <3>2. s[i] = q[i] /\ p[i] = pos[i] /\ p[i - 1] = pos[i - 1]
      BY <1>2, <1>4, <3>1
    <3> QED
      BY <1>5, <3>1, <3>2
  <2> QED
    BY <2>1, <2>2
<1>8. Spans(s, p, from, z, end)
  BY <1>2, <1>4, <1>6, <1>7 DEF Spans
<1> QED
  BY <1>2, <1>4, <1>8 DEF Carries, s

LEMMA CarriesTaken ==
  ASSUME NEW q \in Seq(Item), q # <<>>, NEW from \in Nat, NEW to \in Nat, NEW end \in Nat,
         Carries(q, from, to, end)
  PROVE  /\ Carries(Tail(q), from + Size(q[1]), to, end)
         /\ from + Size(q[1]) <= end
         /\ q[1].kind = "body" => q[1].data = Run(from, Size(q[1]))
         /\ Empty(q[1]) => from + Size(q[1]) = end
<1>1. PICK pos \in [0..Len(q) -> 0..end] : Spans(q, pos, from, to, end)
  BY DEF Carries
<1> DEFINE n == Len(q)
           s == Tail(q)
           p == [i \in 0..(n - 1) |-> pos[i + 1]]
<1>2. /\ n \in Nat /\ n >= 1 /\ Len(s) = n - 1
      /\ \A i \in 1..(n - 1) : s[i] = q[i + 1]
  BY Take
<1>3. /\ p \in [0..(n - 1) -> 0..end]
      /\ \A i \in 0..(n - 1) : p[i] = pos[i + 1]
  BY <1>1, <1>2
<1>4. /\ pos[0] = from /\ pos[n] = to
      /\ \A i \in 1..n :
           /\ pos[i] = pos[i - 1] + Size(q[i])
           /\ q[i].kind = "body" => q[i].data = Run(pos[i - 1], Size(q[i]))
           /\ Empty(q[i]) => pos[i] = end
  BY <1>1 DEF Spans
<1> HIDE DEF s, p, n
<1>5. /\ pos[1] = from + Size(q[1])
      /\ q[1].kind = "body" => q[1].data = Run(from, Size(q[1]))
      /\ Empty(q[1]) => pos[1] = end
  <2>1. 1 \in 1..n /\ 1 - 1 = 0
    BY <1>2
  <2> QED
    BY <1>4, <2>1
<1>6. pos[1] \in 0..end
  BY <1>1, <1>2 DEF n
<1>7. p[0] = from + Size(q[1]) /\ p[n - 1] = to
  <2>1. 0 \in 0..(n - 1) /\ n - 1 \in 0..(n - 1) /\ (n - 1) + 1 = n /\ 0 + 1 = 1
    BY <1>2
  <2>2. p[0] = pos[1] /\ p[n - 1] = pos[n]
    BY <1>3, <2>1
  <2> QED
    BY <1>4, <1>5, <2>2
<1>8. ASSUME NEW i \in 1..(n - 1)
      PROVE  /\ p[i] = p[i - 1] + Size(s[i])
             /\ s[i].kind = "body" => s[i].data = Run(p[i - 1], Size(s[i]))
             /\ Empty(s[i]) => p[i] = end
  <2>1. /\ i \in 0..(n - 1) /\ i - 1 \in 0..(n - 1) /\ i + 1 \in 1..n
        /\ (i - 1) + 1 = i /\ (i + 1) - 1 = i
    BY <1>2
  <2>2. s[i] = q[i + 1] /\ p[i] = pos[i + 1] /\ p[i - 1] = pos[i]
    BY <1>2, <1>3, <2>1
  <2> QED
    BY <1>4, <2>1, <2>2
<1>9. Spans(s, p, from + Size(q[1]), to, end)
  BY <1>2, <1>3, <1>7, <1>8 DEF Spans
<1> QED
  BY <1>2, <1>3, <1>5, <1>6, <1>9 DEF Carries, s

\* More was taken from the socket.
LEMMA CarriesMore ==
  ASSUME NEW q \in Seq(Item), NEW from, NEW to, NEW end \in Nat, NEW more \in Nat,
         Carries(q, from, to, end), end <= more,
         \A i \in 1..Len(q) : ~Empty(q[i])
  PROVE  Carries(q, from, to, more)
<1>1. PICK pos \in [0..Len(q) -> 0..end] : Spans(q, pos, from, to, end)
  BY DEF Carries
<1>2. pos \in [0..Len(q) -> 0..more]
  BY <1>1
<1>3. Spans(q, pos, from, to, more)
  BY <1>1, <1>2 DEF Spans
<1> QED
  BY <1>2, <1>3 DEF Carries

-----------------------------------------------------------------------------
(* recv: nothing is lost on the way, nothing is added.                     *)

Recving == req.cmd = "recv"

FlowParts ==
  /\ client.stdout = Run(0, Len(client.stdout))
  /\ Len(client.stdout) <= sock.taken
  /\ Live => HoldsLast /\ Flowing
  /\ Finishing \/ Succeeded => Dry
  /\ Succeeded => /\ Len(client.stdout) = sock.taken
                  /\ handler.cmd = "recv" /\ handler.answer # "none"

LEMMA FlowIs == Flow <=> (Recving => FlowParts)
BY DEF Flow, Recving, FlowParts

LEMMA RecvingReads ==
  ASSUME Recving
  PROVE  ClientHandle(req.cmd) = "recv"
BY DEF Recving, ClientHandle, CodeCmds

\* Who is still to receive, or received all, is served by recv.
LEMMA Served ==
  ASSUME Typed, Party, Flow, Recving
  PROVE  /\ Finishing \/ Succeeded => handler.answer # "none"
         /\ (Live /\ handler.answer # "none") \/ Succeeded => handler.cmd = "recv"
<1>1. FlowParts
  BY FlowIs
<1>2. ASSUME Finishing PROVE handler.answer # "none"
  <2>1. conn.s2c # <<>>
    BY <1>2, Parts DEF Finishing
  <2> QED
    BY <2>1 DEF Party, Connection
<1>3. Live => conn.c_open
  BY DEF Party, Connection, Live
<1> QED
  BY <1>1, <1>2, <1>3 DEF FlowParts, Party, Heard, Recving

LEMMA PendingIs ==
  ASSUME Typed
  PROVE  /\ Pending \in Nat
         /\ handler.pc \notin PutLabels => Pending = 0
         /\ handler.pc \in PutLabels => Pending = Len(handler.data)
BY HandlerFields DEF Pending, Typed

LEMMA StdoutIs ==
  ASSUME Typed
  PROVE  client.stdout \in Seq(Nat) /\ Len(client.stdout) \in Nat
BY ClientFields DEF Typed

\* A step of the server after which the client's side is as before.
LEMMA FlowServer ==
  ASSUME Typed, Flow, UNCHANGED <<req, client>>, sock'.taken \in Nat, sock.taken <= sock'.taken,
         Recving /\ Live => HoldsLast' /\ Flowing' /\ (Finishing' => Dry'),
         Recving /\ Succeeded =>
           /\ sock'.taken = sock.taken /\ Dry'
           /\ handler'.cmd = "recv" /\ handler'.answer # "none"
  PROVE  Flow'
<1> SUFFICES ASSUME Recving PROVE FlowParts'
  BY DEF Flow, Recving, FlowParts
<1>1. FlowParts
  BY FlowIs
<1>2. (Live' <=> Live) /\ (Succeeded' <=> Succeeded)
  BY SameClient
<1>3. Finishing' => Live
  BY <1>2 DEF Finishing
<1>4. /\ client'.stdout = Run(0, Len(client'.stdout))
      /\ Len(client'.stdout) <= sock'.taken
  BY <1>1, StdoutIs, SockFields DEF FlowParts
<1>5. Succeeded => Len(client'.stdout) = sock'.taken
  BY <1>1 DEF FlowParts
<1> QED
  BY <1>2, <1>3, <1>4, <1>5 DEF FlowParts

\* ... and the handler took nothing and wrote nothing.
LEMMA FlowKept ==
  ASSUME Typed, Party, Flow, UNCHANGED <<req, client>>,
         conn'.s2c = conn.s2c, sock'.taken = sock.taken, handler'.answer = handler.answer,
         handler'.cmd = handler.cmd \/ handler.answer = "none",
         Recving /\ Live => HoldsLast' /\ Pending' = Pending,
         Recving /\ handler.answer # "none" /\ (Finishing \/ Succeeded) /\ Dry => Dry'
  PROVE  Flow'
<1>1. Recving => FlowParts
  BY FlowIs
<1>2. (Live' <=> Live) /\ (Finishing' <=> Finishing)
  BY SameClient DEF Finishing
<1>3. Recving /\ Live => Flowing'
  BY <1>1 DEF Flowing, FlowParts
<1>4. Recving /\ (Finishing \/ Succeeded) => Dry' /\ handler.answer # "none"
  BY <1>1, Served DEF FlowParts
<1>5. Recving /\ Succeeded => handler'.cmd = "recv"
  BY <1>4, Served
<1>6. sock'.taken \in Nat /\ sock.taken <= sock'.taken
  BY SockFields
<1> QED
  BY <1>2, <1>3, <1>4, <1>5, <1>6, FlowServer

LEMMA SetupFlow ==
  ASSUME Typed, Party, Flow,
         AcceptClient \/ RecvArgc \/ RecvWord \/ Dispatch \/ NetworkReturns \/ ServerExits
  PROVE  Flow'
<1>1. CASE ServerEnds
  <2>1. UNCHANGED <<req, client, handler, sock>> /\ conn'.s2c = conn.s2c
    BY <1>1, ServerEndsIs
  <2> QED
    BY <2>1, FlowIs, FlowKept DEF FlowParts, HoldsLast, Pending, Dry
<1>2. CASE ~ServerEnds
  <2>1. /\ UNCHANGED <<req, client, sock>> /\ handler.pc \in Early
        /\ handler'.pc \in Early \cup {"shut"}
    BY <1>2, AcceptClientIs, RecvArgcIs, RecvWordIs, DispatchIs, NetworkReturnsIs
       DEF ServerOnly, Early, ServerExits, Goes
  <2>2. handler.answer = "none"
    BY <2>1 DEF Party, Connection
  <2>3. handler'.answer = handler.answer /\ conn'.s2c = conn.s2c
    BY SilentKeeps, SilentWrites DEF SilentStep
  <2>4. HoldsLast' /\ Pending' = Pending
    BY <2>1 DEF HoldsLast, Pending, PutLabels, Early
  <2> QED
    BY <2>1, <2>2, <2>3, <2>4, FlowKept
<1> QED
  BY <1>1, <1>2

\* The handlers of other commands: the client of recv has gone.
LEMMA OtherFlow ==
  ASSUME Typed, Party, Flow, SendItem \/ GetPacket \/ Forward \/ Ack \/ LastCode
  PROVE  Flow'
<1>1. /\ UNCHANGED <<req, client>> /\ sock'.taken = sock.taken
      /\ handler.pc \in {"items"} \cup SendLabels
  BY SendItemIs, GetPacketIs, ForwardIs, AckIs, LastCodeIs
     DEF ServerOnly, NetworkOnly, SendLabels
<1>2. handler.answer # "none" /\ handler.cmd # "recv"
  BY <1>1 DEF Party, Connection, Heard, Early, Ending, SendLabels
<1>3. Recving => ~Live /\ ~Succeeded
  BY <1>2, Served
<1>4. sock'.taken \in Nat /\ sock.taken <= sock'.taken
  BY <1>1, SockFields
<1> QED
  BY <1>1, <1>3, <1>4, FlowServer

\* Where recv goes without a packet.
LEMMA GoesFlow ==
  ASSUME Typed, Party, Flow, NetworkOnly, Told, handler.pc \in RecvLabels,
         sock'.taken = sock.taken, sock'.arrived = sock.arrived, sock'.peer = sock.peer,
         \/ handler'.pc \in {"recv_end", "shut"}
         \/ handler'.pc \in RecvLabels /\ handler.pc \notin {"rest_end", "recv_end"}
  PROVE  Flow'
<1>1. handler.pc \notin PutLabels /\ handler'.pc \notin PutLabels
  BY DEF RecvLabels, PutLabels
<1>2. HoldsLast' /\ Pending' = Pending /\ Pending' = 0
  BY <1>1 DEF HoldsLast, Pending
<1>3. Dry => Dry'
  BY <1>2 DEF Dry, RecvLabels, Ending
<1> QED
  BY <1>2, <1>3, FlowKept DEF NetworkOnly, Told

\* recv returned.
LEMMA ReturnedFlow ==
  ASSUME Typed, Party, Flow, NetworkOnly, handler.pc \in {"drain", "chunk", "rest"},
         NEW size \in Nat, NEW waitall \in BOOLEAN, NEW n \in Received(size, waitall),
         NEW ret \in {"drained", "chunked", "rest_end"},
         NEW onError \in {"rest", "rest_end", "recv_end"},
         Returned(n, ret, onError), ret # "rest_end" => size # 0
  PROVE  Flow'
<1>1. /\ n \in Int /\ -1 <= n
      /\ n = 0 => size = 0 \/ (sock.peer # "open" /\ sock.taken = sock.arrived)
      /\ n >= 0 => sock.taken + n <= sock.arrived
  BY ReceivedIs
<1>2. CASE /\ n = -1 /\ UNCHANGED sock /\ handler'.pc = onError /\ Told
  BY <1>2, GoesFlow DEF RecvLabels
<1>3. CASE /\ n >= 0 /\ Begins(Run(sock.taken, n), ret)
           /\ sock'.taken = sock.taken + n
           /\ sock'.arrived = sock.arrived /\ sock'.peer = sock.peer
  <2>1. /\ UNCHANGED <<req, conn, client>>
        /\ handler'.pc = "put_head" /\ handler'.data = Run(sock.taken, n)
        /\ handler'.ret = ret /\ handler'.answer = handler.answer /\ handler'.cmd = handler.cmd
    BY <1>3 DEF Begins, Told, NetworkOnly
  <2>2. /\ sock.taken \in Nat /\ n \in Nat /\ sock'.taken \in Nat
        /\ sock.taken <= sock'.taken /\ sock'.taken - n = sock.taken
    BY <1>1, <1>3, SockFields
  <2>3. Len(handler'.data) = n /\ (handler'.data = <<>> => n = 0) /\ Pending' = n
    BY <2>1, <2>2, RunOf DEF Pending, PutLabels
  <2>4. HoldsLast'
    <3>1. n = 0 => ret = "rest_end" \/ (sock'.peer # "open" /\ sock'.taken = sock'.arrived)
      BY <1>1, <1>3, <2>2
    <3>2. Len(handler'.data) <= sock'.taken
      BY <1>3, <2>2, <2>3
    <3>3. handler'.data = Run(sock'.taken - Len(handler'.data), Len(handler'.data))
      BY <2>1, <2>2, <2>3
    <3> QED
      BY <2>1, <2>3, <3>1, <3>2, <3>3 DEF HoldsLast
  <2>5. Recving => FlowParts
    BY FlowIs
  <2>6. ASSUME Recving, Finishing \/ Succeeded
        PROVE  n = 0 /\ Dry' /\ sock'.taken = sock.taken /\ handler.cmd = "recv"
               /\ handler.answer # "none"
    <3>1. sock.peer # "open" /\ sock.taken = sock.arrived
      BY <2>5, <2>6 DEF FlowParts, Dry, Ending
    <3>2. n = 0
      BY <1>1, <2>2, <3>1, SockFields
    <3>3. handler.cmd = "recv" /\ handler.answer # "none"
      BY <2>6, Served DEF Finishing
    <3> QED
      BY <1>3, <2>2, <2>3, <3>1, <3>2, <3>3 DEF Dry
  <2>7. ASSUME Recving, Live PROVE Flowing'
    <3>1. Carries(conn.s2c, Len(client.stdout), sock.taken, sock.taken)
      <4>1. handler.pc \notin PutLabels
        BY DEF PutLabels
      <4>2. Pending = 0 /\ sock.taken - Pending = sock.taken
        BY <2>2, <4>1, PendingIs
      <4> QED
        BY <2>5, <2>7, <4>2 DEF FlowParts, Flowing
    <3>2. Carries(conn.s2c, Len(client.stdout), sock.taken, sock'.taken)
      <4>1. CASE Finishing
        BY <2>6, <2>7, <3>1, <4>1
      <4>2. CASE ~Finishing
        <5>1. conn.s2c \in Seq(Item)
          BY Parts
        <5>2. \A i \in 1..Len(conn.s2c) : ~Empty(conn.s2c[i])
          BY <2>7, <4>2, <5>1 DEF Finishing
        <5> QED
          BY <2>2, <3>1, <5>1, <5>2, CarriesMore
      <4> QED
        BY <4>1, <4>2
    <3> QED
      BY <2>1, <2>2, <2>3, <3>2 DEF Flowing
  <2>8. Finishing' => Finishing
    BY <2>1, SameClient DEF Finishing
  <2> QED
    BY <2>1, <2>2, <2>4, <2>6, <2>7, <2>8, FlowServer
<1> QED
  BY <1>2, <1>3 DEF Returned

LEMMA RecvFlow ==
  ASSUME Typed, Party, Flow,
         RecvSetup \/ Drain \/ RecvLoop \/ RecvChunk \/ RecvRest \/ RecvEnd
  PROVE  Flow'
<1>1. CASE RecvSetup \/ RecvLoop \/ RecvEnd
  BY <1>1, RecvSetupIs, RecvLoopIs, RecvEndIs, GoesFlow DEF RecvLabels, Goes
<1>2. Chunk \in Nat /\ Chunk # 0 /\ req.count % Chunk \in Nat
  BY Constants, CountTyped
<1>3. CASE Drain
  <2>1. CASE /\ handler.pc = "drain" /\ NetworkOnly
             /\ \E n \in Received(Chunk, FALSE) : Returned(n, "drained", "recv_end")
    BY <1>2, <2>1, ReturnedFlow
  <2>2. CASE /\ handler.pc = "drained" /\ UNCHANGED sock /\ NetworkOnly
             /\ \E l \in {"recv_end", "drain"} : Goes(l)
    BY <2>2, GoesFlow DEF RecvLabels, Goes
  <2> QED
    BY <1>3, <2>1, <2>2, DrainIs
<1>4. CASE RecvChunk
  <2>1. CASE /\ handler.pc = "chunk" /\ NetworkOnly
             /\ \E n \in Received(Chunk, req.mode = "blocking") : Returned(n, "chunked", "rest")
    BY <1>2, <2>1, ReturnedFlow
  <2>2. CASE /\ handler.pc = "chunked" /\ UNCHANGED sock /\ NetworkOnly
             /\ \E l \in {"recv_end", "loop"} : Goes(l)
    BY <2>2, GoesFlow DEF RecvLabels, Goes
  <2> QED
    BY <1>4, <2>1, <2>2, RecvChunkIs
<1>5. CASE RecvRest
  <2>1. CASE /\ handler.pc = "rest" /\ NetworkOnly
             /\ \E n \in Received(req.count % Chunk, req.mode = "blocking") :
                  Returned(n, "rest_end", "rest_end")
    BY <1>2, <2>1, ReturnedFlow
  <2>2. CASE handler.pc = "rest_end" /\ UNCHANGED sock /\ NetworkOnly /\ Goes("recv_end")
    BY <2>2, GoesFlow DEF RecvLabels, Goes
  <2>3. CASE /\ handler.pc = "rest_end" /\ UNCHANGED sock /\ NetworkOnly
             /\ Begins(<<>>, "recv_end")
    <3>1. /\ UNCHANGED <<req, conn, client, sock>> /\ Told
          /\ handler'.pc = "put_head" /\ handler'.data = <<>> /\ handler'.ret = "recv_end"
      BY <2>3 DEF Begins, NetworkOnly
    <3>2. Pending' = 0 /\ Pending = 0
      BY <2>3, <3>1 DEF Pending, PutLabels
    <3>3. HoldsLast'
      <4>1. sock.taken \in Nat /\ Len(<<>>) = 0 /\ sock.taken - 0 = sock.taken
        BY SockFields
      <4>2. Run(sock.taken, 0) = <<>>
        BY <4>1, RunOne
      <4> QED
        BY <3>1, <4>1, <4>2 DEF HoldsLast
    <3>4. Dry'
      BY <3>1, <3>2 DEF Dry
    <3> QED
      BY <3>1, <3>2, <3>3, <3>4, FlowKept DEF Told
  <2> QED
    BY <1>5, <2>1, <2>2, <2>3, RecvRestIs
<1> QED
  BY <1>1, <1>3, <1>4, <1>5

LEMMA CloseFlow ==
  ASSUME Typed, Party, Flow, CloseConnection \/ Peer
  PROVE  Flow'
<1>1. CASE CloseConnection
  <2>1. /\ UNCHANGED <<req, client, sock>> /\ conn'.s2c = conn.s2c /\ Told
        /\ handler.pc \in {"shut", "linger"} /\ handler'.pc \in {"linger", "done"}
    BY <1>1, CloseConnectionIs DEF ServerOnly, Goes
  <2>2. HoldsLast' /\ Pending' = Pending /\ Pending' = 0
    BY <2>1 DEF HoldsLast, Pending, PutLabels
  <2>3. Dry'
    BY <2>1, <2>2 DEF Dry, Ending
  <2> QED
    BY <2>1, <2>2, <2>3, FlowKept DEF Told
<1>2. CASE Peer
  <2>1. /\ UNCHANGED <<req, conn, client, handler>> /\ sock.peer = "open"
        /\ sock'.taken = sock.taken
    BY <1>2, PeerIs
  <2>2. Recving /\ Live => HoldsLast
    BY FlowIs DEF FlowParts
  <2>3. Recving /\ Live => HoldsLast'
    BY <2>1, <2>2 DEF HoldsLast
  <2>4. Pending' = Pending /\ (Dry => Dry')
    BY <2>1 DEF Dry, Pending
  <2> QED
    BY <2>1, <2>3, <2>4, FlowKept
<1> QED
  BY <1>1, <1>2

LEMMA ConnectFlow ==
  ASSUME Typed, Party, Connect
  PROVE  Flow'
<1>1. /\ client.pc = "start" /\ client'.pc = "words" /\ UNCHANGED <<handler, sock>>
      /\ client'.stdout = client.stdout /\ conn'.s2c = conn.s2c
  BY ConnectIs
<1>2. /\ sock'.taken = 0 /\ client'.stdout = <<>> /\ handler'.pc = "accept"
      /\ conn'.s2c = <<>>
  BY <1>1 DEF Party, Connection, Unused, Early
<1>3. Len(<<>>) = 0 /\ Run(0, 0) = <<>> /\ 0 \in Nat
  BY RunOne
<1>4. Pending' = 0 /\ HoldsLast'
  BY <1>2 DEF Pending, HoldsLast, PutLabels
<1>5. Flowing'
  <2>1. Carries(<<>>, 0, 0, 0)
    BY CarriesNone
  <2> QED
    BY <1>2, <1>3, <1>4, <2>1 DEF Flowing
<1>6. ~Finishing' /\ ~Succeeded'
  <2>1. DOMAIN <<>> = {}
    OBVIOUS
  <2> QED
    BY <1>1, <1>2, <2>1 DEF Finishing, Succeeded, Quitting
<1> QED
  BY <1>2, <1>3, <1>4, <1>5, <1>6 DEF Flow

LEMMA AnswerCodeFlow ==
  ASSUME Typed, Party, Flow, AnswerCode
  PROVE  Flow'
<1>1. PICK c \in Codes :
        SentCode(c) /\ handler'.pc = AfterCode(handler.cmd, c) /\ handler'.answer = c
  BY AnswerCodeIs
<1>2. handler.pc = "code" /\ UNCHANGED <<req, client, sock>>
  BY AnswerCodeIs DEF ServerOnly
<1>3. /\ handler.answer = "none" /\ conn.s2c = <<>>
      /\ Live => conn.c_open
      /\ conn.c_open => handler.cmd = req.cmd
  BY <1>2 DEF Party, Connection, Heard, Early, Live
<1>4. Recving => ~Succeeded /\ FlowParts
  BY <1>3, Served, FlowIs
<1>5. ASSUME Recving, Live PROVE HoldsLast' /\ Flowing' /\ ~Finishing'
  <2>1. handler'.pc \in {"recv", "shut"}
    BY <1>1, <1>3, <1>5 DEF AfterCode, Recving
  <2>2. HoldsLast' /\ Pending' = 0 /\ Pending = 0
    BY <1>2, <2>1 DEF HoldsLast, Pending, PutLabels
  <2>3. Code(c) \in Item /\ Code(c).kind = "code" /\ ~Empty(Code(c))
    BY CodeItem DEF Code, Empty
  <2>4. conn'.s2c = <<Code(c)>> /\ conn'.s2c = Append(conn.s2c, Code(c))
    BY <1>1, <1>3, <1>5, <2>3, Short DEF SentCode, ServerSends
  <2>5. ~Finishing'
    <3>1. DOMAIN <<Code(c)>> = {1} /\ <<Code(c)>>[1] = Code(c)
      OBVIOUS
    <3> QED
      BY <2>3, <2>4, <3>1 DEF Finishing
  <2>6. Flowing'
    <3>1. /\ sock.taken \in Nat /\ sock.taken - 0 = sock.taken /\ sock.taken + 0 = sock.taken
          /\ sock.taken <= sock.taken
      BY SockFields
    <3>2. Carries(conn.s2c, Len(client.stdout), sock.taken, sock.taken)
      BY <1>4, <1>5, <2>2, <3>1 DEF FlowParts, Flowing
    <3>3. Size(Code(c)) = 0
      BY <2>3, SizeIs
    <3>4. conn.s2c \in Seq(Item) /\ Len(client.stdout) \in Nat
      BY Parts, StdoutIs
    <3>5. Carries(Append(conn.s2c, Code(c)), Len(client.stdout), sock.taken + Size(Code(c)),
                  sock.taken)
      BY <2>3, <3>1, <3>2, <3>3, <3>4, CarriesPut
    <3> QED
      BY <1>2, <2>2, <2>4, <3>1, <3>3, <3>5 DEF Flowing
  <2> QED
    BY <2>2, <2>5, <2>6
<1>6. sock'.taken \in Nat /\ sock.taken <= sock'.taken
  BY <1>2, SockFields
<1> QED
  BY <1>2, <1>4, <1>5, <1>6, FlowServer

\* A packet of recv: its head, its body, or neither once the client has gone.
LEMMA SendPacketFlow ==
  ASSUME Typed, Party, Flow, SendPacket
  PROVE  Flow'
<1>1. /\ handler.pc \in PutLabels /\ UNCHANGED <<req, client, sock>>
      /\ handler.ret \in PutReturns /\ Told
      /\ handler'.data = handler.data /\ handler'.ret = handler.ret
  BY SendPacketIs, PutHeld DEF ServerOnly, Goes, Keeps
<1>2. /\ handler.answer # "none"
      /\ handler.cmd = "recv" => handler.ret \in {"drained", "chunked", "rest_end", "recv_end"}
      /\ Live => conn.c_open
  BY <1>1 DEF Party, Connection, Heard, Early, Ending, PutLabels, PutReturns, RecvLabels, Live
<1>3. Recving => FlowParts
  BY FlowIs
<1>4. Pending = Len(handler.data) /\ Pending \in Nat /\ (Pending = 0 <=> handler.data = <<>>)
  <2>1. handler.data \in Seq(Nat)
    BY HandlerFields DEF Typed
  <2> QED
    BY <1>1, <2>1, PendingIs
<1>5. sock.taken \in Nat /\ conn.s2c \in Seq(Item) /\ Len(client.stdout) \in Nat
  BY SockFields, Parts, StdoutIs
<1>6. ASSUME Recving, Succeeded PROVE Dry' /\ handler'.cmd = "recv" /\ handler'.answer # "none"
  <2>1. Dry /\ handler.cmd = "recv"
    BY <1>3, <1>6 DEF FlowParts
  <2>2. handler.data = <<>> /\ handler'.pc \in {handler.ret, "put_body"} 
    BY <1>4, <2>1, SendPacketIs DEF Dry, Goes
  <2>3. handler'.pc = handler.ret
    BY <1>1, <2>1, <2>2, SendPacketIs DEF Goes
  <2>4. Pending' = 0
    BY <1>2, <2>1, <2>3 DEF Pending, PutLabels
  <2>5. \/ sock.peer # "open" /\ sock.taken = sock.arrived
        \/ handler.pc = "put_head" /\ handler.ret = "recv_end"
    BY <1>1, <2>1 DEF Dry, PutLabels, Ending
  <2> QED
    BY <1>1, <1>2, <2>1, <2>3, <2>4, <2>5 DEF Dry, Told
<1>7. ASSUME Recving, Live
      PROVE  HoldsLast' /\ Flowing' /\ (Finishing' => Dry')
  <2>1. /\ HoldsLast /\ Carries(conn.s2c, Len(client.stdout), sock.taken - Pending, sock.taken)
        /\ Finishing => Dry
    BY <1>3, <1>7 DEF FlowParts, Flowing
  <2>2. handler.ret \in {"drained", "chunked", "rest_end", "recv_end"} /\ conn.c_open
    BY <1>2, <1>7, Served
  <2>3. /\ Pending <= sock.taken /\ sock.taken - Pending \in Nat
        /\ handler.data = Run(sock.taken - Pending, Pending)
        /\ Pending = 0 =>
             \/ handler.ret \in {"rest_end", "recv_end"}
             \/ sock.peer # "open" /\ sock.taken = sock.arrived
    BY <1>1, <1>4, <1>5, <2>1 DEF HoldsLast
  <2>4. handler'.pc # handler.ret => handler'.pc = "put_body"
    BY SendPacketIs DEF Goes
  <2>5. HoldsLast'
    BY <1>1, <2>1, <2>2, <2>4 DEF HoldsLast, PutLabels
  <2>6. ASSUME NEW x \in Item, ServerSends(x) PROVE
          /\ conn'.s2c = Append(conn.s2c, x)
          /\ Finishing' => Finishing \/ Empty(x)
    <3>1. conn'.s2c = Append(conn.s2c, x)
      BY <2>6 DEF ServerSends
    <3>2. /\ DOMAIN Append(conn.s2c, x) = 1..(Len(conn.s2c) + 1)
          /\ DOMAIN conn.s2c = 1..Len(conn.s2c) /\ Len(conn.s2c) \in Nat
      BY <1>5, Put
    <3>3. ASSUME NEW i \in DOMAIN Append(conn.s2c, x), Empty(Append(conn.s2c, x)[i]), ~Empty(x)
          PROVE  Finishing
      <4>1. i # Len(conn.s2c) + 1
        BY <1>5, <3>3, Put
      <4>2. i \in 1..Len(conn.s2c)
        BY <3>2, <4>1
      <4>3. Empty(conn.s2c[i])
        BY <1>5, <3>3, <4>2, Put
      <4> QED
        BY <1>7, <3>2, <4>2, <4>3 DEF Finishing
    <3> QED
      BY <3>1, <3>3 DEF Finishing
  <2>7. CASE /\ handler.pc = "put_head" /\ ServerSends(NmsHead(handler.data))
             /\ Goes(IF handler.data = <<>> THEN handler.ret ELSE "put_body")
    <3> DEFINE x == NmsHead(handler.data)
    <3>1. /\ x \in Item /\ x.kind = "head" /\ Length(x.len) = Len(handler.data)
      BY <1>1, PutHeld, HeadItem, LengthRoundTrip, Constants DEF NmsHead
    <3> HIDE DEF x
    <3>2. Size(x) = 0 /\ (Empty(x) <=> Pending = 0)
      BY <1>4, <3>1, SizeIs DEF Empty
    <3>3. Carries(Append(conn.s2c, x), Len(client.stdout), (sock.taken - Pending) + Size(x), sock.taken)
      <4>1. /\ (sock.taken - Pending) + Size(x) <= sock.taken
            /\ Pending = 0 => (sock.taken - Pending) + Size(x) = sock.taken
        BY <1>4, <1>5, <2>3, <3>2
      <4> QED
        BY <1>5, <2>1, <2>3, <3>1, <3>2, <4>1, CarriesPut
    <3>4. Pending' = Pending
      BY <1>1, <1>4, <2>2, <2>7 DEF Pending, PutLabels, Goes
    <3>5. Flowing'
      <4>1. (sock.taken - Pending) + Size(x) = sock.taken - Pending
        BY <1>4, <1>5, <3>2
      <4> QED
        BY <1>1, <2>6, <2>7, <3>1, <3>3, <3>4, <4>1 DEF Flowing, x
    <3>6. Finishing' => Dry'
      <4>1. ASSUME Finishing' PROVE Pending = 0
        BY <2>1, <2>6, <2>7, <3>1, <3>2, <4>1 DEF Dry, x
      <4>2. Pending = 0 => handler'.pc = handler.ret
        BY <1>4, <2>7 DEF Goes
      <4> QED
        BY <1>1, <2>3, <3>4, <4>1, <4>2 DEF Dry
    <3> QED
      BY <2>5, <3>5, <3>6
  <2>8. CASE handler.pc = "put_body" /\ ServerSends(Body(handler.data)) /\ Goes(handler.ret)
    <3> DEFINE x == Body(handler.data)
    <3>1. /\ x \in Item /\ x.kind = "body" /\ x.data = handler.data
      BY <1>1, PutHeld, BodyItem DEF Body
    <3> HIDE DEF x
    <3>2. Size(x) = Pending /\ ~Empty(x)
      BY <1>4, <3>1, SizeIs DEF Empty
    <3>3. (sock.taken - Pending) + Size(x) = sock.taken
      BY <1>4, <1>5, <3>2
    <3>4. Carries(Append(conn.s2c, x), Len(client.stdout), sock.taken, sock.taken)
      <4>1. Carries(Append(conn.s2c, x), Len(client.stdout), (sock.taken - Pending) + Size(x),
                    sock.taken)
        BY <1>5, <2>1, <2>3, <3>1, <3>2, <3>3, CarriesPut
      <4> QED
        BY <3>3, <4>1
    <3>5. Pending' = 0 /\ handler'.pc = handler.ret
      BY <2>2, <2>8 DEF Pending, PutLabels, Goes
    <3>6. Flowing'
      <4>1. sock'.taken - 0 = sock'.taken /\ sock'.taken = sock.taken
        BY <1>1, <1>5
      <4> QED
        BY <1>1, <2>6, <2>8, <3>1, <3>4, <3>5, <4>1 DEF Flowing, x
    <3>7. Finishing' => Dry'
      <4>1. Finishing' => Finishing
        BY <2>6, <2>8, <3>1, <3>2 DEF x
      <4>2. ASSUME Finishing'
            PROVE  sock.peer # "open" /\ sock.taken = sock.arrived
        BY <2>1, <2>8, <4>1, <4>2 DEF Dry, Ending
      <4> QED
        BY <1>1, <3>5, <4>2 DEF Dry
    <3> QED
      BY <2>5, <3>6, <3>7
  <2> QED
    BY <2>2, <2>7, <2>8, SendPacketIs
<1>8. sock'.taken \in Nat /\ sock.taken <= sock'.taken /\ sock'.taken = sock.taken
  BY <1>1, <1>5
<1> QED
  BY <1>1, <1>6, <1>7, <1>8, FlowServer

\* The client's steps that read nothing, and those that end it.
LEMMA FlowClientKept ==
  ASSUME Typed, Flow, ClientOnly, conn'.s2c = conn.s2c, client'.stdout = client.stdout,
         Recving => (Live' => Live) /\ (Succeeded' => Succeeded)
  PROVE  Flow'
<1> SUFFICES ASSUME Recving PROVE FlowParts'
  BY DEF Flow, Recving, FlowParts, ClientOnly
<1>1. FlowParts
  BY FlowIs
<1>2. UNCHANGED <<req, handler, sock>> /\ Pending' = Pending
  BY DEF ClientOnly, Pending
<1>3. (Flowing => Flowing') /\ (HoldsLast => HoldsLast') /\ (Dry => Dry')
  BY <1>2 DEF Flowing, HoldsLast, Dry
<1>4. Finishing' /\ Live => Finishing
  BY DEF Finishing
<1>5. Finishing' => Live'
  BY DEF Finishing
<1> QED
  BY <1>1, <1>2, <1>3, <1>4, <1>5 DEF FlowParts

\* The client takes an item off the stream.
LEMMA FlowTaken ==
  ASSUME Typed, Party, Flow, ClientOnly, Recving, Live, NEW kind, ClientReads(kind),
         client'.stdout \in Seq(Nat),
         client'.stdout = (IF kind = "body" THEN client.stdout \o conn.s2c[1].data
                                            ELSE client.stdout),
         Succeeded' => Empty(conn.s2c[1])
  PROVE  Flow'
<1> DEFINE x == conn.s2c[1]
           n == Len(client.stdout)
<1>1. /\ x \in Item /\ x.kind = kind /\ conn.s2c # <<>> /\ conn'.s2c = Tail(conn.s2c)
      /\ conn.s2c \in Seq(Item)
  BY Parts DEF ClientReads
<1>2. FlowParts
  BY FlowIs
<1>3. /\ n \in Nat /\ client.stdout = Run(0, n) /\ sock.taken \in Nat /\ Size(x) \in Nat
      /\ sock.taken - Pending \in Nat /\ Pending \in Nat
  <2>1. Pending <= sock.taken
    BY <1>2, SockFields, PendingIs DEF FlowParts, HoldsLast
  <2> QED
    BY <1>1, <1>2, <2>1, StdoutIs, SockFields, SizeIs, PendingIs DEF FlowParts
<1>4. /\ UNCHANGED <<req, handler, sock>> /\ Pending' = Pending
      /\ (HoldsLast => HoldsLast') /\ (Dry => Dry')
  BY DEF ClientOnly, Pending, HoldsLast, Dry
<1> HIDE DEF x, n
<1>5. Carries(conn.s2c, n, sock.taken - Pending, sock.taken)
  BY <1>2 DEF FlowParts, Flowing, n
<1>6. /\ Carries(Tail(conn.s2c), n + Size(x), sock.taken - Pending, sock.taken)
      /\ n + Size(x) <= sock.taken
      /\ x.kind = "body" => x.data = Run(n, Size(x))
      /\ Empty(x) => n + Size(x) = sock.taken
  BY <1>1, <1>3, <1>5, CarriesTaken DEF x
<1>7. client'.stdout = Run(0, n + Size(x)) /\ Len(client'.stdout) = n + Size(x)
  <2>1. CASE client'.stdout = client.stdout /\ kind # "body"
    <3>1. Size(x) = 0 /\ n + 0 = n
      BY <1>1, <1>3, <2>1, SizeIs
    <3> QED
      BY <1>3, <2>1, <3>1 DEF n
  <2>2. CASE client'.stdout = client.stdout \o x.data /\ kind = "body"
    <3>4. 0 \in Nat /\ 0 + n = n
      BY <1>3
    <3>1. client'.stdout = Run(0, n) \o Run(0 + n, Size(x))
      BY <1>1, <1>3, <1>6, <2>2, <3>4
    <3>2. client'.stdout = Run(0, n + Size(x))
      BY <1>3, <3>4, <3>1, RunAppend
    <3>3. n + Size(x) \in Nat
      BY <1>3
    <3> QED
      BY <3>4, <3>2, <3>3, RunOf
  <2> QED
    BY <2>1, <2>2 DEF x
<1>8. Flowing'
  BY <1>1, <1>4, <1>6, <1>7 DEF Flowing
<1>9. Finishing' => Finishing
  <2>1. /\ DOMAIN Tail(conn.s2c) = 1..(Len(conn.s2c) - 1) /\ DOMAIN conn.s2c = 1..Len(conn.s2c)
        /\ Len(conn.s2c) \in Nat
    BY <1>1, Take
  <2>2. ASSUME NEW i \in DOMAIN Tail(conn.s2c), Empty(Tail(conn.s2c)[i]) PROVE Finishing
    <3>1. i + 1 \in DOMAIN conn.s2c /\ Tail(conn.s2c)[i] = conn.s2c[i + 1]
      BY <1>1, <2>1, Take
    <3> QED
      BY <2>2, <3>1 DEF Finishing
  <2> QED
    BY <1>1, <2>2 DEF Finishing
<1>10. Succeeded' => Finishing /\ n + Size(x) = sock.taken
  <2>1. 1 \in DOMAIN conn.s2c
    BY <1>1, Take
  <2> QED
    BY <1>6, <2>1 DEF Finishing, x
<1>11. Finishing => handler.answer # "none" /\ handler.cmd = "recv"
  BY Served
<1> QED
  BY <1>2, <1>4, <1>6, <1>7, <1>8, <1>9, <1>10, <1>11
     DEF Flow, Recving, FlowParts

LEMMA ClientFlow ==
  ASSUME Typed, Typed', Party, Flow, ClientStep
  PROVE  Flow'
<1>1. ClientOnly
  BY ClientStepOnly
<1> SUFFICES ASSUME Recving PROVE Flow'
  BY <1>1 DEF Flow, Recving, ClientOnly
<1>2. ClientHandle(req.cmd) = "recv" /\ client'.stdout \in Seq(Nat)
  BY RecvingReads DEF Typed, TypeOK, ClientType
<1>3. CASE SendWord
  <2>1. /\ client.pc = "words" /\ conn'.s2c = conn.s2c /\ client'.stdout = client.stdout
        /\ client'.pc \in {"words", "code"} \/ client'.code = "E255"
    BY <1>2, <1>3, SendWordIs DEF ClientSends, ClientKeeps, ExitsWith, ClientGoes
  <2> QED
    BY <1>1, <2>1, FlowClientKept DEF Live, Succeeded, Quitting
<1>4. CASE ReadCode
  <2>1. PICK c \in Ends :
          /\ GotCode(c)
          /\ \/ c # "SUCCESS" /\ ExitsWith(c)
             \/ ClientGoes("head")
             \/ ExitsWith("CLIENT_OOM")
    BY <1>2, <1>4, ReadCodeIs
  <2>2. client.pc = "code" /\ Live /\ client'.stdout = client.stdout /\ ~Succeeded'
    BY <1>4, <2>1, ReadCodeIs DEF Live, Succeeded, Quitting, ExitsWith, ClientGoes, ClientKeeps
  <2>3. CASE ClientReads("code")
    <3>1. "code" # "body"
      OBVIOUS
    <3> QED
      BY <1>1, <1>2, <2>2, <2>3, <3>1, FlowTaken
  <2>4. CASE ClientHearsEnd
    BY <1>1, <2>2, <2>4, FlowClientKept DEF ClientHearsEnd
  <2> QED
    BY <2>1, <2>3, <2>4 DEF GotCode
<1>5. CASE ReadHead
  <2>1. client.pc = "head" /\ Live /\ client'.stdout = client.stdout
    BY <1>5, ReadHeadIs DEF Live, ExitsWith, ClientKeeps
  <2>2. \/ ClientReads("head") /\ (Succeeded' => Length(conn.s2c[1].len) = 0)
        \/ ClientHearsEnd /\ ~Succeeded'
    BY <1>5, ReadHeadIs DEF Succeeded, Quitting, ExitsWith
  <2>3. CASE ClientReads("head") /\ (Succeeded' => Length(conn.s2c[1].len) = 0)
    <3>1. (Succeeded' => Empty(conn.s2c[1])) /\ "head" # "body"
      BY <2>3 DEF ClientReads, Empty
    <3> QED
      BY <1>1, <1>2, <2>1, <2>3, <3>1, FlowTaken
  <2>4. CASE ClientHearsEnd /\ ~Succeeded'
    BY <1>1, <2>1, <2>4, FlowClientKept DEF ClientHearsEnd
  <2> QED
    BY <2>2, <2>3, <2>4
<1>6. CASE ReadBody
  <2>1. client.pc = "body" /\ Live /\ ~Succeeded'
    BY <1>2, <1>6, ReadBodyIs DEF Live, Succeeded, Quitting, ExitsWith
  <2>2. CASE ClientReads("body") /\ client'.stdout = client.stdout \o conn.s2c[1].data
    BY <1>1, <1>2, <2>1, <2>2, FlowTaken
  <2>3. CASE ClientHearsEnd /\ ExitsWith("IPC_ERROR")
    BY <1>1, <2>1, <2>3, FlowClientKept DEF ClientHearsEnd, ExitsWith, ClientKeeps
  <2> QED
    BY <1>6, <2>2, <2>3, ReadBodyIs
<1>7. CASE ReadStdin \/ PutPacket \/ ReadAck
  <2>1. client.pc \in {"stdin", "put_head", "put_body", "ack"}
    BY <1>7, ReadStdinIs, PutPacketIs, ReadAckIs
  <2> QED
    BY <1>2, <2>1 DEF Party, Heard
<1>8. CASE CloseClient \/ Kill
  <2>1. /\ client'.pc = "exited" /\ conn'.s2c = conn.s2c /\ client'.stdout = client.stdout
        /\ client'.code # "KILLED" => client.pc = "closing" /\ client'.code = client.code
    BY <1>8, ClientLeavesIs DEF ClientKeeps
  <2> QED
    BY <1>1, <2>1, FlowClientKept DEF Live, Succeeded, Quitting
<1> QED
  BY <1>3, <1>4, <1>5, <1>6, <1>7, <1>8, Zenon DEF ClientStep

LEMMA FlowStep == Typed /\ Typed' /\ Party /\ Flow /\ [Next]_vars => Flow'
<1> SUFFICES ASSUME Typed, Typed', Party, Flow, [Next]_vars PROVE Flow'
  OBVIOUS
<1>1. CASE UNCHANGED vars
  BY <1>1 DEF vars, Flow, HoldsLast, Flowing, Dry, Pending, Finishing, Succeeded, Quitting, Live
<1>2. CASE ClientStep
  BY <1>2, ClientFlow
<1>3. CASE AcceptClient \/ RecvArgc \/ RecvWord \/ Dispatch \/ NetworkReturns \/ ServerExits
  BY <1>3, SetupFlow
<1>4. CASE SendItem \/ GetPacket \/ Forward \/ Ack \/ LastCode
  BY <1>4, OtherFlow
<1>5. CASE RecvSetup \/ Drain \/ RecvLoop \/ RecvChunk \/ RecvRest \/ RecvEnd
  BY <1>5, RecvFlow
<1>6. CASE CloseConnection \/ Peer
  BY <1>6, CloseFlow
<1> QED
  BY <1>1, <1>2, <1>3, <1>4, <1>5, <1>6, Steps, ConnectFlow, AnswerCodeFlow, SendPacketFlow,
     Zenon DEF ClientStep

LEMMA FlowInvariant == Spec => [](Typed /\ Flow)
<1>1. Init => Flow
  BY DEF Init, Flow, NoRequest
<1> QED
  BY <1>1, InStepsInvariant, FlowStep, PTL DEF Spec

LEMMA FlowDelivers == Typed /\ Flow => RecvDelivers
<1> SUFFICES ASSUME Typed, Flow, Recving PROVE
      LET taken == [i \in 1..sock.taken |-> i] IN
        /\ IsPrefix(client.stdout, taken)
        /\ Ended({"SUCCESS"}) => client.stdout = taken
  BY DEF RecvDelivers, Recving
<1> DEFINE n == Len(client.stdout)
           m == sock.taken
           all == [i \in 1..m |-> i]
<1>1. /\ client.stdout = Run(0, n) /\ n <= m /\ n \in Nat /\ m \in Nat
      /\ Succeeded => n = m
  BY FlowIs, StdoutIs, SockFields DEF FlowParts
<1> HIDE DEF n, m
<1>2. all = Run(0, m)
  BY <1>1 DEF Run
<1>3. Ended({"SUCCESS"}) => client.stdout = all
  BY <1>1, <1>2 DEF Ended, Succeeded, Quitting
<1>4. /\ all \in Seq(Nat) /\ Len(all) = m /\ \A i \in 1..m : all[i] = i
  BY <1>1
<1>5. SubSeq(all, 1, n) = Run(0, n)
  <2>1. Run(0, n) \in Seq(Nat) /\ Len(Run(0, n)) = n /\ \A i \in 1..n : Run(0, n)[i] = i
    <3>1. 0 \in Nat /\ \A i \in 1..n : 0 + i = i
      OBVIOUS
    <3> QED
      BY <1>1, <3>1, RunOf
  <2> HIDE DEF all
  <2>2. /\ SubSeq(all, 1, n) \in Seq(Nat) /\ Len(SubSeq(all, 1, n)) = n
        /\ \A i \in 1..n : SubSeq(all, 1, n)[i] = i
    BY <1>1, <1>4
  <2> QED
    BY <2>1, <2>2, SeqEqual
<1>6. IsPrefix(client.stdout, all)
  <2>1. client.stdout \in Seq(Nat) /\ SubSeq(client.stdout, 1, n) \in Seq(Nat)
        /\ Len(SubSeq(client.stdout, 1, n)) = n
        /\ \A i \in 1..n : SubSeq(client.stdout, 1, n)[i] = client.stdout[i]
    BY <1>1, StdoutIs DEF n
  <2>2. SubSeq(client.stdout, 1, n) = client.stdout
    BY <2>1, SeqEqual DEF n
  <2> QED
    BY <1>1, <1>4, <1>5, <2>2 DEF IsPrefix, n
<1> QED
  BY <1>3, <1>6 DEF m

\* recv loses nothing and adds nothing: what the client wrote is what the
\* handler took from the socket, up to where the client has read, and all of it
\* when the client ends well (server_cmd_recv, client_handle_recv).
THEOREM RecvInOrder == Spec => []RecvDelivers
BY FlowInvariant, FlowDelivers, PTL

-----------------------------------------------------------------------------
(* recv with a count below the size of the buffer.                         *)

Counting == req.cmd = "recv" /\ req.mode # "drain"
Blocking == req.mode = "blocking"

CountedParts ==
  /\ handler.pc \notin {"drain", "drained", "chunk", "chunked"}
  /\ handler.pc \in PutLabels => handler.ret \notin {"drained", "chunked"}
  /\ handler.pc \in Early \cup {"recv", "loop", "rest"} => sock.taken = 0
  /\ handler.pc = "loop" => handler.recv_count = 0 /\ handler.received = 0
  /\ sock.taken <= req.count

\* recv has returned all it was asked for, or will not.
Returning ==
  \/ handler.pc = "rest_end"
  \/ handler.pc \in PutLabels /\ handler.ret \in {"rest_end", "recv_end"}

RestedParts ==
  Blocking =>
    /\ handler.pc \in {"loop", "rest"} => sock.blocking
    /\ Returning \/ Finishing \/ Succeeded => Rested

LEMMA CountedIs == Counted <=> (Counting => CountedParts /\ RestedParts)
BY DEF Counted, Counting, CountedParts, RestedParts, Blocking, Returning

LEMMA SmallDivision ==
  ASSUME NEW c \in Nat, NEW k \in Nat, c < k
  PROVE  c \div k = 0 /\ c % k = c
<1>1. c \div k = 0
  OBVIOUS
<1>2. c % k = c
  OBVIOUS
<1> QED
  BY <1>1, <1>2

LEMMA CountIs ==
  ASSUME Typed, CountsFit
  PROVE  /\ req.count \in Nat /\ req.count % Chunk = req.count /\ req.count \div Chunk = 0
<1>1. req.count \in Counts \cup {0}
  BY DEF Typed, TypeOK, Request, NoRequest
<1>2. req.count \in Nat /\ Chunk \in Nat /\ Chunk >= 1
  BY Constants, CountTyped
<1>3. req.count < Chunk
  <2>1. CASE req.count = 0
    BY <1>2, <2>1
  <2>2. CASE req.count \in Counts
    BY <2>2, Zenon DEF CountsFit
  <2> QED
    BY <1>1, <2>1, <2>2, Zenon
<1> QED
  BY <1>2, <1>3, SmallDivision

\* The end of the packets is read, or not yet written.
LEMMA ClientFinishing ==
  ASSUME Typed, Party, ClientStep, Recving
  PROVE  (Finishing' => Finishing) /\ (Succeeded' => Finishing \/ Succeeded)
<1>1. ClientHandle(req.cmd) = "recv"
  BY RecvingReads
<1>2. \/ conn'.s2c = conn.s2c /\ (Live' => Live) /\ (Succeeded' => Succeeded)
      \/ /\ \E kind : ClientReads(kind)
         /\ Live /\ (Succeeded' => Empty(conn.s2c[1]))
  <2>1. CASE SendWord
    BY <1>1, <2>1, SendWordIs
       DEF ClientSends, ExitsWith, ClientGoes, Live, Succeeded, Quitting
  <2>2. CASE ReadCode
    BY <1>1, <2>2, ReadCodeIs
       DEF GotCode, ClientHearsEnd, ExitsWith, ClientGoes, Live, Succeeded, Quitting
  <2>3. CASE ReadHead
    <3>1. client.pc = "head"
      BY <2>3, ReadHeadIs
    <3>2. \/ ClientReads("head") /\ (Succeeded' => Length(conn.s2c[1].len) = 0)
          \/ ClientHearsEnd /\ ~Succeeded'
      BY <2>3, ReadHeadIs DEF Succeeded, Quitting, ExitsWith
    <3> QED
      BY <3>1, <3>2 DEF ClientHearsEnd, ClientReads, Empty, Live, Succeeded, Quitting
  <2>4. CASE ReadBody
    BY <1>1, <2>4, ReadBodyIs DEF ClientHearsEnd, ExitsWith, Live, Succeeded, Quitting
  <2>5. CASE ReadStdin \/ PutPacket \/ ReadAck
    <3>1. client.pc \in {"stdin", "put_head", "put_body", "ack"}
      BY <2>5, ReadStdinIs, PutPacketIs, ReadAckIs
    <3> QED
      BY <1>1, <3>1 DEF Party, Heard
  <2>6. CASE CloseClient \/ Kill
    BY <2>6, ClientLeavesIs DEF Live, Succeeded, Quitting
  <2> QED
    BY <2>1, <2>2, <2>3, <2>4, <2>5, <2>6, Zenon DEF ClientStep
<1>3. CASE conn'.s2c = conn.s2c /\ (Live' => Live) /\ (Succeeded' => Succeeded)
  BY <1>3 DEF Finishing
<1>4. ASSUME NEW kind, ClientReads(kind), Live, Succeeded' => Empty(conn.s2c[1])
      PROVE  (Finishing' => Finishing) /\ (Succeeded' => Finishing)
  <2>1. /\ conn.s2c \in Seq(Item) /\ conn.s2c # <<>> /\ conn'.s2c = Tail(conn.s2c)
    BY <1>4, Parts DEF ClientReads
  <2>2. /\ DOMAIN Tail(conn.s2c) = 1..(Len(conn.s2c) - 1) /\ DOMAIN conn.s2c = 1..Len(conn.s2c)
        /\ Len(conn.s2c) \in Nat /\ 1 \in DOMAIN conn.s2c
    BY <2>1, Take
  <2>3. ASSUME NEW i \in DOMAIN Tail(conn.s2c), Empty(Tail(conn.s2c)[i]) PROVE Finishing
    <3>1. i + 1 \in DOMAIN conn.s2c /\ Tail(conn.s2c)[i] = conn.s2c[i + 1]
      BY <2>1, <2>2, Take
    <3> QED
      BY <1>4, <2>3, <3>1 DEF Finishing
  <2>4. Finishing' => Finishing
    BY <2>1, <2>3 DEF Finishing
  <2>5. Empty(conn.s2c[1]) => Finishing
    BY <1>4, <2>2 DEF Finishing
  <2> QED
    BY <1>4, <2>4, <2>5
<1> QED
  BY <1>2, <1>3, <1>4

LEMMA CodeFinishing ==
  ASSUME Typed, UNCHANGED client, NEW c \in Codes, SentCode(c)
  PROVE  Finishing' => Finishing
<1>1. CASE conn'.s2c = conn.s2c
  BY <1>1, SameClient DEF Finishing, Live
<1>2. CASE conn'.s2c = Append(conn.s2c, Code(c))
  <2> DEFINE q == conn.s2c
             x == Code(c)
  <2>1. q \in Seq(Item) /\ x \in Item /\ ~Empty(x)
    BY Parts, CodeItem DEF Code, Empty
  <2> HIDE DEF x
  <2>2. /\ DOMAIN Append(q, x) = 1..(Len(q) + 1) /\ DOMAIN q = 1..Len(q) /\ Len(q) \in Nat
    BY <2>1, Put
  <2>3. ASSUME NEW i \in DOMAIN Append(q, x), Empty(Append(q, x)[i])
        PROVE  i \in DOMAIN q /\ Empty(q[i])
    <3>1. i # Len(q) + 1
      BY <2>1, <2>3, Put
    <3>2. i \in 1..Len(q)
      BY <2>2, <3>1
    <3> QED
      BY <2>1, <2>2, <2>3, <3>2, Put
  <2>4. Live' => Live
    BY DEF Live
  <2> QED
    BY <1>2, <2>3, <2>4 DEF Finishing, x
<1> QED
  BY <1>1, <1>2 DEF SentCode, ServerSends

\* The steps that take nothing from the socket.
LEMMA CountedGoes ==
  ASSUME Typed, Counted, UNCHANGED <<req, client>>,
         sock'.taken = sock.taken, sock'.peer \in {sock.peer, "reset"} \/ sock.peer = "open",
         Counting => handler'.pc \notin {"drain", "drained", "chunk", "chunked"},
         Counting /\ handler'.pc \in PutLabels => handler'.ret \notin {"drained", "chunked"},
         Counting /\ handler'.pc \in Early \cup {"recv", "loop", "rest"} =>
           handler.pc \in Early \cup {"recv", "loop", "rest"},
         Counting /\ handler'.pc = "loop" => handler'.recv_count = 0 /\ handler'.received = 0,
         Counting /\ Blocking /\ handler'.pc \in {"loop", "rest"} => sock'.blocking,
         Counting /\ Returning' => Returning,
         Counting /\ Finishing' => Finishing \/ Returning
  PROVE  Counted'
<1> SUFFICES ASSUME Counting PROVE CountedParts' /\ RestedParts'
  BY DEF Counted, Counting, CountedParts, RestedParts, Blocking, Returning
<1>1. CountedParts /\ RestedParts
  BY CountedIs
<1>2. Succeeded' <=> Succeeded
  BY SameClient
<1>3. CountedParts'
  BY <1>1 DEF CountedParts
<1>4. Rested => Rested'
  BY DEF Rested
<1> QED
  BY <1>1, <1>2, <1>3, <1>4 DEF RestedParts, Blocking

LEMMA SilentFinishing ==
  ASSUME Typed, Party, SilentStep
  PROVE  UNCHANGED <<req, client>> /\ (Finishing' => Finishing)
BY SilentWrites DEF Finishing, Live

LEMMA SetupCounted ==
  ASSUME Typed, Party, Counted,
         AcceptClient \/ RecvArgc \/ RecvWord \/ Dispatch \/ NetworkReturns \/ ServerExits
  PROVE  Counted'
<1>1. UNCHANGED <<req, client>> /\ (Finishing' => Finishing)
  BY SilentFinishing DEF SilentStep
<1>2. CASE ServerEnds
  <2>1. UNCHANGED <<handler, sock>>
    BY <1>2, ServerEndsIs
  <2> QED
    BY <1>1, <2>1, CountedIs, CountedGoes DEF CountedParts, RestedParts, Returning
<1>3. CASE ~ServerEnds
  <2>1. UNCHANGED sock /\ handler.pc \in Early /\ handler'.pc \in Early \cup {"shut"}
    BY <1>3, AcceptClientIs, RecvArgcIs, RecvWordIs, DispatchIs, NetworkReturnsIs
       DEF ServerOnly, Early, ServerExits, Goes
  <2> QED
    BY <1>1, <2>1, CountedGoes DEF Early, PutLabels, Returning
<1> QED
  BY <1>2, <1>3

LEMMA AnswerCodeCounted ==
  ASSUME Typed, Party, Counted, AnswerCode
  PROVE  Counted'
<1>1. PICK c \in Codes :
        SentCode(c) /\ handler'.pc = AfterCode(handler.cmd, c) /\ handler'.ret = "shut"
  BY AnswerCodeIs
<1>2. handler.pc = "code" /\ UNCHANGED <<req, client, sock>>
  BY AnswerCodeIs DEF ServerOnly
<1>3. handler'.pc \in {"put_head", "items", "recv", "get_head", "shut"}
  BY <1>1 DEF AfterCode
<1>4. Finishing' => Finishing
  BY <1>1, <1>2, CodeFinishing
<1> QED
  BY <1>1, <1>2, <1>3, <1>4, CountedGoes DEF Early, PutLabels, Returning

LEMMA OtherCounted ==
  ASSUME Typed, Party, Counted, SendItem \/ GetPacket \/ Forward \/ Ack \/ LastCode
  PROVE  Counted'
<1>1. /\ UNCHANGED <<req, client>> /\ sock'.taken = sock.taken
      /\ sock'.peer \in {sock.peer, "reset"}
      /\ \/ handler'.pc \in SendLabels \cup {"shut"}
         \/ handler'.pc = "put_head" /\ handler'.ret \in {"items", "shut"}
  BY SendItemIs, GetPacketIs, ForwardIs, AckIs, LastCodeIs, SendHeld
     DEF ServerOnly, NetworkOnly, SendLabels, GetReturns, Begins, Goes
<1>2. Finishing' => Finishing
  <2>1. CASE SendItem \/ GetPacket \/ Forward
    BY <2>1, SilentFinishing DEF SilentStep
  <2>2. CASE Ack \/ LastCode
    <3>1. handler.status \in Codes /\ "SUCCESS" \in Codes
      BY HandlerFields DEF Typed, Codes
    <3> QED
      BY <1>1, <2>2, <3>1, AckIs, LastCodeIs, CodeFinishing
  <2> QED
    BY <2>1, <2>2
<1> QED
  BY <1>1, <1>2, CountedGoes DEF Early, PutLabels, SendLabels, Returning

LEMMA SendPacketCounted ==
  ASSUME Typed, Party, Counted, SendPacket
  PROVE  Counted'
<1>1. /\ handler.pc \in PutLabels /\ UNCHANGED <<req, client, sock>>
      /\ handler.ret \in PutReturns /\ handler'.ret = handler.ret
      /\ handler'.pc \in {handler.ret, "put_body"}
  BY SendPacketIs, PutHeld DEF ServerOnly, Goes, Keeps
<1>2. Counting => handler.ret \in {"shut", "items", "rest_end", "recv_end"}
  BY <1>1, CountedIs DEF CountedParts, PutReturns
<1>3. Counting /\ Finishing' => Returning
  <2>1. Finishing' => Live
    BY <1>1, SameClient DEF Finishing
  <2>2. handler.answer # "none" /\ (Live => conn.c_open)
    BY <1>1 DEF Party, Connection, Early, Ending, PutLabels, Live
  <2>3. Counting /\ Live => handler.cmd = "recv"
    BY <2>2 DEF Party, Heard, Counting
  <2>4. handler.cmd = "recv" => handler.ret \in RecvLabels
    BY <1>1 DEF Party, Heard
  <2> QED
    BY <1>1, <1>2, <2>1, <2>3, <2>4 DEF Returning, RecvLabels
<1> QED
  BY <1>1, <1>2, <1>3, CountedGoes DEF Early, PutLabels, Returning

LEMMA RecvCounted ==
  ASSUME Typed, Party, CountsFit, Counted,
         RecvSetup \/ Drain \/ RecvLoop \/ RecvChunk \/ RecvEnd
  PROVE  Counted'
<1>1. UNCHANGED <<req, client>> /\ (Finishing' => Finishing)
  BY SilentFinishing DEF SilentStep
<1>2. Counting => CountedParts /\ RestedParts
  BY CountedIs
<1>3. CASE RecvSetup
  <2>1. /\ handler.pc = "recv" /\ sock'.taken = sock.taken /\ sock'.peer = sock.peer
        /\ Counting => handler'.pc = "loop"
        /\ handler'.pc \in {"loop", "drain"}
        /\ handler'.received = 0 /\ handler'.recv_count = 0
        /\ sock'.blocking = Blocking
    BY <1>3, RecvSetupIs, CountIs DEF Counting, Blocking
  <2> QED
    BY <1>1, <2>1, CountedGoes DEF PutLabels, Returning
<1>4. CASE RecvLoop
  <2>1. /\ handler.pc = "loop" /\ UNCHANGED sock
        /\ handler'.pc = (IF handler.recv_count # 0 \/ handler.received = Chunk
                          THEN "chunk" ELSE "rest")
    BY <1>4, RecvLoopIs
  <2>2. Counting => handler'.pc = "rest"
    BY <1>2, <2>1, Constants DEF CountedParts
  <2>3. Counting /\ Blocking => sock.blocking
    BY <1>2, <2>1 DEF RestedParts
  <2> QED
    BY <1>1, <2>1, <2>2, <2>3, CountedGoes DEF PutLabels, Returning
<1>5. CASE RecvEnd
  BY <1>1, <1>5, RecvEndIs, CountedGoes DEF Goes, Early, PutLabels, Returning
<1>6. CASE Drain \/ RecvChunk
  <2>1. handler.pc \in {"drain", "drained", "chunk", "chunked"}
    BY <1>6, DrainIs, RecvChunkIs
  <2>2. ~Counting
    BY <1>2, <2>1 DEF CountedParts
  <2> QED
    BY <1>1, <2>2 DEF Counted, Counting
<1> QED
  BY <1>3, <1>4, <1>5, <1>6

\* The bytes that remain, and the empty packet that ends them.
LEMMA RecvRestCounted ==
  ASSUME Typed, Party, CountsFit, Counted, RecvRest
  PROVE  Counted'
<1>1. UNCHANGED <<req, client>> /\ (Finishing' => Finishing)
  BY SilentFinishing DEF SilentStep
<1>2. Counting => CountedParts /\ RestedParts
  BY CountedIs
<1>3. CASE handler.pc = "rest_end" /\ UNCHANGED sock /\ Goes("recv_end")
  BY <1>1, <1>3, CountedGoes DEF Goes, Early, PutLabels, Returning
<1>4. CASE handler.pc = "rest_end" /\ UNCHANGED sock /\ Begins(<<>>, "recv_end")
  BY <1>1, <1>4, CountedGoes DEF Begins, Early, PutLabels, Returning
<1>5. CASE /\ handler.pc = "rest"
           /\ \E n \in Received(req.count % Chunk, req.mode = "blocking") :
                Returned(n, "rest_end", "rest_end")
  <2> SUFFICES ASSUME Counting PROVE CountedParts' /\ RestedParts'
    BY <1>1 DEF Counted, Counting, CountedParts, RestedParts, Blocking, Returning
  <2>1. req.count \in Nat /\ req.count % Chunk = req.count
    BY CountIs
  <2>2. PICK n \in Received(req.count, Blocking) : Returned(n, "rest_end", "rest_end")
    BY <1>5, <2>1 DEF Blocking
  <2>3. /\ n \in Int /\ -1 <= n /\ n <= req.count
        /\ n = -1 /\ sock.blocking => sock.peer # "open"
        /\ n >= 0 /\ Blocking /\ sock.blocking => n = req.count \/ sock.peer # "open"
    <3>1. Blocking \in BOOLEAN
      BY DEF Blocking
    <3> QED
      BY <2>1, <2>2, <3>1, ReceivedIs
  <2>4. sock.taken = 0 /\ (Blocking => sock.blocking)
    BY <1>2, <1>5 DEF CountedParts, RestedParts
  <2>5. /\ sock'.taken \in {0, n} /\ 0 <= sock'.taken /\ sock'.taken <= req.count
        /\ n >= 0 => sock'.taken = n
        /\ sock'.peer = sock.peer
    BY <2>1, <2>2, <2>3, <2>4 DEF Returned
  <2>6. Blocking => Rested'
    BY <1>1, <2>3, <2>4, <2>5 DEF Rested
  <2>7. handler'.pc = "rest_end" \/ (handler'.pc = "put_head" /\ handler'.ret = "rest_end")
    BY <2>2 DEF Returned, Begins
  <2>8. CountedParts'
    BY <1>1, <2>5, <2>7 DEF CountedParts, Early, PutLabels
  <2>9. RestedParts'
    BY <1>1, <2>6, <2>7 DEF RestedParts, Blocking
  <2> QED
    BY <2>8, <2>9
<1> QED
  BY <1>3, <1>4, <1>5, RecvRestIs

LEMMA CloseCounted ==
  ASSUME Typed, Party, Counted, CloseConnection \/ Peer
  PROVE  Counted'
<1>1. UNCHANGED <<req, client>> /\ (Finishing' => Finishing)
  BY SilentFinishing DEF SilentStep
<1>2. CASE CloseConnection
  BY <1>1, <1>2, CloseConnectionIs, CountedGoes
     DEF ServerOnly, Goes, Early, PutLabels, Returning
<1>3. CASE Peer
  <2>1. /\ UNCHANGED handler /\ sock.peer = "open" /\ sock'.taken = sock.taken
        /\ sock'.blocking = sock.blocking
    BY <1>3, PeerIs
  <2> QED
    BY <1>1, <2>1, CountedIs, CountedGoes DEF CountedParts, RestedParts, Returning
<1> QED
  BY <1>2, <1>3

LEMMA ConnectCounted ==
  ASSUME Typed, Party, Connect
  PROVE  Counted'
<1>1. /\ client.pc = "start" /\ client'.pc = "words" /\ UNCHANGED <<handler, sock>>
      /\ conn'.s2c = conn.s2c /\ req' \in Request
  BY ConnectIs
<1>2. sock'.taken = 0 /\ handler'.pc = "accept" /\ conn'.s2c = <<>>
  BY <1>1 DEF Party, Connection, Unused, Early
<1>3. ~Finishing' /\ ~Succeeded'
  <2>1. DOMAIN <<>> = {}
    OBVIOUS
  <2> QED
    BY <1>1, <1>2, <2>1 DEF Finishing, Succeeded, Quitting
<1>4. 0 <= req'.count
  <2>1. req'.count \in Counts \cup {0}
    BY <1>1 DEF Request
  <2>2. Counts \subseteq Nat /\ 0 \in Nat
    BY Constants
  <2>3. req'.count \in Nat
    BY <2>1, <2>2
  <2> QED
    BY <2>3
<1> QED
  BY <1>2, <1>3, <1>4 DEF Counted, PutLabels

LEMMA CountedStep == Typed /\ Party /\ CountsFit /\ Counted /\ [Next]_vars => Counted'
<1> SUFFICES ASSUME Typed, Party, CountsFit, Counted, [Next]_vars PROVE Counted'
  OBVIOUS
<1>1. CASE UNCHANGED vars
  BY <1>1 DEF vars, Counted, Rested, Finishing, Succeeded, Quitting, Live
<1>2. CASE ClientStep
  <2>1. ClientOnly
    BY <1>2, ClientStepOnly
  <2> SUFFICES ASSUME Counting PROVE CountedParts' /\ RestedParts'
    BY <2>1 DEF Counted, Counting, CountedParts, RestedParts, Blocking, Returning, ClientOnly
  <2>2. (Finishing' => Finishing) /\ (Succeeded' => Finishing \/ Succeeded)
    BY <1>2, ClientFinishing DEF Counting, Recving
  <2>3. CountedParts /\ RestedParts
    BY CountedIs
  <2> QED
    BY <2>1, <2>2, <2>3 DEF CountedParts, RestedParts, Returning, Rested, Blocking, ClientOnly
<1>3. CASE AcceptClient \/ RecvArgc \/ RecvWord \/ Dispatch \/ NetworkReturns \/ ServerExits
  BY <1>3, SetupCounted
<1>4. CASE SendItem \/ GetPacket \/ Forward \/ Ack \/ LastCode
  BY <1>4, OtherCounted
<1>5. CASE RecvSetup \/ Drain \/ RecvLoop \/ RecvChunk \/ RecvEnd
  BY <1>5, RecvCounted
<1>6. CASE CloseConnection \/ Peer
  BY <1>6, CloseCounted
<1> QED
  BY <1>1, <1>2, <1>3, <1>4, <1>5, <1>6, Steps, ConnectCounted, AnswerCodeCounted,
     SendPacketCounted, RecvRestCounted, Zenon DEF ClientStep

\* recv with a count takes no more than count bytes and, when it ends well on a
\* blocking socket whose stream goes on, no fewer, provided that the count is
\* below the size of the buffer.  From there on a full buffer keeps the loop of
\* server_cmd_recv going past the count (the run RecvCount).
THEOREM RecvTakesCount ==
  ASSUME CountsFit
  PROVE  Spec => []TakesCount
<1>1. Init => Counted
  BY DEF Init, Counted, NoRequest
<1>2. Typed /\ Party /\ Counted /\ [Next]_vars => Counted'
  BY CountedStep
<1>3. Counted => TakesCount
  BY DEF Counted, TakesCount, Rested, Succeeded, Quitting, Ended
<1> QED
  BY <1>1, <1>2, <1>3, InStepsInvariant, PTL DEF Spec

=============================================================================
