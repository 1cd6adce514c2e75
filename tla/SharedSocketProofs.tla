------------------------- MODULE SharedSocketProofs -------------------------
(***************************************************************************)
(* Proofs about SharedSocket for any handlers, commands, bytes and sizes.  *)
(***************************************************************************)
EXTENDS SharedSocket, TLAPS

\* A handler at a label of one group of commands runs one of them, and a
\* receive has not taken more than it was asked for.
Fits ==
  \A h \in Handler :
    /\ pc[h] \in {"packet", "send", "sending", "sent"} => job[h] \in Senders
    /\ pc[h] \in {"setup", "recv", "receiving", "received"} => job[h] \in Receivers
    /\ pc[h] = "receiving" => Len(local[h].buf) <= local[h].want

LEMMA ConstantsType ==
  /\ Chunk \in Nat /\ Count \in Nat
  /\ Packets \in Nat /\ PacketLength \in Nat /\ Room \in Nat
  /\ Len(Inbound) \in Nat
  /\ \A i \in 1..Len(Inbound) : Inbound[i] \in Nat
  /\ Garbage \subseteq Nat
<1>1. /\ Chunk \in Nat /\ Count \in Nat
      /\ Packets \in Nat /\ PacketLength \in Nat /\ Room \in Nat
  BY SharedSocketAssumption
<1>2. Inbound \in Seq(Byte)
  BY SharedSocketAssumption
<1>3. Garbage \subseteq Uint16
  BY SharedSocketAssumption
<1>4. Byte \subseteq Nat
  BY DEF Byte
<1>5. Uint16 \subseteq Nat
  BY DEF Uint16
<1>6. Garbage \subseteq Nat
  BY <1>3, <1>5
<1>7. Len(Inbound) \in Nat /\ \A i \in 1..Len(Inbound) : Inbound[i] \in Byte
  BY <1>2
<1> QED BY <1>1, <1>4, <1>6, <1>7

-----------------------------------------------------------------------------
(* A handler's variables: what they are and what they may become.           *)

LEMMA SmallerType ==
  ASSUME NEW m \in Nat, NEW n \in Nat
  PROVE  Smaller(m, n) \in Nat /\ Smaller(m, n) <= m /\ Smaller(m, n) <= n
BY DEF Smaller

LEMMA PairOfSeq ==
  ASSUME NEW n \in Nat, NEW s \in Seq(1..n), Len(s) = 2
  PROVE  s[1] \in 1..n /\ s[2] \in 1..n
OBVIOUS

LEMMA ConcatLen ==
  ASSUME NEW s \in Seq(1..Len(Inbound)), NEW t \in Seq(Int)
  PROVE  Len(s \o t) = Len(s) + Len(t)
OBVIOUS

LEMMA ConcatElements ==
  ASSUME NEW s \in Seq(Handler \X Nat), NEW t \in Seq(Handler \X Nat)
  PROVE  /\ Len(s) \in Nat
         /\ Len(s \o t) = Len(s) + Len(t)
         /\ \A k \in 1..Len(s) : (s \o t)[k] = s[k]
         /\ \A k \in 1..Len(t) : (s \o t)[Len(s) + k] = t[k]
OBVIOUS

LEMMA LocalsFields ==
  ASSUME NEW l \in Locals
  PROVE  /\ l.wait \in BOOLEAN /\ l.head \in BOOLEAN /\ l.fail \in BOOLEAN
         /\ l.want \in Nat
         /\ l.buf \in Seq(1..Len(Inbound))
         /\ l.packets \in 0..Packets
         /\ l.left \in 0..(PacketLength + 2)
         /\ l.pos \in Nat
         /\ l.acked \in Nat
BY DEF Locals

LEMMA LocalsWait ==
  ASSUME NEW l \in Locals, NEW b \in BOOLEAN
  PROVE  [l EXCEPT !.wait = b] \in Locals
BY DEF Locals

LEMMA LocalsCall ==
  ASSUME NEW l \in Locals, NEW b \in BOOLEAN
  PROVE  [l EXCEPT !.wait = b, !.buf = <<>>, !.fail = FALSE] \in Locals
<1>1. ASSUME NEW s \in Seq(1..Len(Inbound))
      PROVE  [l EXCEPT !.wait = b, !.buf = s, !.fail = FALSE] \in Locals
  BY DEF Locals
<1>2. <<>> \in Seq(1..Len(Inbound))
  OBVIOUS
<1> QED BY <1>1, <1>2

LEMMA LocalsTaken ==
  ASSUME NEW l \in Locals, NEW b \in BOOLEAN, NEW s \in Seq(1..Len(Inbound))
  PROVE  [l EXCEPT !.buf = s, !.wait = b] \in Locals
BY DEF Locals

LEMMA LocalsNothing ==
  ASSUME NEW l \in Locals, NEW b \in BOOLEAN
  PROVE  [l EXCEPT !.fail = b, !.wait = FALSE] \in Locals
BY DEF Locals

LEMMA LocalsWant ==
  ASSUME NEW l \in Locals, NEW b \in BOOLEAN, NEW w \in Nat
  PROVE  /\ [l EXCEPT !.want = w, !.head = b] \in Locals
         /\ [l EXCEPT !.head = b, !.want = w] \in Locals
BY DEF Locals

LEMMA LocalsPacket ==
  ASSUME NEW l \in Locals, NEW b \in BOOLEAN, NEW p \in 0..Packets,
         NEW n \in 0..(PacketLength + 2)
  PROVE  [l EXCEPT !.packets = p, !.head = b, !.left = n] \in Locals
BY DEF Locals

LEMMA LocalsPut ==
  ASSUME NEW l \in Locals, NEW b \in BOOLEAN, NEW p \in Nat,
         NEW n \in 0..(PacketLength + 2)
  PROVE  [l EXCEPT !.pos = p, !.left = n, !.wait = b] \in Locals
BY DEF Locals

LEMMA LocalsLeft ==
  ASSUME NEW l \in Locals, NEW b \in BOOLEAN, NEW n \in 0..(PacketLength + 2)
  PROVE  /\ [l EXCEPT !.left = n, !.wait = b] \in Locals
         /\ [l EXCEPT !.head = b, !.left = n] \in Locals
BY DEF Locals

LEMMA LocalsAcked ==
  ASSUME NEW l \in Locals, NEW n \in Nat
  PROVE  [l EXCEPT !.acked = n] \in Locals
BY DEF Locals

LEMMA LocalsStep ==
  ASSUME TypeOK, NEW h \in Handler, NEW l \in Locals,
         local' = [local EXCEPT ![h] = l]
  PROVE  local' \in [Handler -> Locals]
BY DEF TypeOK

LEMMA GotoType ==
  ASSUME TypeOK, NEW h \in Handler, NEW label \in Labels, Goto(h, label)
  PROVE  pc' \in [Handler -> Labels]
BY DEF TypeOK, Goto

\* Two bytes of Inbound are a length.
LEMMA HeadLengthsType ==
  ASSUME TypeOK, NEW h \in Handler
  PROVE  HeadLengths(h) \subseteq Nat
<1>1. local[h] \in Locals
  BY DEF TypeOK
<1>2. local[h].buf \in Seq(1..Len(Inbound))
  BY <1>1, LocalsFields
<1>3. Len(Inbound) \in Nat /\ \A i \in 1..Len(Inbound) : Inbound[i] \in Nat
  BY ConstantsType
<1>4. Garbage \subseteq Nat
  BY ConstantsType
<1>5. ASSUME Len(local[h].buf) = 2
      PROVE  Length(<<Inbound[local[h].buf[1]], Inbound[local[h].buf[2]]>>) \in Nat
  <2>1. local[h].buf[1] \in 1..Len(Inbound) /\ local[h].buf[2] \in 1..Len(Inbound)
    BY <1>2, <1>3, <1>5, PairOfSeq
  <2>2. \A a, b \in Nat : Length(<<a, b>>) \in Nat
    BY DEF Length
  <2> QED BY <2>1, <2>2, <1>3
<1> QED BY <1>4, <1>5 DEF HeadLengths

LEMMA InitType == Init => TypeOK
<1> SUFFICES ASSUME Init PROVE TypeOK
  OBVIOUS
<1> DEFINE l == [wait |-> FALSE, head |-> FALSE, want |-> 0, buf |-> <<>>, fail |-> FALSE,
                 packets |-> Packets, left |-> 0, pos |-> 0, acked |-> 0]
<1>1. Packets \in Nat /\ PacketLength \in Nat /\ Room \in Nat /\ Len(Inbound) \in Nat
  BY ConstantsType
<1>2. <<>> \in Seq(1..Len(Inbound))
  OBVIOUS
<1>3. l \in Locals
  BY <1>1, <1>2 DEF Locals
<1>4. local \in [Handler -> Locals]
  BY <1>3 DEF Init
<1>5. pc \in [Handler -> Labels]
  BY DEF Init, Labels
<1>6. stdout \in [Handler -> Seq(1..Len(Inbound))]
  BY <1>2 DEF Init
<1>7. out \in Seq(Handler \X (Nat \ {0}))
  BY DEF Init
<1>8. job \in [Handler -> Jobs] /\ gone \subseteq Handler
  BY DEF Init
<1>9. /\ blocking \in BOOLEAN /\ arrived \in 0..Len(Inbound) /\ taken \in 0..arrived
      /\ peer \in {"open", "closed"} /\ unread \in 0..Room
  BY <1>1 DEF Init
<1> QED BY <1>4, <1>5, <1>6, <1>7, <1>8, <1>9 DEF TypeOK

-----------------------------------------------------------------------------
(* Every step keeps the types.                                              *)

LEMMA RecvCallType ==
  ASSUME TypeOK, NEW h \in Handler, RecvCall(h)
  PROVE  TypeOK'
<1> DEFINE l == [local[h] EXCEPT !.wait = blocking, !.buf = <<>>, !.fail = FALSE]
<1>1. l \in Locals
  BY LocalsCall DEF TypeOK
<1>2. local' = [local EXCEPT ![h] = l]
  BY DEF RecvCall, TypeOK
<1>3. local' \in [Handler -> Locals]
  BY <1>1, <1>2, LocalsStep
<1>4. pc' \in [Handler -> Labels]
  BY GotoType DEF RecvCall, Labels
<1> QED
  BY <1>3, <1>4 DEF TypeOK, RecvCall, InUnchanged, OutUnchanged, OthersUnchanged

LEMMA TakesType ==
  ASSUME TypeOK, Fits, NEW h \in Handler, Takes(h)
  PROVE  TypeOK'
<1> DEFINE want == local[h].want - Len(local[h].buf)
           n    == Smaller(want, arrived - taken)
           more == Waits(h) /\ n < want
           s    == local[h].buf \o [i \in 1..n |-> taken + i]
           l    == [local[h] EXCEPT !.buf = s, !.wait = more]
<1>1. local[h] \in Locals /\ arrived \in Nat /\ taken \in Nat /\ arrived <= Len(Inbound)
      /\ taken < arrived
  BY ConstantsType DEF TypeOK, Takes
<1>2. local[h].buf \in Seq(1..Len(Inbound)) /\ local[h].want \in Nat
  BY <1>1, LocalsFields
<1>3. want \in Nat
  BY <1>2 DEF Fits, Takes, At
<1>4. n \in Nat /\ n <= want /\ taken + n <= arrived
  <2> HIDE DEF want
  <2>1. arrived - taken \in Nat
    BY <1>1
  <2>2. n \in Nat /\ n <= want /\ n <= arrived - taken
    BY <1>3, <2>1, SmallerType
  <2> QED BY <1>1, <2>2
<1>5. s \in Seq(1..Len(Inbound))
  <2>1. \A i \in 1..n : taken + i \in 1..Len(Inbound)
    BY <1>1, <1>4, ConstantsType
  <2>2. [i \in 1..n |-> taken + i] \in Seq(1..Len(Inbound))
    BY <1>4, <2>1
  <2> QED BY <1>2, <2>2
<1>6. more \in BOOLEAN
  OBVIOUS
<1>7. l \in Locals
  BY <1>1, <1>5, <1>6, LocalsTaken
<1>8. local' = [local EXCEPT ![h] = l]
  BY DEF Takes, TypeOK
<1>9. local' \in [Handler -> Locals]
  BY <1>7, <1>8, LocalsStep
<1>10. pc' \in [Handler -> Labels]
  BY GotoType DEF Takes, Labels, TypeOK
<1>11. arrived' = arrived /\ taken' = taken + n /\ taken' \in 0..arrived'
  BY <1>1, <1>4 DEF Takes
<1> QED
  BY <1>9, <1>10, <1>11 DEF TypeOK, Takes, OutUnchanged, OthersUnchanged

LEMMA TakesNothingType ==
  ASSUME TypeOK, NEW h \in Handler, TakesNothing(h)
  PROVE  TypeOK'
<1> DEFINE l == [local[h] EXCEPT !.fail = peer # "closed", !.wait = FALSE]
<1>1. l \in Locals
  BY LocalsNothing DEF TypeOK
<1>2. local' = [local EXCEPT ![h] = l]
  BY DEF TakesNothing, TypeOK
<1>3. local' \in [Handler -> Locals]
  BY <1>1, <1>2, LocalsStep
<1>4. pc' \in [Handler -> Labels]
  BY GotoType DEF TakesNothing, Labels
<1> QED
  BY <1>3, <1>4 DEF TypeOK, TakesNothing, InUnchanged, OutUnchanged, OthersUnchanged

LEMMA SetupType ==
  ASSUME TypeOK, NEW h \in Handler, Setup(h)
  PROVE  TypeOK'
<1> DEFINE w == CASE job[h] = "drain" -> Chunk [] job[h] = "nms_recv" -> 2
                  [] OTHER -> Count
           l == [local[h] EXCEPT !.want = w, !.head = job[h] = "nms_recv"]
<1>1. w \in Nat
  BY ConstantsType
<1>2. l \in Locals
  BY <1>1, LocalsWant DEF TypeOK
<1>3. local' = [local EXCEPT ![h] = l]
  BY DEF Setup, TypeOK
<1>4. local' \in [Handler -> Locals]
  BY <1>2, <1>3, LocalsStep
<1>5. pc' \in [Handler -> Labels]
  BY GotoType DEF Setup, Labels
<1>6. blocking' \in BOOLEAN
  BY DEF Setup, TypeOK
<1> QED
  BY <1>4, <1>5, <1>6 DEF TypeOK, Setup, InUnchanged, OutUnchanged, OthersUnchanged

LEMMA ToClientType ==
  ASSUME TypeOK, NEW h \in Handler, ToClient(h)
  PROVE  stdout' \in [Handler -> Seq(1..Len(Inbound))] /\ gone' \subseteq Handler
<1>1. local[h].buf \in Seq(1..Len(Inbound))
  BY LocalsFields DEF TypeOK
<1>2. stdout[h] \o local[h].buf \in Seq(1..Len(Inbound))
  BY <1>1 DEF TypeOK
<1> QED
  BY <1>2 DEF TypeOK, ToClient

LEMMA DeliverType ==
  ASSUME TypeOK, NEW h \in Handler, Deliver(h)
  PROVE  TypeOK'
<1>1. stdout' \in [Handler -> Seq(1..Len(Inbound))] /\ gone' \subseteq Handler
  BY ToClientType DEF Deliver, TypeOK
<1>2. pc' \in [Handler -> Labels]
  <2>1. Goto(h, "reset") \/ Goto(h, "recv")
    BY DEF Deliver
  <2> QED BY <2>1, GotoType DEF Labels
<1> QED
  BY <1>1, <1>2 DEF TypeOK, Deliver, InUnchanged, OutUnchanged, OthersUnchanged

LEMMA ResetType ==
  ASSUME TypeOK, NEW h \in Handler, Reset(h)
  PROVE  TypeOK'
<1>1. pc' \in [Handler -> Labels]
  BY GotoType DEF Reset, Labels
<1> QED
  BY <1>1 DEF TypeOK, Reset, InUnchanged, OutUnchanged, OthersUnchanged

LEMMA NmsHeadReceivedType ==
  ASSUME TypeOK, NEW h \in Handler, NmsHeadReceived(h)
  PROVE  TypeOK'
<1>1. CASE Goto(h, "done") /\ UNCHANGED local
  <2>1. pc' \in [Handler -> Labels]
    BY <1>1, GotoType DEF Labels
  <2> QED
    BY <1>1, <2>1 DEF TypeOK, NmsHeadReceived, InUnchanged, OutUnchanged, OthersUnchanged
<1>2. ASSUME NEW n \in HeadLengths(h) \ {0},
             local' = [local EXCEPT ![h] = [@ EXCEPT !.head = FALSE, !.want = n]],
             Goto(h, "recv")
      PROVE  TypeOK'
  <2> DEFINE l == [local[h] EXCEPT !.head = FALSE, !.want = n]
  <2>1. n \in Nat
    BY HeadLengthsType
  <2>2. l \in Locals
    BY <2>1, LocalsWant DEF TypeOK
  <2>3. local' = [local EXCEPT ![h] = l]
    BY <1>2 DEF TypeOK
  <2>4. local' \in [Handler -> Locals]
    BY <2>2, <2>3, LocalsStep
  <2>5. pc' \in [Handler -> Labels]
    BY <1>2, GotoType DEF Labels
  <2> QED
    BY <2>4, <2>5 DEF TypeOK, NmsHeadReceived, InUnchanged, OutUnchanged, OthersUnchanged
<1> QED BY <1>1, <1>2 DEF NmsHeadReceived

LEMMA NmsBodyReceivedType ==
  ASSUME TypeOK, NEW h \in Handler, NmsBodyReceived(h)
  PROVE  TypeOK'
<1>1. stdout' \in [Handler -> Seq(1..Len(Inbound))] /\ gone' \subseteq Handler
  BY ToClientType DEF NmsBodyReceived, TypeOK
<1>2. pc' \in [Handler -> Labels]
  BY GotoType DEF NmsBodyReceived, Labels
<1> QED
  BY <1>1, <1>2 DEF TypeOK, NmsBodyReceived, InUnchanged, OutUnchanged, OthersUnchanged

LEMMA GetPacketType ==
  ASSUME TypeOK, NEW h \in Handler, GetPacket(h)
  PROVE  TypeOK'
<1> DEFINE n == IF job[h] = "nms_send" THEN 2 ELSE PacketLength
           l == [local[h] EXCEPT !.packets = local[h].packets - 1,
                                 !.head = job[h] = "nms_send", !.left = n]
<1>1. CASE local[h].packets > 0 /\ local' = [local EXCEPT ![h] = l] /\ Goto(h, "send")
  <2>1. local[h] \in Locals
    BY DEF TypeOK
  <2>2. local[h].packets - 1 \in 0..Packets
    <3>1. local[h].packets \in 0..Packets /\ Packets \in Nat
      BY <2>1, ConstantsType DEF Locals
    <3> QED BY <1>1, <3>1
  <2>2a. n \in 0..(PacketLength + 2)
    BY ConstantsType
  <2>3. l \in Locals
    BY <2>1, <2>2, <2>2a, LocalsPacket
  <2>4. local' \in [Handler -> Locals]
    BY <1>1, <2>3, LocalsStep
  <2>5. pc' \in [Handler -> Labels]
    BY <1>1, GotoType DEF Labels
  <2>6. gone' \subseteq Handler
    BY DEF GetPacket, TypeOK
  <2> QED
    BY <2>4, <2>5, <2>6 DEF TypeOK, GetPacket, InUnchanged, OutUnchanged, OthersUnchanged
<1>2. CASE Goto(h, "done") /\ UNCHANGED local
  <2>1. pc' \in [Handler -> Labels]
    BY <1>2, GotoType DEF Labels
  <2>2. gone' \subseteq Handler
    BY DEF GetPacket, TypeOK
  <2> QED
    BY <1>2, <2>1, <2>2 DEF TypeOK, GetPacket, InUnchanged, OutUnchanged, OthersUnchanged
<1> QED BY <1>1, <1>2 DEF GetPacket, TypeOK

LEMMA SendCallType ==
  ASSUME TypeOK, NEW h \in Handler, SendCall(h)
  PROVE  TypeOK'
<1> DEFINE l == [local[h] EXCEPT !.wait = blocking]
<1>1. l \in Locals
  BY LocalsWait DEF TypeOK
<1>2. local' = [local EXCEPT ![h] = l]
  BY DEF SendCall, TypeOK
<1>3. local' \in [Handler -> Locals]
  BY <1>1, <1>2, LocalsStep
<1>4. pc' \in [Handler -> Labels]
  BY GotoType DEF SendCall, Labels
<1> QED
  BY <1>3, <1>4 DEF TypeOK, SendCall, InUnchanged, OutUnchanged, OthersUnchanged

LEMMA PutsType ==
  ASSUME TypeOK, NEW h \in Handler, Puts(h)
  PROVE  TypeOK'
<1> DEFINE left == local[h].left
           n    == Smaller(left, Room - unread)
           done == n = left \/ ~local[h].wait
           put  == [i \in 1..n |-> <<h, local[h].pos + i>>]
           p    == local[h].pos + (IF done THEN left ELSE n)
           rest == IF done THEN 0 ELSE left - n
           l    == [local[h] EXCEPT !.pos = p, !.left = rest, !.wait = ~done]
<1>1. local[h] \in Locals
  BY DEF TypeOK
<1>2. left \in 0..(PacketLength + 2) /\ local[h].pos \in Nat
  BY <1>1, LocalsFields
<1>3. Room - unread \in Nat /\ unread \in Nat
  BY ConstantsType DEF Puts, TypeOK
<1>4. n \in Nat /\ n <= left /\ n <= Room - unread
  <2> HIDE DEF left
  <2>1. left \in Nat
    BY <1>2, ConstantsType
  <2> QED BY <2>1, <1>3, SmallerType
<1>5. p \in Nat /\ rest \in 0..(PacketLength + 2) /\ (~done) \in BOOLEAN
  <2> HIDE DEF left, n
  <2> QED BY <1>2, <1>4, ConstantsType
<1>6. l \in Locals
  BY <1>1, <1>5, LocalsPut
<1>7. local' = [local EXCEPT ![h] = l]
  BY DEF Puts, TypeOK
<1>8. local' \in [Handler -> Locals]
  BY <1>6, <1>7, LocalsStep
<1>9. pc' \in [Handler -> Labels]
  BY GotoType DEF Puts, Labels, TypeOK
<1>10. out' \in Seq(Handler \X (Nat \ {0}))
  <2>1. \A i \in 1..n : <<h, local[h].pos + i>> \in Handler \X (Nat \ {0})
    BY <1>2, <1>4
  <2>2. put \in Seq(Handler \X (Nat \ {0}))
    BY <1>4, <2>1
  <2>3. out' = out \o put
    BY DEF Puts
  <2> HIDE DEF put
  <2> QED BY <2>2, <2>3 DEF TypeOK
<1>11. unread' \in 0..Room
  <2>1. unread' = unread + n
    BY DEF Puts
  <2> HIDE DEF n
  <2> QED BY <1>3, <1>4, <2>1, ConstantsType
<1> QED
  BY <1>8, <1>9, <1>10, <1>11 DEF TypeOK, Puts, InUnchanged, OthersUnchanged

LEMMA PutsNothingType ==
  ASSUME TypeOK, NEW h \in Handler, PutsNothing(h)
  PROVE  TypeOK'
<1> DEFINE l == [local[h] EXCEPT !.left = 0, !.wait = FALSE]
<1>1. l \in Locals
  <2>1. 0 \in 0..(PacketLength + 2) /\ local[h] \in Locals
    BY ConstantsType DEF TypeOK
  <2> QED BY <2>1, LocalsLeft
<1>2. local' = [local EXCEPT ![h] = l]
  BY DEF PutsNothing, TypeOK
<1>3. local' \in [Handler -> Locals]
  BY <1>1, <1>2, LocalsStep
<1>4. pc' \in [Handler -> Labels]
  BY GotoType DEF PutsNothing, Labels
<1> QED
  BY <1>3, <1>4 DEF TypeOK, PutsNothing, InUnchanged, OutUnchanged, OthersUnchanged

LEMMA SentType ==
  ASSUME TypeOK, NEW h \in Handler, Sent(h)
  PROVE  TypeOK'
<1> DEFINE l == IF local[h].head
                THEN [local[h] EXCEPT !.head = FALSE, !.left = PacketLength]
                ELSE [local[h] EXCEPT !.acked = local[h].pos]
<1>1. local[h] \in Locals
  BY DEF TypeOK
<1>2. l \in Locals
  <2>1. PacketLength \in 0..(PacketLength + 2) /\ local[h].pos \in Nat
    BY <1>1, ConstantsType, LocalsFields
  <2> QED BY <1>1, <2>1, LocalsLeft, LocalsAcked
<1>3. local' = [local EXCEPT ![h] = l]
  BY DEF Sent, TypeOK
<1>4. local' \in [Handler -> Locals]
  BY <1>2, <1>3, LocalsStep
<1>5. pc' \in [Handler -> Labels]
  BY GotoType DEF Sent, Labels
<1> QED
  BY <1>4, <1>5 DEF TypeOK, Sent, InUnchanged, OutUnchanged, OthersUnchanged

LEMMA PeerType ==
  ASSUME TypeOK, Peer
  PROVE  TypeOK'
<1>1. arrived' \in 0..Len(Inbound) /\ taken' \in 0..arrived' /\ unread' \in 0..Room
      /\ peer' \in {"open", "closed"}
  BY ConstantsType DEF Peer, TypeOK
<1> QED
  BY <1>1 DEF TypeOK, Peer

LEMMA TypeStep ==
  ASSUME TypeOK, Fits, [Next]_vars
  PROVE  TypeOK'
<1>1. ASSUME NEW h \in Handler, Step(h) PROVE TypeOK'
  BY <1>1, SetupType, RecvCallType, TakesType, TakesNothingType, DeliverType, ResetType,
     NmsHeadReceivedType, NmsBodyReceivedType, GetPacketType, SendCallType, PutsType,
     PutsNothingType, SentType DEF Step
<1>2. ASSUME UNCHANGED vars PROVE TypeOK'
  BY <1>2 DEF vars, TypeOK
<1> QED BY <1>1, <1>2, PeerType DEF Next, Finished

-----------------------------------------------------------------------------
(* Every step keeps the handlers' places and their commands together.       *)

LEMMA FitsGoto ==
  ASSUME TypeOK, Fits, NEW h \in Handler, NEW label \in Labels, Goto(h, label),
         job' = job, \A g \in Handler \ {h} : local'[g] = local[g],
         label \in {"packet", "send", "sending", "sent"} => job[h] \in Senders,
         label \in {"setup", "recv", "receiving", "received"} => job[h] \in Receivers,
         label = "receiving" => Len(local'[h].buf) <= local'[h].want
  PROVE  Fits'
BY DEF Fits, Goto, TypeOK

LEMMA FitsStep ==
  ASSUME TypeOK, Fits, NEW h \in Handler, Step(h)
  PROVE  Fits'
<1>1. /\ job' = job
      /\ At(h, "setup") \/ At(h, "recv") \/ At(h, "receiving") \/ At(h, "received")
           => job[h] \in Receivers
      /\ At(h, "packet") \/ At(h, "send") \/ At(h, "sending") \/ At(h, "sent")
           => job[h] \in Senders
  BY DEF Fits, At, Step, Setup, RecvCall, Takes, TakesNothing, Deliver, Reset,
     NmsHeadReceived, NmsBodyReceived, GetPacket, SendCall, Puts, PutsNothing, Sent,
     OthersUnchanged
<1>2. \A g \in Handler \ {h} : local'[g] = local[g]
  BY DEF TypeOK, Step, Setup, RecvCall, Takes, TakesNothing, Deliver, Reset,
     NmsHeadReceived, NmsBodyReceived, GetPacket, SendCall, Puts, PutsNothing, Sent
<1>3. local[h] \in Locals /\ Goto(h, pc[h]) = (pc' = pc) /\ pc[h] \in Labels
  BY DEF TypeOK, Goto
<1>4. CASE RecvCall(h)
  <2>1. local'[h].buf = <<>> /\ local'[h].want = local[h].want
    BY <1>3, <1>4 DEF RecvCall, TypeOK, Locals
  <2>2. Len(local'[h].buf) <= local'[h].want
    BY <2>1, <1>3, LocalsFields
  <2> QED BY <1>1, <1>2, <1>4, <2>2, FitsGoto DEF RecvCall, Labels
<1>5. CASE Takes(h)
  <2> DEFINE want == local[h].want - Len(local[h].buf)
             n    == Smaller(want, arrived - taken)
             got  == [i \in 1..n |-> taken + i]
             buf  == local[h].buf \o got
  <2>1. CASE Goto(h, "received")
    BY <1>1, <1>2, <1>5, <2>1, FitsGoto DEF Takes, Labels
  <2>2. CASE pc' = pc
    <3>1. local'[h].buf = buf /\ local'[h].want = local[h].want
      BY <1>3, <1>5 DEF Takes, TypeOK, Locals
    <3>2. local[h].buf \in Seq(1..Len(Inbound)) /\ local[h].want \in Nat
      BY <1>3, LocalsFields
    <3>3. want \in Nat /\ arrived - taken \in Nat
      <4>1. Len(local[h].buf) <= local[h].want
        BY <1>5 DEF Fits, Takes, At
      <4>2. arrived \in Nat /\ taken \in 0..arrived
        BY ConstantsType DEF TypeOK
      <4> QED BY <3>2, <4>1, <4>2
    <3>4. n \in Nat /\ n <= want
      <4> HIDE DEF want
      <4> QED BY <3>3, SmallerType
    <3>5. Len(buf) = Len(local[h].buf) + n
      <4> HIDE DEF n
      <4>1. taken \in Int
        BY ConstantsType DEF TypeOK
      <4>2. \A i \in 1..n : taken + i \in Int
        BY <3>4, <4>1
      <4>3. got \in Seq(Int) /\ Len(got) = n
        BY <3>4, <4>2
      <4> HIDE DEF got
      <4>4. Len(local[h].buf \o got) = Len(local[h].buf) + Len(got)
        BY <3>2, <4>3, ConcatLen
      <4> QED BY <4>3, <4>4
    <3>6. Len(buf) <= local[h].want
      <4> HIDE DEF n, buf
      <4> QED BY <3>2, <3>4, <3>5
    <3> QED
      BY <1>1, <1>2, <1>3, <1>5, <2>2, <3>1, <3>6, FitsGoto DEF Takes, At
  <2> QED BY <1>5, <2>1, <2>2 DEF Takes
<1>6. CASE Setup(h) \/ TakesNothing(h) \/ Deliver(h)
  BY <1>1, <1>2, <1>6, FitsGoto DEF Setup, TakesNothing, Deliver, Labels
<1>7. CASE Reset(h) \/ NmsHeadReceived(h) \/ NmsBodyReceived(h)
  BY <1>1, <1>2, <1>7, FitsGoto DEF Reset, NmsHeadReceived, NmsBodyReceived, Labels
<1>8. CASE GetPacket(h) \/ SendCall(h) \/ Sent(h) \/ PutsNothing(h)
  BY <1>1, <1>2, <1>8, FitsGoto DEF GetPacket, SendCall, Sent, PutsNothing, Labels
<1>9. CASE Puts(h)
  <2>1. Goto(h, "sent") \/ pc' = pc
    BY <1>9 DEF Puts
  <2> QED
    BY <1>1, <1>2, <1>3, <1>9, <2>1, FitsGoto DEF Puts, Labels, At
<1> QED BY <1>4, <1>5, <1>6, <1>7, <1>8, <1>9 DEF Step

LEMMA FitsKept ==
  ASSUME TypeOK, Fits, [Next]_vars
  PROVE  Fits'
<1>1. CASE Peer \/ UNCHANGED vars
  BY <1>1 DEF Peer, vars, Fits
<1> QED BY <1>1, FitsStep DEF Next, Finished

-----------------------------------------------------------------------------
(* The socket's mode                                                        *)

\* A handler whose recv does not wait leaves the commands' places only by
\* resetting the mode, and the mode is cleared only by such a handler.
LEMMA BlockingStep ==
  ASSUME TypeOK, Fits, BlockingAtRest, NEW h \in Handler, Step(h)
  PROVE  BlockingAtRest'
<1>1. CASE Reset(h)
  BY <1>1 DEF Reset, BlockingAtRest
<1>2. CASE Setup(h)
  BY <1>2 DEF Setup, Goto, OthersUnchanged, BlockingAtRest, TypeOK
<1>3. CASE RecvCall(h) \/ TakesNothing(h) \/ Takes(h) \/ Deliver(h)
  BY <1>3 DEF RecvCall, TakesNothing, Takes, Deliver, Goto, OthersUnchanged,
     BlockingAtRest, TypeOK
<1>4. CASE NmsHeadReceived(h) \/ NmsBodyReceived(h)
  BY <1>4 DEF NmsHeadReceived, NmsBodyReceived, Goto, OthersUnchanged, BlockingAtRest,
     TypeOK, NonBlocking
<1>5. CASE GetPacket(h) \/ SendCall(h) \/ Puts(h) \/ PutsNothing(h) \/ Sent(h)
  <2>1. job[h] \notin NonBlocking
    BY <1>5 DEF GetPacket, SendCall, Puts, PutsNothing, Sent, At, Fits, Senders, NonBlocking
  <2> QED
    BY <1>5, <2>1 DEF GetPacket, SendCall, Puts, PutsNothing, Sent, Goto, OthersUnchanged,
       BlockingAtRest, TypeOK
<1> QED BY <1>1, <1>2, <1>3, <1>4, <1>5 DEF Step

LEMMA BlockingKept ==
  ASSUME TypeOK, Fits, BlockingAtRest, [Next]_vars
  PROVE  BlockingAtRest'
<1>1. CASE Peer \/ UNCHANGED vars
  BY <1>1 DEF Peer, vars, BlockingAtRest
<1> QED BY <1>1, BlockingStep DEF Next, Finished

-----------------------------------------------------------------------------
(* What is sent                                                             *)

\* While no recv clears the mode and the peer stays, every send(2) waits: what
\* was given to it is in the stream, but for the part the call still has to put.
Sends ==
  Undisturbed /\ peer = "open" =>
    /\ blocking
    /\ \A h \in Handler :
         /\ pc[h] = "sending" => local[h].wait
         /\ local[h].acked <= local[h].pos
         /\ \A i \in 1..local[h].pos : \E k \in 1..Len(out) : out[k] = <<h, i>>
         /\ (\A g \in Handler \ {h} : job[g] \notin Senders) =>
              /\ Len(out) = local[h].pos
              /\ \A k \in 1..Len(out) : out[k] = <<h, k>>

\* A step that puts nothing.
LEMMA SendsFrame ==
  ASSUME TypeOK, Sends, job' = job, peer' = "open" => peer = "open", out' = out,
         Undisturbed /\ blocking => blocking',
         \A g \in Handler :
           /\ local'[g].pos = local[g].pos
           /\ local'[g].acked = local[g].acked \/ local'[g].acked = local[g].pos
           /\ \/ pc'[g] # "sending"
              \/ pc[g] = "sending" /\ local'[g].wait = local[g].wait
              \/ local'[g].wait = blocking
  PROVE  Sends'
<1> SUFFICES ASSUME Undisturbed', peer' = "open"
             PROVE  /\ blocking'
                    /\ \A h \in Handler :
                         /\ pc'[h] = "sending" => local'[h].wait
                         /\ local'[h].acked <= local'[h].pos
                         /\ \A i \in 1..local'[h].pos :
                              \E k \in 1..Len(out') : out'[k] = <<h, i>>
                         /\ (\A g \in Handler \ {h} : job'[g] \notin Senders) =>
                              /\ Len(out') = local'[h].pos
                              /\ \A k \in 1..Len(out') : out'[k] = <<h, k>>
  BY DEF Sends
<1>1. Undisturbed /\ peer = "open"
  BY DEF Undisturbed
<1>2. blocking /\ blocking'
  BY <1>1 DEF Sends
<1>3. ASSUME NEW h \in Handler
      PROVE  local[h].pos \in Nat /\ local[h].acked <= local[h].pos
  BY <1>1, LocalsFields DEF Sends, TypeOK
<1>4. ASSUME NEW h \in Handler
      PROVE  local'[h].acked <= local'[h].pos
  BY <1>3
<1>5. ASSUME NEW h \in Handler, pc'[h] = "sending"
      PROVE  local'[h].wait
  BY <1>1, <1>2, <1>5 DEF Sends
<1>6. ASSUME NEW h \in Handler, NEW i \in 1..local'[h].pos
      PROVE  \E k \in 1..Len(out') : out'[k] = <<h, i>>
  <2>1. i \in 1..local[h].pos
    OBVIOUS
  <2>2. \E k \in 1..Len(out) : out[k] = <<h, i>>
    BY <1>1, <2>1 DEF Sends
  <2> QED BY <2>2
<1>7. ASSUME NEW h \in Handler, \A g \in Handler \ {h} : job'[g] \notin Senders
      PROVE  Len(out') = local'[h].pos /\ \A k \in 1..Len(out') : out'[k] = <<h, k>>
  <2>1. Len(out) = local[h].pos /\ \A k \in 1..Len(out) : out[k] = <<h, k>>
    BY <1>1, <1>7 DEF Sends
  <2> QED BY <2>1
<1> QED BY <1>2, <1>4, <1>5, <1>6, <1>7

LEMMA SendsPuts ==
  ASSUME TypeOK, Fits, Sends, NEW h \in Handler, Puts(h)
  PROVE  Sends'
<1> DEFINE left == local[h].left
           n    == Smaller(left, Room - unread)
           pos  == local[h].pos
           put  == [i \in 1..n |-> <<h, pos + i>>]
<1> SUFFICES ASSUME Undisturbed', peer' = "open"
             PROVE  /\ blocking'
                    /\ \A g \in Handler :
                         /\ pc'[g] = "sending" => local'[g].wait
                         /\ local'[g].acked <= local'[g].pos
                         /\ \A i \in 1..local'[g].pos :
                              \E k \in 1..Len(out') : out'[k] = <<g, i>>
                         /\ (\A f \in Handler \ {g} : job'[f] \notin Senders) =>
                              /\ Len(out') = local'[g].pos
                              /\ \A k \in 1..Len(out') : out'[k] = <<g, k>>
  BY DEF Sends
<1>1. Undisturbed /\ peer = "open" /\ job' = job /\ blocking' = blocking
  BY DEF Undisturbed, Puts, OthersUnchanged
<1>2. blocking /\ local[h].wait = TRUE
  BY <1>1, LocalsFields DEF Sends, Puts, At, TypeOK
<1>3. local[h] \in Locals /\ left \in Nat /\ pos \in Nat /\ Room - unread \in Nat
  <2>1. local[h] \in Locals /\ unread \in 0..Room /\ Room \in Nat
    BY ConstantsType DEF TypeOK
  <2> QED BY <2>1, LocalsFields
<1>4. n \in Nat /\ n <= left
  <2> HIDE DEF left
  <2> QED BY <1>3, SmallerType
<1>5. /\ local'[h].pos = pos + n
      /\ local'[h].acked = local[h].acked
      /\ pc'[h] = "sending" => local'[h].wait
  BY <1>2, <1>3, <1>4 DEF Puts, TypeOK, Locals, Goto
<1>6. \A g \in Handler \ {h} : local'[g] = local[g] /\ pc'[g] = pc[g]
  BY DEF Puts, TypeOK, Goto
<1>7. out' = out \o put
  BY DEF Puts
<1>8. /\ Len(out) \in Nat
      /\ Len(out') = Len(out) + n
      /\ \A k \in 1..Len(out) : out'[k] = out[k]
      /\ \A k \in 1..n : out'[Len(out) + k] = <<h, pos + k>>
  <2> HIDE DEF n, pos
  <2>1. \A i \in 1..n : <<h, pos + i>> \in Handler \X Nat
    BY <1>3, <1>4
  <2>2. put \in Seq(Handler \X Nat) /\ Len(put) = n /\ \A k \in 1..n : put[k] = <<h, pos + k>>
    BY <1>4, <2>1
  <2>3. out \in Seq(Handler \X Nat)
    BY DEF TypeOK
  <2> HIDE DEF put
  <2>4. /\ Len(out) \in Nat
        /\ Len(out') = Len(out) + Len(put)
        /\ \A k \in 1..Len(out) : out'[k] = out[k]
        /\ \A k \in 1..Len(put) : out'[Len(out) + k] = put[k]
    BY <1>7, <2>2, <2>3, ConcatElements
  <2> QED BY <2>2, <2>4
<1> HIDE DEF n, pos, put, left
<1>9. ASSUME NEW g \in Handler
      PROVE  local'[g].acked <= local'[g].pos
  <2>1. local[g].acked \in Nat /\ local[g].pos \in Nat /\ local[g].acked <= local[g].pos
    BY <1>1, LocalsFields DEF Sends, TypeOK
  <2> QED BY <1>3, <1>4, <1>5, <1>6, <2>1 DEF pos
<1>10. ASSUME NEW g \in Handler, NEW i \in 1..local'[g].pos
       PROVE  \E k \in 1..Len(out') : out'[k] = <<g, i>>
  <2>1. CASE i \in 1..local[g].pos
    <3>1. PICK k \in 1..Len(out) : out[k] = <<g, i>>
      BY <1>1, <2>1 DEF Sends
    <3>2. k \in 1..Len(out') /\ out'[k] = <<g, i>>
      BY <1>4, <1>8, <3>1
    <3> QED BY <3>2
  <2>2. CASE i \notin 1..local[g].pos
    <3>1. g = h /\ i - pos \in 1..n
      BY <1>3, <1>4, <1>5, <1>6, <2>2 DEF pos
    <3>2. out'[Len(out) + (i - pos)] = <<h, pos + (i - pos)>>
      BY <1>8, <3>1
    <3>3. pos + (i - pos) = i /\ Len(out) + (i - pos) \in 1..Len(out')
      BY <1>3, <1>4, <1>8, <3>1
    <3> QED BY <3>1, <3>2, <3>3
  <2> QED BY <2>1, <2>2
<1>11. ASSUME NEW g \in Handler, \A f \in Handler \ {g} : job[f] \notin Senders
       PROVE  Len(out') = local'[g].pos /\ \A k \in 1..Len(out') : out'[k] = <<g, k>>
  <2>1. g = h
    BY <1>11 DEF Fits, Puts, At
  <2>2. Len(out) = pos /\ \A k \in 1..Len(out) : out[k] = <<h, k>>
    BY <1>1, <1>11, <2>1 DEF Sends, pos
  <2>3. ASSUME NEW k \in 1..Len(out') PROVE out'[k] = <<h, k>>
    <3>1. CASE k <= Len(out)
      BY <1>8, <2>2, <3>1
    <3>2. CASE ~(k <= Len(out))
      <4>1. k - Len(out) \in 1..n /\ Len(out) + (k - Len(out)) = k
            /\ pos + (k - Len(out)) = k
        BY <1>3, <1>4, <1>8, <2>2, <3>2
      <4>2. out'[Len(out) + (k - Len(out))] = <<h, pos + (k - Len(out))>>
        BY <1>8, <4>1
      <4> QED BY <4>1, <4>2
    <3> QED BY <3>1, <3>2
  <2> QED BY <1>5, <1>8, <2>1, <2>2, <2>3
<1>12. ASSUME NEW g \in Handler, pc'[g] = "sending" PROVE local'[g].wait
  BY <1>1, <1>5, <1>6, <1>12 DEF Sends
<1> QED BY <1>1, <1>2, <1>9, <1>10, <1>11, <1>12

LEMMA SendsStep ==
  ASSUME TypeOK, Fits, Sends, NEW h \in Handler, Step(h)
  PROVE  Sends'
<1>1. local[h] \in Locals /\ \A g \in Handler : local[g] \in Locals
  BY DEF TypeOK
<1>2. \A g \in Handler \ {h} : local'[g] = local[g] /\ pc'[g] = pc[g]
  BY DEF TypeOK, Goto, Step, Setup, RecvCall, Takes, TakesNothing, Deliver, Reset,
     NmsHeadReceived, NmsBodyReceived, GetPacket, SendCall, Puts, PutsNothing, Sent
<1>3. job' = job /\ peer' = peer
  BY DEF Step, Setup, RecvCall, Takes, TakesNothing, Deliver, Reset, NmsHeadReceived,
     NmsBodyReceived, GetPacket, SendCall, Puts, PutsNothing, Sent, OthersUnchanged
<1>4. CASE Setup(h)
  <2>1. out' = out /\ (Undisturbed /\ blocking => blocking')
    BY <1>4 DEF Setup, OutUnchanged, Undisturbed
  <2>2. local'[h].pos = local[h].pos /\ local'[h].acked = local[h].acked
    BY <1>1, <1>4 DEF Setup, TypeOK, Locals
  <2>3. pc'[h] # "sending"
    BY <1>4 DEF Setup, Goto, At, TypeOK
  <2> QED BY <1>2, <1>3, <2>1, <2>2, <2>3, SendsFrame
<1>5. CASE RecvCall(h)
  <2>1. out' = out /\ (blocking' = blocking)
    BY <1>5 DEF RecvCall, OutUnchanged
  <2>2. local'[h].pos = local[h].pos /\ local'[h].acked = local[h].acked
    BY <1>1, <1>5 DEF RecvCall, TypeOK, Locals
  <2>3. pc'[h] # "sending"
    BY <1>5 DEF RecvCall, Goto, At, TypeOK
  <2> QED BY <1>2, <1>3, <2>1, <2>2, <2>3, SendsFrame
<1>6. CASE Takes(h)
  <2>1. out' = out /\ (blocking' = blocking)
    BY <1>6 DEF Takes, OutUnchanged
  <2>2. local'[h].pos = local[h].pos /\ local'[h].acked = local[h].acked
    BY <1>1, <1>6 DEF Takes, TypeOK, Locals
  <2>3. pc'[h] # "sending"
    BY <1>6 DEF Takes, Goto, At, TypeOK
  <2> QED BY <1>2, <1>3, <2>1, <2>2, <2>3, SendsFrame
<1>7. CASE TakesNothing(h)
  <2>1. out' = out /\ (blocking' = blocking)
    BY <1>7 DEF TakesNothing, OutUnchanged
  <2>2. local'[h].pos = local[h].pos /\ local'[h].acked = local[h].acked
    BY <1>1, <1>7 DEF TakesNothing, TypeOK, Locals
  <2>3. pc'[h] # "sending"
    BY <1>7 DEF TakesNothing, Goto, At, TypeOK
  <2> QED BY <1>2, <1>3, <2>1, <2>2, <2>3, SendsFrame
<1>8. CASE Deliver(h)
  <2>1. out' = out /\ (blocking' = blocking)
    BY <1>8 DEF Deliver, OutUnchanged
  <2>2. local'[h].pos = local[h].pos /\ local'[h].acked = local[h].acked
    BY <1>1, <1>8 DEF Deliver, TypeOK, Locals
  <2>3. pc'[h] # "sending"
    BY <1>8 DEF Deliver, Goto, At, TypeOK
  <2> QED BY <1>2, <1>3, <2>1, <2>2, <2>3, SendsFrame
<1>9. CASE Reset(h)
  <2>1. out' = out /\ (Undisturbed /\ blocking => blocking')
    BY <1>9 DEF Reset, OutUnchanged
  <2>2. local'[h].pos = local[h].pos /\ local'[h].acked = local[h].acked
    BY <1>1, <1>9 DEF Reset, TypeOK, Locals
  <2>3. pc'[h] # "sending"
    BY <1>9 DEF Reset, Goto, At, TypeOK
  <2> QED BY <1>2, <1>3, <2>1, <2>2, <2>3, SendsFrame
<1>10. CASE NmsHeadReceived(h)
  <2>1. out' = out /\ (blocking' = blocking)
    BY <1>10 DEF NmsHeadReceived, OutUnchanged
  <2>2. local'[h].pos = local[h].pos /\ local'[h].acked = local[h].acked
    <3>1. ASSUME NEW n, local' = [local EXCEPT ![h] = [@ EXCEPT !.head = FALSE, !.want = n]]
          PROVE  local'[h].pos = local[h].pos /\ local'[h].acked = local[h].acked
      BY <1>1, <3>1 DEF TypeOK, Locals
    <3> QED BY <1>10, <3>1 DEF NmsHeadReceived
  <2>3. pc'[h] # "sending"
    BY <1>10 DEF NmsHeadReceived, Goto, At, TypeOK
  <2> QED BY <1>2, <1>3, <2>1, <2>2, <2>3, SendsFrame
<1>11. CASE NmsBodyReceived(h)
  <2>1. out' = out /\ (blocking' = blocking)
    BY <1>11 DEF NmsBodyReceived, OutUnchanged
  <2>2. local'[h].pos = local[h].pos /\ local'[h].acked = local[h].acked
    BY <1>1, <1>11 DEF NmsBodyReceived, TypeOK, Locals
  <2>3. pc'[h] # "sending"
    BY <1>11 DEF NmsBodyReceived, Goto, At, TypeOK
  <2> QED BY <1>2, <1>3, <2>1, <2>2, <2>3, SendsFrame
<1>12. CASE GetPacket(h)
  <2>1. out' = out /\ (blocking' = blocking)
    BY <1>12 DEF GetPacket, OutUnchanged
  <2>2. local'[h].pos = local[h].pos /\ local'[h].acked = local[h].acked
    <3>1. ASSUME NEW p, NEW b, NEW n,
                 local' = [local EXCEPT ![h] = [@ EXCEPT !.packets = p, !.head = b, !.left = n]]
          PROVE  local'[h].pos = local[h].pos /\ local'[h].acked = local[h].acked
      BY <1>1, <3>1 DEF TypeOK, Locals
    <3>2. CASE job[h] = "nms_send"
      <4>1. \/ local' = local
            \/ local' = [local EXCEPT ![h] = [@ EXCEPT
                           !.packets = local[h].packets - 1, !.head = TRUE, !.left = 2]]
        BY <1>12, <3>2 DEF GetPacket
      <4> QED BY <3>1, <4>1
    <3>3. CASE job[h] # "nms_send"
      <4>1. \/ local' = local
            \/ local' = [local EXCEPT ![h] = [@ EXCEPT
                           !.packets = local[h].packets - 1, !.head = FALSE,
                           !.left = PacketLength]]
        BY <1>12, <3>3 DEF GetPacket
      <4> QED BY <3>1, <4>1
    <3> QED BY <3>2, <3>3
  <2>3. pc'[h] # "sending"
    BY <1>12 DEF GetPacket, Goto, At, TypeOK
  <2> QED BY <1>2, <1>3, <2>1, <2>2, <2>3, SendsFrame
<1>13. CASE PutsNothing(h)
  <2>1. out' = out /\ (blocking' = blocking)
    BY <1>13 DEF PutsNothing, OutUnchanged
  <2>2. local'[h].pos = local[h].pos /\ local'[h].acked = local[h].acked
    BY <1>1, <1>13 DEF PutsNothing, TypeOK, Locals
  <2>3. pc'[h] # "sending"
    BY <1>13 DEF PutsNothing, Goto, At, TypeOK
  <2> QED BY <1>2, <1>3, <2>1, <2>2, <2>3, SendsFrame
<1>14. CASE SendCall(h)
  <2>1. out' = out /\ (blocking' = blocking)
    BY <1>14 DEF SendCall, OutUnchanged
  <2>2. local'[h].pos = local[h].pos
    BY <1>1, <1>14 DEF SendCall, TypeOK, Locals
  <2>3. local'[h].acked = local[h].acked /\ local'[h].wait = blocking
    BY <1>1, <1>14 DEF SendCall, Goto, TypeOK, Locals
  <2> QED BY <1>2, <1>3, <2>1, <2>2, <2>3, SendsFrame
<1>15. CASE Sent(h)
  <2>1. out' = out /\ (blocking' = blocking)
    BY <1>15 DEF Sent, OutUnchanged
  <2>2. local'[h].pos = local[h].pos
    BY <1>1, <1>15 DEF Sent, TypeOK, Locals
  <2>3. local'[h].acked = local[h].acked \/ local'[h].acked = local[h].pos
    <3>1. CASE local[h].head
      BY <1>1, <1>15, <3>1, Zenon DEF Sent, TypeOK, Locals
    <3>2. CASE ~local[h].head
      BY <1>1, <1>15, <3>2, SMTT(30) DEF Sent, TypeOK, Locals
    <3> QED BY <3>1, <3>2
  <2>4. pc'[h] # "sending"
    BY <1>15 DEF Sent, Goto, TypeOK
  <2> QED BY <1>2, <1>3, <2>1, <2>2, <2>3, <2>4, SendsFrame
<1> QED BY <1>4, <1>5, <1>6, <1>7, <1>8, <1>9, <1>10, <1>11, <1>12, <1>13, <1>14, <1>15,
     SendsPuts DEF Step

LEMMA SendsKept ==
  ASSUME TypeOK, Fits, Sends, [Next]_vars
  PROVE  Sends'
<1>1. CASE Peer
  <2>1. /\ job' = job /\ pc' = pc /\ local' = local /\ out' = out /\ blocking' = blocking
        /\ peer' = "open" => peer = "open"
    BY <1>1 DEF Peer
  <2> QED BY <2>1, SendsFrame
<1>2. CASE UNCHANGED vars
  BY <1>2 DEF vars, Sends, Undisturbed
<1> QED BY <1>1, <1>2, SendsStep DEF Next, Finished

LEMMA SendsWhole ==
  ASSUME TypeOK, Sends
  PROVE  SentWhole
<1> SUFFICES ASSUME Undisturbed, peer = "open", NEW h \in Handler
             PROVE  /\ \A i \in 1..local[h].acked : \E k \in DOMAIN out : out[k] = <<h, i>>
                    /\ (\A g \in Handler \ {h} : job[g] \notin Senders) =>
                         \A k \in DOMAIN out : out[k] = <<h, k>>
  BY DEF SentWhole
<1>1. local[h].pos \in Nat /\ local[h].acked \in Nat /\ local[h].acked <= local[h].pos
  BY LocalsFields DEF Sends, TypeOK
<1>2. DOMAIN out = 1..Len(out)
  BY DEF TypeOK
<1>3. 1..local[h].acked \subseteq 1..local[h].pos
  BY <1>1
<1>4. \A i \in 1..local[h].acked : \E k \in 1..Len(out) : out[k] = <<h, i>>
  BY <1>3 DEF Sends
<1>5. (\A g \in Handler \ {h} : job[g] \notin Senders) =>
        \A k \in 1..Len(out) : out[k] = <<h, k>>
  BY DEF Sends
<1> QED BY <1>2, <1>4, <1>5

-----------------------------------------------------------------------------
(* What is received: the definitions of the invariant.                      *)

\* A handler is in a receive: what it has taken is not yet its client's.
InCall(h) == pc[h] \in {"receiving", "received"}
Receiving(h) == pc[h] \in {"recv", "receiving", "received"}

Ascending(s) == \A i, j \in 1..Len(s) : i < j => s[i] < s[j]

\* What a client was given, and then what its handler has in hand, are in the
\* stream's order and come from what was taken.
Ordered ==
  \A h \in Handler :
    /\ Ascending(stdout[h])
    /\ \A i \in 1..Len(stdout[h]) : stdout[h][i] <= taken
    /\ InCall(h) =>
         /\ Ascending(local[h].buf)
         /\ \A i \in 1..Len(local[h].buf) : local[h].buf[i] <= taken
         /\ \A i \in 1..Len(stdout[h]), j \in 1..Len(local[h].buf) :
              stdout[h][i] < local[h].buf[j]

Apart ==
  \A g, h \in Handler : \A p \in 1..taken : Holds(g, p) /\ Holds(h, p) => g = h

Covered ==
  gone = {} /\ (\A h \in Handler : job[h] # "nms_recv") =>
    \A p \in 1..taken : \E h \in Handler : Holds(h, p)

\* A receive that failed has taken nothing: recv(2) waits for more only after it
\* has taken something, and an error after that is a short receive.
FailsEmpty ==
  \A h \in Handler :
    /\ pc[h] = "receiving" => ~local[h].fail /\ (~local[h].wait => local[h].buf = <<>>)
    /\ pc[h] = "received" /\ local[h].fail => local[h].buf = <<>>

\* The first packet of the stream, which an nms_recv that has the socket to
\* itself receives: first the head, then what the head says; a head cut short
\* by the end of the stream is followed by no body.
PacketLen == Length(SubSeq(Inbound, 1, 2))
Packet == [i \in 1..PacketLen |-> i + 2]

Alone(h) == job[h] = "nms_recv" /\ \A g \in Handler \ {h} : job[g] \notin Receivers

Got(h) == IF InCall(h) THEN local[h].buf ELSE <<>>

Ended == taken = arrived /\ peer = "closed"

PacketSoFar(h) ==
  /\ pc[h] = "setup" => taken = 0 /\ stdout[h] = <<>>
  /\ Receiving(h) => stdout[h] = <<>>
  /\ Receiving(h) /\ local[h].head =>
       /\ local[h].want = 2
       /\ taken = Len(Got(h))
       /\ \A i \in 1..Len(Got(h)) : Got(h)[i] = i
  /\ Receiving(h) /\ ~local[h].head =>
       \/ /\ local[h].want = PacketLen
          /\ taken = Len(Got(h)) + 2
          /\ \A i \in 1..Len(Got(h)) : Got(h)[i] = i + 2
       \/ local[h].want # 0 /\ Got(h) = <<>> /\ Ended
  /\ pc[h] = "receiving" => local[h].wait
  /\ pc[h] = "received" => Len(Got(h)) = local[h].want \/ Ended
  /\ pc[h] \in {"reset", "done"} => stdout[h] = <<>> \/ stdout[h] = Packet

FirstPacket == \A h \in Handler : Alone(h) => PacketSoFar(h)

Received == Ordered /\ Apart /\ Covered /\ FailsEmpty /\ FirstPacket

-----------------------------------------------------------------------------
(* Sequences in ascending order.                                            *)

\* p is an element of the sequence s.
Has(s, p) == \E i \in 1..Len(s) : s[i] = p

LEMMA ConcatParts ==
  ASSUME NEW S, NEW s \in Seq(S), NEW t \in Seq(S)
  PROVE  /\ s \o t \in Seq(S)
         /\ Len(s) \in Nat /\ Len(t) \in Nat
         /\ Len(s \o t) = Len(s) + Len(t)
         /\ \A k \in 1..Len(s) : (s \o t)[k] = s[k]
         /\ \A k \in 1..Len(t) : (s \o t)[Len(s) + k] = t[k]
         /\ \A k \in 1..Len(s \o t) :
              \/ k \in 1..Len(s) /\ (s \o t)[k] = s[k]
              \/ k - Len(s) \in 1..Len(t) /\ (s \o t)[k] = t[k - Len(s)]
OBVIOUS

LEMMA ConcatAscending ==
  ASSUME NEW n \in Nat, NEW s \in Seq(1..n), NEW t \in Seq(1..n),
         Ascending(s), Ascending(t),
         \A i \in 1..Len(s), j \in 1..Len(t) : s[i] < t[j]
  PROVE  Ascending(s \o t)
<1> SUFFICES ASSUME NEW i \in 1..Len(s \o t), NEW j \in 1..Len(s \o t), i < j
             PROVE  (s \o t)[i] < (s \o t)[j]
  BY DEF Ascending
<1>1. Len(s) \in Nat /\ Len(t) \in Nat /\ Len(s \o t) = Len(s) + Len(t)
  BY ConcatParts
<1>2. \/ i \in 1..Len(s) /\ (s \o t)[i] = s[i]
      \/ i - Len(s) \in 1..Len(t) /\ (s \o t)[i] = t[i - Len(s)]
  BY ConcatParts
<1>3. \/ j \in 1..Len(s) /\ (s \o t)[j] = s[j]
      \/ j - Len(s) \in 1..Len(t) /\ (s \o t)[j] = t[j - Len(s)]
  BY ConcatParts
<1> DEFINE a == i - Len(s)
           b == j - Len(s)
<1>4. a < b /\ ~(j \in 1..Len(s) /\ a \in 1..Len(t))
  BY <1>1
<1> HIDE DEF a, b
<1>5. CASE i \in 1..Len(s) /\ j \in 1..Len(s) /\ (s \o t)[i] = s[i] /\ (s \o t)[j] = s[j]
  <2>1. s[i] < s[j]
    BY <1>5 DEF Ascending
  <2> QED BY <1>5, <2>1
<1>6. CASE i \in 1..Len(s) /\ b \in 1..Len(t) /\ (s \o t)[i] = s[i] /\ (s \o t)[j] = t[b]
  <2>1. s[i] < t[b]
    BY <1>6
  <2> QED BY <1>6, <2>1
<1>7. CASE a \in 1..Len(t) /\ b \in 1..Len(t) /\ (s \o t)[i] = t[a] /\ (s \o t)[j] = t[b]
  <2>1. t[a] < t[b]
    BY <1>4, <1>7 DEF Ascending
  <2> QED BY <1>7, <2>1
<1> QED BY <1>2, <1>3, <1>4, <1>5, <1>6, <1>7 DEF a, b

LEMMA ConcatHolds ==
  ASSUME NEW n \in Nat, NEW s \in Seq(1..n), NEW t \in Seq(1..n), NEW p
  PROVE  Has(s \o t, p) <=> Has(s, p) \/ Has(t, p)
<1>1. Len(s) \in Nat /\ Len(t) \in Nat /\ Len(s \o t) = Len(s) + Len(t)
  BY ConcatParts
<1>2. ASSUME NEW i \in 1..Len(s), s[i] = p
      PROVE  \E k \in 1..Len(s \o t) : (s \o t)[k] = p
  <2>1. i \in 1..Len(s \o t) /\ (s \o t)[i] = p
    BY <1>1, <1>2, ConcatParts
  <2> QED BY <2>1
<1>3. ASSUME NEW i \in 1..Len(t), t[i] = p
      PROVE  \E k \in 1..Len(s \o t) : (s \o t)[k] = p
  <2>1. Len(s) + i \in 1..Len(s \o t)
    BY <1>1
  <2>2. (s \o t)[Len(s) + i] = p
    BY <1>3, ConcatParts
  <2> QED BY <2>1, <2>2
<1>4. ASSUME NEW k \in 1..Len(s \o t), (s \o t)[k] = p
      PROVE  Has(s, p) \/ Has(t, p)
  <2>1. \/ k \in 1..Len(s) /\ s[k] = p
        \/ k - Len(s) \in 1..Len(t) /\ t[k - Len(s)] = p
    BY <1>4, ConcatParts
  <2> QED BY <2>1 DEF Has
<1> QED BY <1>2, <1>3, <1>4 DEF Has

\* The bytes taken at once: the next n of the stream.
LEMMA NextBytes ==
  ASSUME NEW m \in Nat, NEW n \in Nat, m + n <= Len(Inbound)
  PROVE  LET t == [i \in 1..n |-> m + i]
         IN  /\ t \in Seq(1..Len(Inbound)) /\ Len(t) = n
             /\ \A i \in 1..n : t[i] = m + i
             /\ Ascending(t)
<1> DEFINE t == [i \in 1..n |-> m + i]
<1>1. \A i \in 1..n : m + i \in 1..Len(Inbound)
  BY ConstantsType
<1>2. t \in Seq(1..Len(Inbound)) /\ Len(t) = n /\ \A i \in 1..n : t[i] = m + i
  BY <1>1
<1>3. Ascending(t)
  <2> HIDE DEF t
  <2>1. \A i, j \in 1..n : i < j => m + i < m + j
    OBVIOUS
  <2> QED BY <1>2, <2>1 DEF Ascending
<1> QED BY <1>2, <1>3

LEMMA HoldsIs ==
  ASSUME TypeOK, NEW h \in Handler, NEW p
  PROVE  /\ stdout[h] \in Seq(1..Len(Inbound)) /\ local[h].buf \in Seq(1..Len(Inbound))
         /\ Len(stdout[h]) \in Nat /\ Len(local[h].buf) \in Nat
         /\ Holds(h, p) <=> \/ Has(stdout[h], p)
                            \/ InCall(h) /\ Has(local[h].buf, p)
<1>1. stdout[h] \in Seq(1..Len(Inbound)) /\ local[h].buf \in Seq(1..Len(Inbound))
  BY LocalsFields DEF TypeOK
<1>2. DOMAIN stdout[h] = 1..Len(stdout[h]) /\ DOMAIN local[h].buf = 1..Len(local[h].buf)
      /\ Len(stdout[h]) \in Nat /\ Len(local[h].buf) \in Nat
  BY <1>1
<1> QED BY <1>1, <1>2 DEF Holds, InCall, Has

-----------------------------------------------------------------------------
(* What each step does to what is received.                                 *)

\* The other handlers, and what no step of a handler changes.
Aside(h) ==
  /\ \A g \in Handler \ {h} : pc'[g] = pc[g] /\ local'[g] = local[g] /\ stdout'[g] = stdout[g]
  /\ UNCHANGED <<job, peer, arrived>>

LEMMA StepAside ==
  ASSUME TypeOK, NEW h \in Handler, Step(h)
  PROVE  Aside(h)
<1>1. /\ \A g \in Handler \ {h} : pc'[g] = pc[g]
      /\ \A g \in Handler \ {h} : local'[g] = local[g]
  BY DEF TypeOK, Goto, Step, Setup, RecvCall, Takes, TakesNothing, Deliver, Reset,
     NmsHeadReceived, NmsBodyReceived, GetPacket, SendCall, Puts, PutsNothing, Sent
<1>2. \A g \in Handler \ {h} : stdout'[g] = stdout[g]
  BY DEF TypeOK, ToClient, Step, Setup, RecvCall, Takes, TakesNothing, Deliver, Reset,
     NmsHeadReceived, NmsBodyReceived, GetPacket, SendCall, Puts, PutsNothing, Sent
<1>3. UNCHANGED <<job, peer, arrived>>
  BY DEF Step, Setup, RecvCall, Takes, TakesNothing, Deliver, Reset, NmsHeadReceived,
     NmsBodyReceived, GetPacket, SendCall, Puts, PutsNothing, Sent, OthersUnchanged,
     InUnchanged
<1> QED BY <1>1, <1>2, <1>3 DEF Aside

LEMMA SetupIs ==
  ASSUME TypeOK, NEW h \in Handler, Setup(h)
  PROVE  /\ pc[h] = "setup" /\ pc'[h] = "recv"
         /\ UNCHANGED <<stdout, gone, taken>>
         /\ job[h] = "nms_recv" => local'[h].head /\ local'[h].want = 2
<1>1. pc[h] = "setup" /\ pc'[h] = "recv" /\ UNCHANGED <<stdout, gone, taken>>
  BY DEF Setup, Goto, At, TypeOK, InUnchanged
<1>2. ASSUME job[h] = "nms_recv"
      PROVE  local' = [local EXCEPT ![h] = [local[h] EXCEPT !.want = 2, !.head = TRUE]]
  BY <1>2 DEF Setup, TypeOK
<1>3. local[h] \in Locals
  BY DEF TypeOK
<1>4. job[h] = "nms_recv" => local'[h].head /\ local'[h].want = 2
  BY <1>2, <1>3 DEF TypeOK, Locals
<1> QED BY <1>1, <1>4

LEMMA RecvCallIs ==
  ASSUME TypeOK, NEW h \in Handler, RecvCall(h)
  PROVE  /\ pc[h] = "recv" /\ pc'[h] = "receiving"
         /\ UNCHANGED <<stdout, gone, taken>>
         /\ local'[h].wait = blocking /\ local'[h].buf = <<>> /\ ~local'[h].fail
         /\ local'[h].head = local[h].head /\ local'[h].want = local[h].want
<1>1. pc[h] = "recv" /\ pc'[h] = "receiving" /\ UNCHANGED <<stdout, gone, taken>>
  BY DEF RecvCall, Goto, At, TypeOK, InUnchanged
<1>2. local[h] \in Locals
  BY DEF TypeOK
<1>3. local'[h] = [local[h] EXCEPT !.wait = blocking, !.buf = <<>>, !.fail = FALSE]
  BY DEF RecvCall, TypeOK
<1> QED BY <1>1, <1>2, <1>3 DEF Locals

LEMMA TakesIs ==
  ASSUME TypeOK, Fits, NEW h \in Handler, Takes(h)
  PROVE  \E n \in Nat :
           /\ pc[h] = "receiving" /\ taken' = taken + n /\ taken + n <= arrived
           /\ UNCHANGED <<stdout, gone>>
           /\ local'[h].buf = local[h].buf \o [i \in 1..n |-> taken + i]
           /\ local'[h].fail = local[h].fail
           /\ local'[h].head = local[h].head /\ local'[h].want = local[h].want
           /\ \/ /\ pc'[h] = "receiving" /\ local'[h].wait = TRUE
              \/ /\ pc'[h] = "received"
                 /\ Waits(h) => Len(local[h].buf) + n = local[h].want
<1> DEFINE want == local[h].want - Len(local[h].buf)
           n    == Smaller(want, arrived - taken)
           more == Waits(h) /\ n < want
           buf  == local[h].buf \o [i \in 1..n |-> taken + i]
<1>1. local[h] \in Locals /\ arrived \in Nat /\ taken \in Nat /\ taken < arrived
  BY ConstantsType DEF TypeOK, Takes
<1>2. local[h].want \in Nat /\ Len(local[h].buf) \in Nat
  BY <1>1, LocalsFields
<1>3. want \in Nat
  BY <1>2 DEF Fits, Takes, At
<1>4. n \in Nat /\ n <= want /\ taken + n <= arrived
  <2> HIDE DEF want
  <2>1. arrived - taken \in Nat
    BY <1>1
  <2>2. n \in Nat /\ n <= want /\ n <= arrived - taken
    BY <1>3, <2>1, SmallerType
  <2> QED BY <1>1, <2>2
<1>5. pc[h] = "receiving" /\ taken' = taken + n /\ UNCHANGED <<stdout, gone>>
  BY DEF Takes, At
<1>6. local'[h] = [local[h] EXCEPT !.buf = buf, !.wait = more]
  BY DEF Takes, TypeOK
<1>7. IF more THEN pc' = pc ELSE Goto(h, "received")
  BY DEF Takes
<1>8. n = want => Len(local[h].buf) + n = local[h].want
  <2> HIDE DEF n
  <2> QED BY <1>2, <1>4
<1>9. n < want \/ n = want
  <2> HIDE DEF n, want
  <2> QED BY <1>3, <1>4
<1>10. /\ local'[h].buf = buf /\ local'[h].wait = more
       /\ local'[h].fail = local[h].fail
       /\ local'[h].head = local[h].head /\ local'[h].want = local[h].want
  <2> HIDE DEF buf, more
  <2> QED BY <1>1, <1>6 DEF Locals
<1>11. \/ pc'[h] = "receiving" /\ local'[h].wait = TRUE
       \/ /\ pc'[h] = "received"
          /\ Waits(h) => Len(local[h].buf) + n = local[h].want
  <2> HIDE DEF n, want
  <2>1. CASE more
    BY <1>5, <1>7, <1>10, <2>1
  <2>2. CASE ~more
    BY <1>7, <1>8, <1>9, <2>2 DEF Goto, TypeOK
  <2> QED BY <2>1, <2>2
<1> HIDE DEF n
<1> QED BY <1>4, <1>5, <1>10, <1>11

LEMMA TakesNothingIs ==
  ASSUME TypeOK, NEW h \in Handler, TakesNothing(h)
  PROVE  /\ pc[h] = "receiving" /\ pc'[h] = "received"
         /\ taken = arrived /\ (peer = "closed" \/ ~local[h].wait)
         /\ UNCHANGED <<stdout, gone, taken>>
         /\ local'[h].buf = local[h].buf /\ local'[h].fail = (peer # "closed")
         /\ local'[h].head = local[h].head /\ local'[h].want = local[h].want
<1>1. /\ pc[h] = "receiving" /\ pc'[h] = "received"
      /\ taken = arrived /\ (peer = "closed" \/ ~local[h].wait)
      /\ UNCHANGED <<stdout, gone, taken>>
  BY DEF TakesNothing, Goto, At, TypeOK, InUnchanged
<1>2. local[h] \in Locals
  BY DEF TypeOK
<1>3. local'[h] = [local[h] EXCEPT !.fail = peer # "closed", !.wait = FALSE]
  BY DEF TakesNothing, TypeOK
<1> QED BY <1>1, <1>2, <1>3, Zenon DEF Locals

\* What was received goes to the client, or the client is gone.
GivesOrLoses(h) ==
  \/ stdout'[h] = stdout[h] \o local[h].buf /\ gone' = gone
  \/ stdout'[h] = stdout[h] /\ gone' = gone \cup {h}

LEMMA ToClientIs ==
  ASSUME TypeOK, NEW h \in Handler, ToClient(h)
  PROVE  GivesOrLoses(h)
BY DEF ToClient, GivesOrLoses, TypeOK

LEMMA DeliverIs ==
  ASSUME TypeOK, NEW h \in Handler, Deliver(h)
  PROVE  /\ pc[h] = "received" /\ job[h] \in RecvJobs
         /\ pc'[h] \in {"recv", "reset"} /\ taken' = taken /\ local' = local
         /\ \/ local[h].fail /\ UNCHANGED <<stdout, gone>>
            \/ GivesOrLoses(h)
BY ToClientIs DEF Deliver, Goto, At, TypeOK, InUnchanged

LEMMA NmsHeadReceivedIs ==
  ASSUME TypeOK, NEW h \in Handler, NmsHeadReceived(h)
  PROVE  /\ pc[h] = "received" /\ local[h].head /\ job[h] = "nms_recv"
         /\ UNCHANGED <<stdout, gone, taken>>
         /\ \/ pc'[h] = "done"
            \/ /\ pc'[h] = "recv" /\ ~local'[h].head
               /\ local'[h].want \in HeadLengths(h) \ {0}
<1>1. /\ pc[h] = "received" /\ local[h].head /\ job[h] = "nms_recv"
      /\ UNCHANGED <<stdout, gone, taken>>
  BY DEF NmsHeadReceived, At, InUnchanged
<1>2. CASE Goto(h, "done")
  BY <1>1, <1>2 DEF Goto, TypeOK
<1>3. ASSUME NEW n \in HeadLengths(h) \ {0}, Goto(h, "recv"),
             local' = [local EXCEPT ![h] = [@ EXCEPT !.head = FALSE, !.want = n]]
      PROVE  pc'[h] = "recv" /\ ~local'[h].head /\ local'[h].want = n
  <2>1. local[h] \in Locals /\ pc'[h] = "recv"
    BY <1>3 DEF TypeOK, Goto
  <2>2. local'[h] = [local[h] EXCEPT !.head = FALSE, !.want = n]
    BY <1>3 DEF TypeOK
  <2> QED BY <2>1, <2>2 DEF Locals
<1> QED BY <1>1, <1>2, <1>3 DEF NmsHeadReceived

LEMMA NmsBodyReceivedIs ==
  ASSUME TypeOK, NEW h \in Handler, NmsBodyReceived(h)
  PROVE  /\ pc[h] = "received" /\ ~local[h].head /\ job[h] = "nms_recv"
         /\ pc'[h] = "done" /\ taken' = taken /\ local' = local
         /\ \/ UNCHANGED <<stdout, gone>>
            \/ Len(local[h].buf) = local[h].want /\ GivesOrLoses(h)
BY ToClientIs DEF NmsBodyReceived, Goto, At, TypeOK, InUnchanged

\* Reset and the steps of the commands that send.
LEMMA SendingIs ==
  ASSUME TypeOK, Fits, NEW h \in Handler,
         \/ Reset(h) \/ GetPacket(h) \/ SendCall(h)
         \/ Puts(h) \/ PutsNothing(h) \/ Sent(h)
  PROVE  /\ (pc[h] = "reset" /\ pc'[h] = "done") \/ job[h] \in Senders
         /\ pc[h] \notin {"setup", "recv", "receiving", "received"}
         /\ pc'[h] \notin {"setup", "recv", "receiving", "received"}
         /\ UNCHANGED <<stdout, taken>> /\ gone \subseteq gone'
BY DEF Reset, GetPacket, SendCall, Puts, PutsNothing, Sent, At, Goto, Fits, TypeOK,
   InUnchanged

\* A step either leaves what a handler holds as it is, or drops what it had in
\* hand, or gives it to the client, or takes the next bytes of the stream.
Quiet(h) ==
  /\ UNCHANGED <<stdout, taken>> /\ gone \subseteq gone'
  /\ InCall(h)' => local'[h].buf = IF InCall(h) THEN local[h].buf ELSE <<>>
  /\ InCall(h) => InCall(h)'

Drops(h) ==
  /\ UNCHANGED taken /\ stdout'[h] = stdout[h] /\ gone \subseteq gone' /\ ~InCall(h)'
  /\ h \in gone' \/ job[h] = "nms_recv" \/ (InCall(h) /\ local[h].fail)

Gives(h) ==
  /\ UNCHANGED <<taken, gone>> /\ InCall(h) /\ ~InCall(h)'
  /\ stdout'[h] = stdout[h] \o local[h].buf

Grows(h) ==
  /\ UNCHANGED <<stdout, gone>> /\ InCall(h) /\ InCall(h)'
  /\ \E n \in Nat :
       /\ taken' = taken + n /\ taken + n <= arrived
       /\ local'[h].buf = local[h].buf \o [i \in 1..n |-> taken + i]

LEMMA StepKinds ==
  ASSUME TypeOK, Fits, NEW h \in Handler, Step(h)
  PROVE  Quiet(h) \/ Drops(h) \/ Gives(h) \/ Grows(h)
<1>1. CASE Setup(h)
  BY <1>1, SetupIs DEF Quiet, InCall
<1>2. CASE RecvCall(h)
  BY <1>2, RecvCallIs DEF Quiet, InCall
<1>3. CASE Takes(h)
  BY <1>3, TakesIs DEF Grows, InCall
<1>4. CASE TakesNothing(h)
  BY <1>4, TakesNothingIs DEF Quiet, InCall
<1>5. CASE Deliver(h)
  <2>1. InCall(h) /\ ~InCall(h)' /\ taken' = taken
    BY <1>5, DeliverIs DEF InCall
  <2>2. CASE local[h].fail /\ UNCHANGED <<stdout, gone>>
    BY <2>1, <2>2 DEF Drops
  <2>3. CASE GivesOrLoses(h)
    BY <2>1, <2>3 DEF Drops, Gives, GivesOrLoses
  <2> QED BY <1>5, <2>2, <2>3, DeliverIs
<1>6. CASE NmsHeadReceived(h)
  <2>1. InCall(h) /\ ~InCall(h)' /\ job[h] = "nms_recv" /\ UNCHANGED <<stdout, gone, taken>>
    BY <1>6, NmsHeadReceivedIs DEF InCall
  <2> QED BY <2>1 DEF Drops
<1>7. CASE NmsBodyReceived(h)
  <2>1. InCall(h) /\ ~InCall(h)' /\ job[h] = "nms_recv" /\ taken' = taken
    BY <1>7, NmsBodyReceivedIs DEF InCall
  <2>2. CASE UNCHANGED <<stdout, gone>>
    BY <2>1, <2>2 DEF Drops
  <2>3. CASE GivesOrLoses(h)
    BY <2>1, <2>3 DEF Drops, Gives, GivesOrLoses
  <2> QED BY <1>7, <2>2, <2>3, NmsBodyReceivedIs
<1>8. CASE \/ Reset(h) \/ GetPacket(h) \/ SendCall(h)
           \/ Puts(h) \/ PutsNothing(h) \/ Sent(h)
  BY <1>8, SendingIs DEF Quiet, InCall
<1> QED BY <1>1, <1>2, <1>3, <1>4, <1>5, <1>6, <1>7, <1>8 DEF Step

\* What one handler holds is in order.
OrderedAt(h) ==
  /\ Ascending(stdout[h])
  /\ \A i \in 1..Len(stdout[h]) : stdout[h][i] <= taken
  /\ InCall(h) =>
       /\ Ascending(local[h].buf)
       /\ \A i \in 1..Len(local[h].buf) : local[h].buf[i] <= taken
       /\ \A i \in 1..Len(stdout[h]), j \in 1..Len(local[h].buf) :
            stdout[h][i] < local[h].buf[j]

LEMMA TakenType ==
  ASSUME TypeOK
  PROVE  taken \in Nat /\ arrived \in Nat /\ taken <= arrived /\ arrived <= Len(Inbound)
BY ConstantsType DEF TypeOK

\* A handler that the step does not concern: more may have been taken.
LEMMA OrderedAside ==
  ASSUME TypeOK, NEW h \in Handler, OrderedAt(h),
         pc'[h] = pc[h], local'[h] = local[h], stdout'[h] = stdout[h],
         taken' \in Nat, taken <= taken'
  PROVE  OrderedAt(h)'
<1>1. taken \in Nat /\ stdout[h] \in Seq(1..Len(Inbound)) /\ local[h].buf \in Seq(1..Len(Inbound))
  BY HoldsIs, TakenType
<1>2. /\ \A i \in 1..Len(stdout[h]) : stdout[h][i] \in Nat
      /\ \A i \in 1..Len(local[h].buf) : local[h].buf[i] \in Nat
  BY <1>1, ConstantsType
<1>3. \A n \in Nat : n <= taken => n <= taken'
  BY <1>1
<1> QED BY <1>2, <1>3 DEF OrderedAt, InCall

LEMMA OrderedStep ==
  ASSUME TypeOK, Fits, Ordered, TypeOK', NEW h \in Handler, Step(h)
  PROVE  Ordered'
<1>1. \A g \in Handler : OrderedAt(g)
  BY DEF Ordered, OrderedAt
<1>2. taken \in Nat /\ taken' \in Nat /\ taken <= taken'
  <2>1. taken \in Nat /\ taken' \in Nat
    BY ConstantsType DEF TypeOK
  <2>2. \/ taken' = taken
        \/ \E n \in Nat : taken' = taken + n
    BY StepKinds DEF Quiet, Drops, Gives, Grows
  <2> QED BY <2>1, <2>2
<1>3. ASSUME NEW g \in Handler \ {h}
      PROVE  OrderedAt(g)'
  BY <1>1, <1>2, OrderedAside, StepAside DEF Aside
<1> DEFINE s == stdout[h]
           b == local[h].buf
           N == Len(Inbound)
<1>4. N \in Nat /\ s \in Seq(1..N) /\ b \in Seq(1..N) /\ Len(s) \in Nat /\ Len(b) \in Nat
  BY HoldsIs, ConstantsType
<1>5. /\ Ascending(s) /\ \A i \in 1..Len(s) : s[i] <= taken
      /\ InCall(h) =>
           /\ Ascending(b) /\ \A i \in 1..Len(b) : b[i] <= taken
           /\ \A i \in 1..Len(s), j \in 1..Len(b) : s[i] < b[j]
  BY <1>1 DEF OrderedAt
<1>6. Len(<<>>) = 0 /\ Ascending(<<>>)
  BY DEF Ascending
<1>7. ASSUME Quiet(h) PROVE OrderedAt(h)'
  <2>1. stdout'[h] = s /\ taken' = taken
    BY <1>7 DEF Quiet
  <2>2. InCall(h)' => \/ local'[h].buf = b /\ InCall(h)
                      \/ local'[h].buf = <<>>
    BY <1>7 DEF Quiet
  <2> HIDE DEF s, b
  <2> QED BY <1>5, <1>6, <2>1, <2>2 DEF OrderedAt
<1>8. ASSUME Drops(h) PROVE OrderedAt(h)'
  BY <1>5, <1>8 DEF Drops, OrderedAt
<1>9. ASSUME Gives(h) PROVE OrderedAt(h)'
  <2>1. stdout'[h] = s \o b /\ taken' = taken /\ ~InCall(h)' /\ InCall(h)
    BY <1>9 DEF Gives
  <2> HIDE DEF s, b, N
  <2>2. Ascending(s \o b)
    BY <1>4, <1>5, <2>1, ConcatAscending
  <2>3. \A i \in 1..Len(s \o b) : (s \o b)[i] <= taken
    BY <1>4, <1>5, <2>1, ConcatParts
  <2> QED BY <2>1, <2>2, <2>3 DEF OrderedAt
<1>10. ASSUME Grows(h) PROVE OrderedAt(h)'
  <2>1. PICK n \in Nat : /\ taken' = taken + n /\ taken + n <= arrived
                         /\ local'[h].buf = b \o [i \in 1..n |-> taken + i]
    BY <1>10 DEF Grows
  <2> DEFINE t == [i \in 1..n |-> taken + i]
  <2>2. stdout'[h] = s /\ InCall(h)
    BY <1>10 DEF Grows
  <2>3. taken + n <= Len(Inbound)
    BY <1>2, <2>1, ConstantsType DEF TypeOK
  <2>4. t \in Seq(1..N) /\ Len(t) = n /\ Ascending(t) /\ \A i \in 1..n : t[i] = taken + i
    BY <1>2, <2>3, NextBytes
  <2> HIDE DEF s, b, N, t
  <2>5. local'[h].buf = b \o t
    BY <2>1 DEF t
  <2>6. /\ \A i \in 1..Len(s) : s[i] \in Nat
        /\ \A i \in 1..Len(b) : b[i] \in Nat
    BY <1>4
  <2>7. Ascending(b \o t)
    <3>1. \A i \in 1..Len(b), j \in 1..Len(t) : b[i] < t[j]
      BY <1>2, <1>5, <2>2, <2>4, <2>6
    <3> QED BY <1>4, <1>5, <2>2, <2>4, <3>1, ConcatAscending
  <2>8. ASSUME NEW k \in 1..Len(b \o t)
        PROVE  /\ (b \o t)[k] <= taken'
               /\ \A i \in 1..Len(s) : s[i] < (b \o t)[k]
    <3>1. CASE k \in 1..Len(b) /\ (b \o t)[k] = b[k]
      BY <1>2, <1>5, <2>1, <2>2, <2>6, <3>1
    <3>2. CASE k - Len(b) \in 1..Len(t) /\ (b \o t)[k] = t[k - Len(b)]
      <4>1. (b \o t)[k] = taken + (k - Len(b)) /\ k - Len(b) \in 1..n
        BY <2>4, <3>2
      <4> QED BY <1>2, <1>4, <1>5, <2>1, <2>6, <4>1
    <3>3. \/ k \in 1..Len(b) /\ (b \o t)[k] = b[k]
          \/ k - Len(b) \in 1..Len(t) /\ (b \o t)[k] = t[k - Len(b)]
      BY <1>4, <2>4, ConcatParts
    <3> QED BY <3>1, <3>2, <3>3
  <2>9. \A i \in 1..Len(s) : s[i] <= taken'
    BY <1>2, <1>5, <2>1, <2>6
  <2> QED BY <1>5, <2>2, <2>5, <2>7, <2>8, <2>9 DEF OrderedAt
<1>11. OrderedAt(h)'
  BY <1>7, <1>8, <1>9, <1>10, StepKinds
<1>12. \A g \in Handler : OrderedAt(g)'
  BY <1>3, <1>11
<1> QED BY <1>12 DEF Ordered, OrderedAt

LEMMA HoldsNext ==
  ASSUME TypeOK', NEW h \in Handler, NEW p
  PROVE  /\ stdout'[h] \in Seq(1..Len(Inbound)) /\ local'[h].buf \in Seq(1..Len(Inbound))
         /\ Holds(h, p)' <=>
              \/ Has(stdout'[h], p)
              \/ InCall(h)' /\ Has(local'[h].buf, p)
<1>1. stdout'[h] \in Seq(1..Len(Inbound)) /\ local'[h] \in Locals
  BY DEF TypeOK
<1>2. local'[h].buf \in Seq(1..Len(Inbound))
  BY <1>1, LocalsFields
<1>3. DOMAIN stdout'[h] = 1..Len(stdout'[h]) /\ DOMAIN local'[h].buf = 1..Len(local'[h].buf)
  BY <1>1, <1>2
<1>4. Holds(h, p)' <=>
        \/ \E i \in DOMAIN stdout'[h] : stdout'[h][i] = p
        \/ InCall(h)' /\ \E i \in DOMAIN local'[h].buf : local'[h].buf[i] = p
  BY DEF Holds, InCall
<1> QED BY <1>1, <1>2, <1>3, <1>4 DEF Has

\* What a handler holds after a step: only a handler that takes bytes comes to
\* hold one, and those are bytes nobody had taken.
LEMMA HoldsAside ==
  ASSUME TypeOK, TypeOK', NEW h \in Handler, NEW g \in Handler \ {h}, Aside(h), NEW p
  PROVE  Holds(g, p)' <=> Holds(g, p)
BY DEF Aside, Holds

LEMMA HoldsQuiet ==
  ASSUME TypeOK, TypeOK', NEW h \in Handler, Quiet(h), NEW p
  PROVE  Holds(h, p)' <=> Holds(h, p)
<1>1. /\ Holds(h, p) <=> \/ Has(stdout[h], p)
                         \/ InCall(h) /\ Has(local[h].buf, p)
  BY HoldsIs
<1>2. Holds(h, p)' <=> \/ Has(stdout'[h], p)
                       \/ InCall(h)' /\ Has(local'[h].buf, p)
  BY HoldsNext
<1>3. stdout'[h] = stdout[h]
  BY DEF Quiet
<1>4. ~Has(<<>>, p)
  BY DEF Has
<1>5. \/ InCall(h) /\ InCall(h)' /\ local'[h].buf = local[h].buf
      \/ ~InCall(h) /\ InCall(h)' /\ local'[h].buf = <<>>
      \/ ~InCall(h) /\ ~InCall(h)'
  BY DEF Quiet
<1> QED BY <1>1, <1>2, <1>3, <1>4, <1>5

LEMMA HoldsDrops ==
  ASSUME TypeOK, TypeOK', NEW h \in Handler, Drops(h), NEW p, Holds(h, p)'
  PROVE  Holds(h, p)
<1>1. Holds(h, p) <=> \/ Has(stdout[h], p)
                      \/ InCall(h) /\ Has(local[h].buf, p)
  BY HoldsIs
<1>2. Holds(h, p)' <=> \/ Has(stdout'[h], p)
                       \/ InCall(h)' /\ Has(local'[h].buf, p)
  BY HoldsNext
<1> QED BY <1>1, <1>2 DEF Drops

LEMMA HoldsGives ==
  ASSUME TypeOK, TypeOK', NEW h \in Handler, Gives(h), NEW p
  PROVE  Holds(h, p)' <=> Holds(h, p)
<1> DEFINE s == stdout[h]
           b == local[h].buf
<1>1. /\ s \in Seq(1..Len(Inbound)) /\ b \in Seq(1..Len(Inbound))
      /\ Holds(h, p) <=> \/ Has(s, p)
                         \/ InCall(h) /\ Has(b, p)
  BY HoldsIs
<1>2. Holds(h, p)' <=> \/ Has(stdout'[h], p)
                       \/ InCall(h)' /\ Has(local'[h].buf, p)
  BY HoldsNext
<1>3. stdout'[h] = s \o b /\ InCall(h) /\ ~InCall(h)'
  BY DEF Gives
<1> HIDE DEF s, b
<1>4. Has(s \o b, p) <=> Has(s, p) \/ Has(b, p)
  <2>1. Len(Inbound) \in Nat
    BY ConstantsType
  <2> QED BY <1>1, <2>1, ConcatHolds, Zenon
<1> QED BY <1>1, <1>2, <1>3, <1>4

LEMMA HoldsGrows ==
  ASSUME TypeOK, TypeOK', NEW h \in Handler, Grows(h), NEW p \in Nat
  PROVE  Holds(h, p)' <=> Holds(h, p) \/ p \in (taken + 1)..taken'
<1> DEFINE s == stdout[h]
           b == local[h].buf
<1>1. PICK n \in Nat : /\ taken' = taken + n /\ taken + n <= arrived
                       /\ local'[h].buf = b \o [i \in 1..n |-> taken + i]
  BY DEF Grows
<1> DEFINE t == [i \in 1..n |-> taken + i]
<1>2. stdout'[h] = s /\ InCall(h) /\ InCall(h)'
  BY DEF Grows
<1>3. taken \in Nat /\ taken + n <= Len(Inbound)
  BY <1>1, TakenType
<1>4. t \in Seq(1..Len(Inbound)) /\ Len(t) = n /\ \A i \in 1..n : t[i] = taken + i
  BY <1>3, NextBytes
<1>5. /\ s \in Seq(1..Len(Inbound)) /\ b \in Seq(1..Len(Inbound))
      /\ Holds(h, p) <=> \/ Has(s, p)
                         \/ InCall(h) /\ Has(b, p)
  BY HoldsIs
<1>6. Holds(h, p)' <=> \/ Has(stdout'[h], p)
                       \/ InCall(h)' /\ Has(local'[h].buf, p)
  BY HoldsNext
<1>7. Has(t, p) <=> p \in (taken + 1)..taken'
  <2> HIDE DEF t
  <2>1. ASSUME p \in (taken + 1)..taken' PROVE Has(t, p)
    <3>1. p - taken \in 1..n /\ taken + (p - taken) = p
      BY <1>1, <1>3, <2>1
    <3> QED BY <1>4, <3>1 DEF Has
  <2>2. ASSUME NEW i \in 1..Len(t), t[i] = p PROVE p \in (taken + 1)..taken'
    <3>1. p = taken + i /\ i \in 1..n
      BY <1>4, <2>2
    <3> QED BY <1>1, <1>3, <3>1
  <2> QED BY <2>1, <2>2 DEF Has
<1> HIDE DEF s, b, t
<1>8. Has(b \o t, p) <=> Has(b, p) \/ Has(t, p)
  <2>1. Len(Inbound) \in Nat
    BY ConstantsType
  <2> QED BY <1>4, <1>5, <2>1, ConcatHolds, Zenon
<1>9. local'[h].buf = b \o t
  BY <1>1 DEF b, t
<1> QED BY <1>2, <1>5, <1>6, <1>7, <1>8, <1>9

LEMMA HoldsTaken ==
  ASSUME TypeOK, Ordered, NEW h \in Handler, NEW p, Holds(h, p)
  PROVE  p \in 1..taken
<1>1. /\ stdout[h] \in Seq(1..Len(Inbound)) /\ local[h].buf \in Seq(1..Len(Inbound))
      /\ \/ Has(stdout[h], p)
         \/ InCall(h) /\ Has(local[h].buf, p)
  BY HoldsIs
<1>2. p \in 1..Len(Inbound)
  BY <1>1 DEF Has
<1>3. p <= taken
  BY <1>1 DEF Ordered, Has
<1> QED BY <1>2, <1>3, TakenType

LEMMA HoldsAfter ==
  ASSUME TypeOK, TypeOK', Fits, NEW h \in Handler, Step(h), NEW g \in Handler, NEW p \in Nat,
         Holds(g, p)'
  PROVE  Holds(g, p) \/ (g = h /\ ~(p <= taken))
<1>1. CASE g # h
  BY <1>1, StepAside, HoldsAside
<1>2. CASE g = h
  <2>1. p \in (taken + 1)..taken' => ~(p <= taken)
    BY TakenType
  <2> QED BY <1>2, <2>1, StepKinds, HoldsQuiet, HoldsDrops, HoldsGives, HoldsGrows
<1> QED BY <1>1, <1>2

LEMMA ApartStep ==
  ASSUME TypeOK, TypeOK', Fits, Ordered, Apart, NEW h \in Handler, Step(h)
  PROVE  Apart'
<1> SUFFICES ASSUME NEW f \in Handler, NEW g \in Handler, NEW p \in 1..taken',
                    Holds(f, p)', Holds(g, p)'
             PROVE  f = g
  BY DEF Apart
<1>1. p \in Nat
  BY DEF TypeOK
<1>2. /\ Holds(f, p) \/ (f = h /\ ~(p <= taken))
      /\ Holds(g, p) \/ (g = h /\ ~(p <= taken))
  BY <1>1, HoldsAfter
<1>3. Holds(f, p) \/ Holds(g, p) => p \in 1..taken /\ p <= taken
  <2>1. Holds(f, p) \/ Holds(g, p) => p \in 1..taken
    BY HoldsTaken
  <2> QED BY <2>1, TakenType
<1> QED BY <1>2, <1>3 DEF Apart

LEMMA CoveredStep ==
  ASSUME TypeOK, TypeOK', Fits, Covered, FailsEmpty, NEW h \in Handler, Step(h)
  PROVE  Covered'
<1> SUFFICES ASSUME gone' = {}, \A g \in Handler : job'[g] # "nms_recv", NEW p \in 1..taken'
             PROVE  \E g \in Handler : Holds(g, p)'
  BY DEF Covered
<1>1. p \in Nat /\ taken \in Nat /\ taken' \in Nat
  BY TakenType DEF TypeOK
<1>2. Aside(h)
  BY StepAside
<1>3. /\ \A g \in Handler : job[g] # "nms_recv"
      /\ gone = {}
  BY <1>2, StepKinds DEF Aside, Quiet, Drops, Gives, Grows
<1>4. ASSUME NEW g \in Handler, Holds(g, p) PROVE Holds(g, p)'
  <2>1. CASE g # h
    BY <1>2, <1>4, <2>1, HoldsAside
  <2>2. ASSUME g = h, Drops(h) PROVE Holds(h, p)'
    <3>1. local[h].buf = <<>> /\ stdout'[h] = stdout[h]
      BY <1>3, <2>2 DEF Drops, FailsEmpty, InCall
    <3>2. ~Has(<<>>, p)
      BY DEF Has
    <3>3. Has(stdout[h], p)
      BY <1>4, <2>2, <3>1, <3>2, HoldsIs
    <3> QED BY <3>1, <3>3, HoldsNext
  <2> QED BY <1>1, <1>4, <2>1, <2>2, StepKinds, HoldsQuiet, HoldsGives, HoldsGrows
<1>5. CASE p \in 1..taken
  BY <1>3, <1>4, <1>5 DEF Covered
<1>6. CASE p \notin 1..taken
  <2>1. taken' # taken /\ p \in (taken + 1)..taken'
    BY <1>1, <1>6
  <2>2. Grows(h)
    BY <2>1, StepKinds DEF Quiet, Drops, Gives
  <2> QED BY <1>1, <2>1, <2>2, HoldsGrows
<1> QED BY <1>5, <1>6

LEMMA FailsEmptyStep ==
  ASSUME TypeOK, Fits, FailsEmpty, NEW h \in Handler, Step(h)
  PROVE  FailsEmpty'
<1> DEFINE Right(g) ==
      /\ pc'[g] = "receiving" => ~local'[g].fail /\ (~local'[g].wait => local'[g].buf = <<>>)
      /\ pc'[g] = "received" /\ local'[g].fail => local'[g].buf = <<>>
<1>1. ASSUME NEW g \in Handler \ {h} PROVE Right(g)
  BY StepAside DEF Aside, FailsEmpty
<1>2. ASSUME Setup(h) \/ RecvCall(h) PROVE Right(h)
  BY <1>2, SetupIs, RecvCallIs
<1>3. ASSUME Takes(h) PROVE Right(h)
  <2>1. ~local'[h].fail
    BY <1>3, TakesIs DEF FailsEmpty
  <2>2. pc'[h] = "receiving" => local'[h].wait
    BY <1>3, TakesIs
  <2> QED BY <2>1, <2>2
<1>4. ASSUME TakesNothing(h) PROVE Right(h)
  <2>1. local'[h].fail => local[h].buf = <<>>
    BY <1>4, TakesNothingIs DEF FailsEmpty
  <2> QED BY <1>4, <2>1, TakesNothingIs
<1>5. ASSUME Deliver(h) \/ NmsHeadReceived(h) \/ NmsBodyReceived(h) PROVE Right(h)
  BY <1>5, DeliverIs, NmsHeadReceivedIs, NmsBodyReceivedIs
<1>6. ASSUME \/ Reset(h) \/ GetPacket(h) \/ SendCall(h)
             \/ Puts(h) \/ PutsNothing(h) \/ Sent(h)
      PROVE  Right(h)
  BY <1>6, SendingIs
<1>7. Right(h)
  <2> HIDE DEF Right
  <2> QED BY <1>2, <1>3, <1>4, <1>5, <1>6 DEF Step
<1> QED BY <1>1, <1>7 DEF FailsEmpty

-----------------------------------------------------------------------------
(* An nms_recv that has the socket to itself.                               *)

\* No other command clears the mode, so its receives wait for all they want.
LEMMA AloneBlocks ==
  ASSUME TypeOK, BlockingAtRest, NEW h \in Handler, Alone(h)
  PROVE  blocking /\ WaitAll(h)
<1>1. \A g \in Handler : job[g] \notin NonBlocking
  BY DEF Alone, Receivers, RecvJobs, NonBlocking
<1>2. blocking = TRUE
  BY <1>1 DEF BlockingAtRest, TypeOK
<1> QED BY <1>2 DEF Alone, WaitAll

\* Bytes taken in a row stay in a row.
LEMMA RowGrows ==
  ASSUME NEW m \in Nat, NEW n \in Nat, NEW d \in Nat, m + n <= Len(Inbound),
         NEW s \in Seq(1..Len(Inbound)), m = Len(s) + d,
         \A i \in 1..Len(s) : s[i] = i + d
  PROVE  LET r == s \o [i \in 1..n |-> m + i]
         IN  Len(r) = Len(s) + n /\ \A i \in 1..Len(r) : r[i] = i + d
<1> DEFINE t == [i \in 1..n |-> m + i]
<1>1. t \in Seq(1..Len(Inbound)) /\ Len(t) = n /\ \A i \in 1..n : t[i] = m + i
  BY NextBytes
<1> HIDE DEF t
<1>2. Len(s) \in Nat /\ Len(s \o t) = Len(s) + n
  BY <1>1, ConcatParts
<1>3. ASSUME NEW i \in 1..Len(s \o t) PROVE (s \o t)[i] = i + d
  <2>1. \/ i \in 1..Len(s) /\ (s \o t)[i] = s[i]
        \/ i - Len(s) \in 1..Len(t) /\ (s \o t)[i] = t[i - Len(s)]
    BY <1>1, ConcatParts
  <2>2. ASSUME i - Len(s) \in 1..Len(t), (s \o t)[i] = t[i - Len(s)]
        PROVE  (s \o t)[i] = i + d
    <3>1. t[i - Len(s)] = m + (i - Len(s))
      BY <1>1, <2>2
    <3> QED BY <1>2, <2>2, <3>1
  <2> QED BY <2>1, <2>2
<1> QED BY <1>2, <1>3 DEF t

LEMMA PacketTakes ==
  ASSUME TypeOK, Fits, BlockingAtRest, NEW h \in Handler, Alone(h), PacketSoFar(h), Takes(h)
  PROVE  PacketSoFar(h)'
<1>1. PICK n \in Nat :
           /\ pc[h] = "receiving" /\ taken' = taken + n /\ taken + n <= arrived
           /\ UNCHANGED <<stdout, gone>>
           /\ local'[h].buf = local[h].buf \o [i \in 1..n |-> taken + i]
           /\ local'[h].fail = local[h].fail
           /\ local'[h].head = local[h].head /\ local'[h].want = local[h].want
           /\ \/ /\ pc'[h] = "receiving" /\ local'[h].wait = TRUE
              \/ /\ pc'[h] = "received"
                 /\ Waits(h) => Len(local[h].buf) + n = local[h].want
  BY TakesIs
<1> DEFINE b == local[h].buf
           r == b \o [i \in 1..n |-> taken + i]
<1>2. b \in Seq(1..Len(Inbound)) /\ Len(b) \in Nat
  BY HoldsIs
<1>3. taken \in Nat /\ taken + n <= Len(Inbound) /\ ~Ended
  BY <1>1, TakenType DEF Takes, Ended
<1>4. Waits(h) /\ stdout[h] = <<>> /\ Got(h) = b /\ Got(h)' = r
  BY <1>1, AloneBlocks DEF PacketSoFar, Waits, Receiving, Got, InCall
<1>5. ASSUME NEW d \in Nat, taken = Len(b) + d, \A i \in 1..Len(b) : b[i] = i + d
      PROVE  taken' = Len(r) + d /\ \A i \in 1..Len(r) : r[i] = i + d
  <2>1. Len(r) = Len(b) + n /\ \A i \in 1..Len(r) : r[i] = i + d
    BY <1>2, <1>3, <1>5, RowGrows
  <2> HIDE DEF r, b
  <2> QED BY <1>1, <1>2, <1>5, <2>1
<1>6. pc'[h] = "received" => Len(r) = local[h].want
  <2>1. Len(r) = Len(b) + n
    <3>1. [i \in 1..n |-> taken + i] \in Seq(1..Len(Inbound))
          /\ Len([i \in 1..n |-> taken + i]) = n
      BY <1>3, NextBytes
    <3> QED BY <1>2, <3>1, ConcatParts
  <2> HIDE DEF r
  <2> QED BY <1>1, <1>4, <2>1
<1>7. local'[h].head /\ Receiving(h)' =>
         /\ local'[h].want = 2
         /\ taken' = Len(r) /\ \A i \in 1..Len(r) : r[i] = i
  <2> HIDE DEF b
  <2>1. ASSUME local[h].head
        PROVE  local[h].want = 2 /\ taken = Len(b) /\ \A i \in 1..Len(b) : b[i] = i
    BY <1>1, <1>4, <2>1 DEF PacketSoFar, Receiving
  <2>2. ASSUME local[h].head
        PROVE  taken' = Len(r) + 0 /\ \A i \in 1..Len(r) : r[i] = i + 0
    <3>1. taken = Len(b) + 0 /\ \A i \in 1..Len(b) : b[i] = i + 0
      BY <1>2, <2>1, <2>2
    <3> HIDE DEF r
    <3> QED BY <1>5, <3>1
  <2>3. Len(r) \in Nat
    BY <1>2, <1>3, NextBytes, ConcatParts
  <2> HIDE DEF r
  <2> QED BY <1>1, <2>1, <2>2, <2>3
<1>8. ~local'[h].head /\ Receiving(h)' =>
         /\ local'[h].want = PacketLen
         /\ taken' = Len(r) + 2 /\ \A i \in 1..Len(r) : r[i] = i + 2
  <2> HIDE DEF b, r
  <2>1. ASSUME ~local[h].head
        PROVE  local[h].want = PacketLen /\ taken = Len(b) + 2 /\ \A i \in 1..Len(b) : b[i] = i + 2
    BY <1>1, <1>3, <1>4, <2>1 DEF PacketSoFar, Receiving
  <2> QED BY <1>1, <1>5, <2>1
<1> HIDE DEF r
<1>9. pc'[h] \in {"receiving", "received"} /\ stdout'[h] = <<>>
  BY <1>1, <1>4
<1>10. pc'[h] = "receiving" => local'[h].wait
  BY <1>1
<1>11. local'[h].want = local[h].want
  BY <1>1
<1> QED BY <1>4, <1>6, <1>7, <1>8, <1>9, <1>10, <1>11 DEF PacketSoFar

\* Two bytes were received: their length is the packet's.
LEMMA HeadIsPacketLen ==
  ASSUME TypeOK, NEW h \in Handler, taken = 2, Len(local[h].buf) = 2,
         \A i \in 1..2 : local[h].buf[i] = i
  PROVE  HeadLengths(h) = {PacketLen}
<1>1. Len(Inbound) \in Nat /\ 2 <= Len(Inbound)
  BY TakenType
<1>2. Inbound \in Seq(Byte)
  BY SharedSocketAssumption
<1>3. SubSeq(Inbound, 1, 2)[1] = Inbound[1] /\ SubSeq(Inbound, 1, 2)[2] = Inbound[2]
  BY <1>1, <1>2
<1>4. local[h].buf[1] = 1 /\ local[h].buf[2] = 2
  OBVIOUS
<1>5. HeadLengths(h) = {Inbound[1] + Inbound[2] * 256}
  BY <1>4 DEF HeadLengths, Length
<1> QED BY <1>3, <1>5 DEF PacketLen, Length

LEMMA PacketHead ==
  ASSUME TypeOK, NEW h \in Handler, PacketSoFar(h), NmsHeadReceived(h)
  PROVE  PacketSoFar(h)'
<1>1. /\ pc[h] = "received" /\ local[h].head
      /\ UNCHANGED <<stdout, gone, taken>>
      /\ \/ pc'[h] = "done"
         \/ /\ pc'[h] = "recv" /\ ~local'[h].head
            /\ local'[h].want \in HeadLengths(h) \ {0}
  BY NmsHeadReceivedIs
<1>2. UNCHANGED <<arrived, peer>>
  BY DEF NmsHeadReceived, InUnchanged, OthersUnchanged
<1>3. /\ stdout[h] = <<>> /\ local[h].want = 2 /\ Got(h) = local[h].buf
      /\ taken = Len(local[h].buf)
      /\ \A i \in 1..Len(local[h].buf) : local[h].buf[i] = i
      /\ Len(local[h].buf) = 2 \/ Ended
  BY <1>1 DEF PacketSoFar, Receiving, Got, InCall
<1>4. CASE pc'[h] = "done"
  BY <1>1, <1>3, <1>4 DEF PacketSoFar, Receiving
<1>5. CASE pc'[h] = "recv"
  <2>1. /\ ~local'[h].head /\ local'[h].want \in HeadLengths(h) \ {0}
        /\ Got(h)' = <<>> /\ stdout'[h] = <<>>
    BY <1>1, <1>3, <1>5 DEF Got, InCall
  <2>2. \/ /\ local'[h].want = PacketLen
           /\ taken' = Len(<<>>) + 2
        \/ local'[h].want # 0 /\ Ended'
    <3>1. CASE Len(local[h].buf) = 2
      BY <1>1, <1>3, <2>1, <3>1, HeadIsPacketLen
    <3>2. CASE Ended
      BY <1>1, <1>2, <2>1, <3>2 DEF Ended
    <3> QED BY <1>3, <3>1, <3>2
  <2>3. \A i \in 1..Len(<<>>) : <<>>[i] = i + 2
    OBVIOUS
  <2> QED BY <1>5, <2>1, <2>2, <2>3 DEF PacketSoFar, Receiving
<1> QED BY <1>1, <1>4, <1>5

LEMMA PacketBody ==
  ASSUME TypeOK, NEW h \in Handler, PacketSoFar(h), NmsBodyReceived(h)
  PROVE  PacketSoFar(h)'
<1> DEFINE b == local[h].buf
<1>1. /\ pc[h] = "received" /\ ~local[h].head
      /\ pc'[h] = "done"
      /\ \/ UNCHANGED <<stdout, gone>>
         \/ Len(b) = local[h].want /\ GivesOrLoses(h)
  BY NmsBodyReceivedIs
<1>2. /\ stdout[h] = <<>> /\ Got(h) = b
      /\ \/ /\ local[h].want = PacketLen
            /\ \A i \in 1..Len(b) : b[i] = i + 2
         \/ local[h].want # 0 /\ b = <<>>
  BY <1>1 DEF PacketSoFar, Receiving, Got, InCall
<1>3. b \in Seq(1..Len(Inbound))
  BY HoldsIs
<1>4. stdout'[h] = <<>> \/ stdout'[h] = Packet
  <2>1. CASE stdout'[h] = stdout[h]
    BY <1>2, <2>1
  <2>2. CASE stdout'[h] = stdout[h] \o b /\ Len(b) = local[h].want
    <3>1. stdout'[h] = b
      BY <1>2, <1>3, <2>2
    <3>2. Len(<<>>) = 0
      OBVIOUS
    <3> HIDE DEF b
    <3>3. Len(b) = PacketLen /\ \A i \in 1..Len(b) : b[i] = i + 2
      BY <1>2, <2>2, <3>2
    <3>4. b = [i \in 1..Len(b) |-> b[i]]
      BY <1>3
    <3>5. b = Packet
      BY <3>3, <3>4, Zenon DEF Packet
    <3> QED BY <3>1, <3>5
  <2> QED BY <1>1, <2>1, <2>2 DEF GivesOrLoses
<1> QED BY <1>1, <1>4 DEF PacketSoFar, Receiving

LEMMA PacketStep ==
  ASSUME TypeOK, Fits, BlockingAtRest, FirstPacket, NEW h \in Handler, Step(h)
  PROVE  FirstPacket'
<1> SUFFICES ASSUME NEW g \in Handler, Alone(g)' PROVE PacketSoFar(g)'
  BY DEF FirstPacket
<1>1. Aside(h)
  BY StepAside
<1>2. Alone(g) /\ PacketSoFar(g)
  BY <1>1 DEF Alone, Aside, FirstPacket
<1>3. CASE g # h
  <2>1. job[h] \notin Receivers
    BY <1>2, <1>3 DEF Alone
  <2>2. pc[h] \notin {"setup", "recv", "receiving", "received"}
    BY <2>1 DEF Fits
  <2>3. taken' = taken
    BY <2>2, SetupIs, RecvCallIs, TakesIs, TakesNothingIs, DeliverIs, NmsHeadReceivedIs,
       NmsBodyReceivedIs, SendingIs DEF Step
  <2> QED
    BY <1>1, <1>2, <1>3, <2>3 DEF Aside, PacketSoFar, Receiving, Got, InCall, Ended
<1>4. CASE g = h
  <2>1. job[h] = "nms_recv" /\ job[h] \notin Senders /\ job[h] \notin RecvJobs
    BY <1>2, <1>4 DEF Alone, Senders, RecvJobs, NonBlocking
  <2>2. CASE Setup(h)
    <3>1. /\ pc'[h] = "recv" /\ stdout'[h] = <<>> /\ taken' = 0
          /\ local'[h].head /\ local'[h].want = 2 /\ Got(h)' = <<>>
      BY <1>2, <1>4, <2>1, <2>2, SetupIs DEF PacketSoFar, Got, InCall
    <3>2. Len(<<>>) = 0
      OBVIOUS
    <3> QED BY <1>4, <3>1, <3>2 DEF PacketSoFar, Receiving
  <2>3. CASE RecvCall(h)
    <3>1. /\ pc[h] = "recv" /\ pc'[h] = "receiving" /\ UNCHANGED <<stdout, gone, taken>>
          /\ local'[h].wait /\ Got(h)' = <<>> /\ Got(h) = <<>>
          /\ local'[h].head = local[h].head /\ local'[h].want = local[h].want
      BY <1>2, <1>4, <2>3, RecvCallIs, AloneBlocks DEF Got, InCall
    <3>2. Ended' = Ended
      BY <1>1, <3>1 DEF Ended, Aside
    <3> QED BY <1>2, <1>4, <3>1, <3>2 DEF PacketSoFar, Receiving
  <2>4. CASE TakesNothing(h)
    <3>1. /\ pc[h] = "receiving" /\ pc'[h] = "received" /\ UNCHANGED <<stdout, taken>>
          /\ Got(h)' = Got(h) /\ taken = arrived /\ (peer = "closed" \/ ~local[h].wait)
          /\ local'[h].head = local[h].head /\ local'[h].want = local[h].want
      BY <1>4, <2>4, TakesNothingIs DEF Got, InCall
    <3>2. Ended' /\ Ended
      BY <1>1, <1>2, <1>4, <3>1 DEF Ended, Aside, PacketSoFar
    <3> QED BY <1>2, <1>4, <3>1, <3>2 DEF PacketSoFar, Receiving
  <2>5. CASE \/ Reset(h) \/ GetPacket(h) \/ SendCall(h)
             \/ Puts(h) \/ PutsNothing(h) \/ Sent(h)
    <3>1. pc[h] = "reset" /\ pc'[h] = "done" /\ stdout' = stdout
      BY <2>1, <2>5, SendingIs
    <3> QED BY <1>2, <1>4, <3>1 DEF PacketSoFar, Receiving
  <2>6. ~Deliver(h)
    BY <2>1, DeliverIs
  <2> QED
    BY <1>2, <1>4, <2>2, <2>3, <2>4, <2>5, <2>6, PacketTakes, PacketHead, PacketBody DEF Step
<1> QED BY <1>3, <1>4

-----------------------------------------------------------------------------
(* Every step keeps what is said of the bytes received.                     *)

LEMMA ReceivedKept ==
  ASSUME TypeOK, TypeOK', Fits, BlockingAtRest, Received, [Next]_vars
  PROVE  Received'
<1>1. CASE UNCHANGED vars
  BY <1>1 DEF vars, Received, Ordered, InCall, Apart, Holds, Covered, FailsEmpty, FirstPacket,
     Alone, PacketSoFar, Receiving, Got, Ended
<1>2. CASE Peer
  <2>1. /\ UNCHANGED <<job, pc, local, gone, stdout, taken>>
        /\ peer = "open"
    BY <1>2 DEF Peer
  <2>2. Ordered' /\ Apart' /\ Covered' /\ FailsEmpty'
    BY <2>1 DEF Received, Ordered, InCall, Apart, Holds, Covered, FailsEmpty
  <2>3. ~Ended
    BY <2>1 DEF Ended
  <2>4. FirstPacket'
    BY <2>1, <2>3 DEF Received, FirstPacket, Alone, PacketSoFar, Receiving, Got, InCall
  <2> QED BY <2>2, <2>4 DEF Received
<1>3. ASSUME NEW h \in Handler, Step(h) PROVE Received'
  BY <1>3, OrderedStep, ApartStep, CoveredStep, FailsEmptyStep, PacketStep DEF Received
<1> QED BY <1>1, <1>2, <1>3 DEF Next, Finished

LEMMA ReceivedInit == Init => Received
<1> SUFFICES ASSUME Init PROVE Received
  OBVIOUS
<1>1. /\ taken = 0
      /\ \A h \in Handler : /\ stdout[h] = <<>> /\ ~InCall(h) /\ ~Receiving(h)
                            /\ pc[h] \notin {"reset", "done"}
  BY DEF Init, InCall, Receiving
<1>2. Len(<<>>) = 0
  OBVIOUS
<1>3. Ordered
  BY <1>1, <1>2 DEF Ordered, Ascending
<1>4. Apart /\ Covered
  BY <1>1 DEF Apart, Covered
<1>5. FailsEmpty /\ FirstPacket
  BY <1>1 DEF FailsEmpty, InCall, FirstPacket, PacketSoFar
<1> QED BY <1>3, <1>4, <1>5 DEF Received

LEMMA ReceivedSaysOnce ==
  ASSUME TypeOK, Fits, Received
  PROVE  ReceivedOnce
<1>1. \A h \in Handler : DOMAIN stdout[h] = 1..Len(stdout[h])
  BY DEF TypeOK
<1>2. \A h \in Handler : \A i, j \in DOMAIN stdout[h] : i < j => stdout[h][i] < stdout[h][j]
  BY <1>1 DEF Received, Ordered, Ascending
<1>3. ASSUME NEW h \in Handler, Alone(h), Len(stdout[h]) > 0
      PROVE  stdout[h] = Packet
  <2>1. stdout[h] # <<>>
    BY <1>3
  <2>2. job[h] \notin Senders
    BY <1>3 DEF Alone, Senders
  <2>3. pc[h] \in {"setup", "recv", "receiving", "received", "reset", "done"}
    BY <2>2 DEF Fits, TypeOK, Labels
  <2> QED BY <1>3, <2>1, <2>3 DEF Received, FirstPacket, PacketSoFar, Receiving
<1> QED
  BY <1>2, <1>3 DEF Received, Apart, Covered, ReceivedOnce, Alone, Packet, PacketLen

-----------------------------------------------------------------------------
(* The theorems                                                             *)

LEMMA InitFits == Init => Fits /\ BlockingAtRest
BY SharedSocketAssumption DEF Init, Fits, BlockingAtRest

\* The types are right in every reachable state.
THEOREM SharedSocketTyped == Spec => []TypeOK
<1>1. Init => TypeOK /\ Fits
  BY InitType, InitFits
<1>2. TypeOK /\ Fits /\ [Next]_vars => (TypeOK /\ Fits)'
  BY TypeStep, FitsKept
<1> QED BY <1>1, <1>2, PTL DEF Spec

\* However the commands on a socket overlap and end, O_NONBLOCK (set by
\* server_cmd_recv, cleared at its end) is set only while a recv that wants it
\* is running.
THEOREM ModeRestored == Spec => []BlockingAtRest
<1>1. Init => TypeOK /\ Fits /\ BlockingAtRest
  BY InitType, InitFits
<1>2. TypeOK /\ Fits /\ BlockingAtRest /\ [Next]_vars => (TypeOK /\ Fits /\ BlockingAtRest)'
  BY TypeStep, FitsKept, BlockingKept
<1> QED BY <1>1, <1>2, PTL DEF Spec

LEMMA InitSends == Init => Sends
<1> SUFFICES ASSUME Init PROVE Sends
  OBVIOUS
<1>1. Len(out) = 0 /\ blocking
  BY DEF Init
<1>2. \A h \in Handler :
        pc[h] # "sending" /\ local[h].pos = 0 /\ local[h].acked = 0
  BY DEF Init
<1> QED BY <1>1, <1>2 DEF Sends

\* While no recv makes the socket non-blocking and the connection holds, what a
\* client of send or nms_send was told is sent was accepted by the kernel, and
\* a single sender's bytes are the whole stream, in order.
THEOREM NothingSentIsLost == Spec => []SentWhole
<1>1. Init => TypeOK /\ Fits /\ Sends
  BY InitType, InitFits, InitSends
<1>2. TypeOK /\ Fits /\ Sends /\ [Next]_vars => (TypeOK /\ Fits /\ Sends)'
  BY TypeStep, FitsKept, SendsKept
<1>3. TypeOK /\ Sends => SentWhole
  BY SendsWhole
<1> QED BY <1>1, <1>2, <1>3, PTL DEF Spec

\* Whatever recv and nms_recv commands run on a socket at once, each byte taken
\* from it goes to one client, to each in the order of the stream; none is lost
\* while the clients of recv stay; and an nms_recv alone gives its client the
\* first packet whole, or nothing.
THEOREM BytesReceivedOnce == Spec => []ReceivedOnce
<1>1. Init => TypeOK /\ Fits /\ BlockingAtRest /\ Received
  BY InitType, InitFits, ReceivedInit
<1>2. TypeOK /\ Fits /\ BlockingAtRest /\ Received /\ [Next]_vars
        => (TypeOK /\ Fits /\ BlockingAtRest /\ Received)'
  BY TypeStep, FitsKept, BlockingKept, ReceivedKept
<1>3. TypeOK /\ Fits /\ Received => ReceivedOnce
  BY ReceivedSaysOnce
<1> QED BY <1>1, <1>2, <1>3, PTL DEF Spec

=============================================================================
