CONSTANTS
  Handler = {h1, h2}
  Jobs = {"drain", "nonblocking", "blocking", "nms_recv", "send", "nms_send"}
  Inbound <- MCInbound
  Chunk = 3
  Count = 2
  Packets = 2
  PacketLength = 1
  Room = 2
  Garbage = {0, 1}
SPECIFICATION FairSpec
INVARIANTS TypeOK BlockingAtRest SentWhole ReceivedOnce
PROPERTY NonBlockingReturns
