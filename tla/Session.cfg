CONSTANTS
  Chunk = 2
  MaxUInt = 7
  Cmds = {"new", "free", "bind", "listen", "connect", "close", "accept", "info", "list", "poll", "nms_recv", "nms_send", "send", "recv", "exit", "unknown"}
  Counts = {0, 1}
  MaxBytes = 3
  MaxInput = 2
  MaxItems = 1
  Queue = 3
SPECIFICATION FairSpec
INVARIANTS TypeOK InSteps ExitCodeIsAnswer RecvDelivers TakesCount InputDelivered
PROPERTIES ClientEnds ThreadFreed
