CONSTANTS
  Thread = {t1, t2}
  Id = {i1, i2}
  Addr = {a1, a2}
  MaxFd = 2
  Cmds = {"new", "free", "accept", "use", "list", "exit"}
  MaxJunk = 0
  None = None
  Junk = Junk
  MaxClients = 4
SPECIFICATION ClientsSpec
PROPERTIES ListingStable MutexReleased CommandsAnswered
INVARIANTS TypeOK ListSound LockedIndexValid
