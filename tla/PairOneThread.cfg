CONSTANTS
  Thread = {t1}
  Id = {i1, i2}
  Addr = {a1, a2, a3}
  MaxFd = 3
  Cmds = {"new", "free", "accept", "use", "list", "exit"}
  MaxJunk = 1
  None = None
  Junk = Junk
SPECIFICATION Spec
INVARIANTS SocketsMatchList
PROPERTIES NewRemovesOldPair UsesNamedSocket ImplementsSocketNames
