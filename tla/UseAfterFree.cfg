CONSTANTS
  Thread = {t1, t2}
  Id = {i1, i2}
  Addr = {a1, a2, a3}
  MaxFd = 3
  Cmds = {"new", "free", "use"}
  MaxJunk = 0
  None = None
  Junk = Junk
SPECIFICATION Spec
PROPERTY UsesNamedSocket
