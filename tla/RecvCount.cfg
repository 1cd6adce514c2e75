CONSTANTS
  Chunk = 2
  MaxUInt = 7
  Cmds = {"recv"}
  Counts = {3}
  MaxBytes = 5
  MaxInput = 0
  MaxItems = 0
  Queue = 2
SPECIFICATION Spec
INVARIANT TakesCount
