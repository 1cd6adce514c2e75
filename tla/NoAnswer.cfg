CONSTANTS
  Chunk = 2
  MaxUInt = 7
  Cmds = {"new", "free"}
  Counts = {0}
  MaxBytes = 3
  MaxInput = 0
  MaxItems = 0
  Queue = 2
SPECIFICATION Spec
INVARIANT SuccessIsAnswered
