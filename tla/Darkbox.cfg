CONSTANTS
  Chars <- MCChars
  MaxText = 2
  MaxCommand = 6
  MaxInt = 9
  TextSize = 5
  RawSize = 4
SPECIFICATION MCSpec
INVARIANTS AllTypeOK FigureComplete ProgramMeans TextRoundTrip
PROPERTY AllTerminate
