CONSTANTS
  MaxParam = 999
  Programs <- MCPrograms
  WaitsPerSecond = 2
  Garbage = {0, 1, 200}
SPECIFICATION FairSpec
INVARIANTS TypeOK EventsArrive AnswerIsMeant
PROPERTIES EndsWithInput TimesOut
CHECK_DEADLOCK FALSE
