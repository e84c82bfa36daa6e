SPECIFICATION Spec
CONSTANTS
  MaxDay = 4
  HistoryStart = 3
  HistoryEnd = 3
  TargetFirst = 1
  BatchSize = 1
  MaxRetries = 1
  Pages = 2
  Parts = 2
  Budget <- MCBudget
INVARIANTS
  TypeOK
  HistoryIsWhole
  WedgedOnlyByFault
  ReportIsTrue
PROPERTIES
  CompletesUnlessWedged
