\* A page with two exports, or a script with two while an issue comes or goes.
SPECIFICATION MCSpec
CONSTANTS
  MaxInt = 7
  DefaultSize = 1
  MaxSize = 2
  Ops = {e1, e2}
  NoOp = NoOp
  MaxIssue = 3
  PageSize = 2
  MaxAttempts = 2
  MaxChanges = 2
  e1 = e1
  e2 = e2
INVARIANTS
  TypeOK
  IInv
  SteadyExported
  FileOfResult
  FetchedOnce
  OneUnfinished
PROPERTIES
  ImplementsOutcome
  ExportEnds
\* Exports are asked for from outside: with all of them ended nothing happens.
CHECK_DEADLOCK FALSE
