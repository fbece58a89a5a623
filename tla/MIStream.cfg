CONSTANTS
  MaxBatches = 3
  MaxCuts = 2
  MaxQueue = 1
  MaxNumber = 4
  Letters <- MCLetters
  MaxText = 2
  MaxItems = 2
  MaxStale = 2
  Stale <- MCStale
  Leftovers <- MCLeftovers
  Behinds <- MCBehinds
  NumberText <- MCNumberText
  PrintRecord <- MCPrintRecord
  ParseRecord <- MCParseRecord
SPECIFICATION Spec
CHECK_DEADLOCK FALSE
INVARIANTS TypeOK BatchesAsPrinted CaughtUp HeardInOrder ShownIsLastHeard
