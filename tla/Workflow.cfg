CONSTANTS
  N = 4
  Conditional <- MCConditional
  Sync <- MCSync
  MaxRetries <- MCMaxRetries
  OnError <- MCOnError
  Action <- MCAction
  Needs <- MCNeeds
  Reads <- MCReads
  NestedN = 2
  NestedConditional <- MCNestedConditional
  NestedSync <- MCNestedSync
  NestedMaxRetries <- MCNestedMaxRetries
  NestedOnError <- MCNestedOnError
SPECIFICATION FairWorkflow
INVARIANT Verdicts
INVARIANT SuccessfulOutputs
INVARIANT NoOrphans
INVARIANT MemoryMatches
PROPERTY EveryRunEnds
CHECK_DEADLOCK FALSE
