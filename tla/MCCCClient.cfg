SPECIFICATION FairSpec
CONSTANTS
  MAX_RETRIES = 4
  Margin = 60
  Timeout = 30
  PollInterval = 10
  PollCap = 80
  MaxWait = 300
  PageSize = 2
  MaxCalls = 2
  Lifetimes <- MCLifetimes
  Durations <- MCDurations
  RetryAfters <- MCRetryAfters
  Gaps <- MCGaps
  Totals <- MCTotals
  Limits <- MCLimits
INVARIANTS
  TypeOK
  WritesOnlyIfConfigured
  AllItems
  UnauthorisedExplained
PROPERTIES
  EveryCallEnds
CHECK_DEADLOCK FALSE
