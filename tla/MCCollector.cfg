\* Nothing is skipped and everything is stored in the end.
SPECIFICATION FairSpec
CONSTANTS
  Metrics <- MCMetrics
  WindowLen = 2
  MaxMinute = 6
  MaxFaults = 2
  Unknown = Unknown
INVARIANTS TypeOK NothingSkipped
PROPERTIES EveryMinuteGetsARow
