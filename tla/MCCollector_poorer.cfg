\* A row that is written a second time loses its first points.
SPECIFICATION Spec
CONSTANTS
  Metrics <- MCMetrics
  WindowLen = 2
  MaxMinute = 6
  MaxFaults = 2
  Unknown = Unknown
PROPERTIES RowsOnlyGrow
