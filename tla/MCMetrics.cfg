SPECIFICATION MCSpec
CONSTANTS
  r1 = r1  r2 = r2
  Runs = {r1, r2}
  Period = 2
  Backfill = 2
  MaxOutage = 3
  MaxCollect = 1
  MaxFaults = 1
  None = None
  NInbounds = 2
  MaxSlot = 2
  MaxTraffic = 2
  MaxResets = 1
  MaxFailures = 1
  Buckets = {1, 2}
  Absent = Absent
INVARIANTS RunsTypeOK CursorPassesStoredRuns RunsStoredOnce TrafficTypeOK InboundTrafficIsReal ClientTrafficIsReal
PROPERTIES RunsArrive
