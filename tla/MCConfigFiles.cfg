\* Sources: two concurrent handlers over three ids, restarts included.
\* Three panels at a time out of four, two tokens, two requests.
SPECIFICATION MCSpec
CONSTANTS
  k1 = k1  k2 = k2  k3 = k3
  p1 = p1  p2 = p2  m1 = m1
  w1 = w1  w2 = w2
  None = None
  Ids <- MCIds
  Targets <- MCTargets
  PanelTargets <- MCPanelTargets
  Gens <- MCGens
  Workers <- MCWorkers
  h1 = h1  h2 = h2  q1 = q1  q2 = q2
  BaseOf <- MCBaseOf
  MaxPanels = 3
  MaxMade = 4
  Truncated = Truncated
  Hashes <- MCHashes
  Requests <- MCRequests
  Unreadable = Unreadable
SYMMETRY MCSymmetry
INVARIANTS
  TypeOK UniqueTargets CachedLinkIsOwn RecordsMatchIssue
  PanelIdsAreUnique SourcesReachTheirPanel AcceptedTokensAreListed
PROPERTIES IdNeverRebound UnreadableStays
\* With every id of the bound issued and deleted, no request is left to serve.
CHECK_DEADLOCK FALSE
