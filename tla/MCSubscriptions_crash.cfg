\* One request at a time over two names, cut off by a restart between any two
\* calls.
SPECIFICATION Spec
CONSTANTS
  a = a  b = b  p = p  m = m  l = l  w1 = w1  w2 = w2
  Empty = Empty  NoRef = NoRef
  NameOrder <- MCNames
  Refs <- MCRefs
  PanelRefs <- MCPanelRefs
  LegacyLinks = {}
  ClientLists <- GapLists
  Workers <- OneWorker
  NamesOf <- AllNames
  Ops <- CrashOps
  MaxKeys = 2
  Crashes = TRUE
INVARIANTS FlagCoversChange
PROPERTIES RegenerateRepairs
