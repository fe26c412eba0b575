\* A request and a sync at the same time: a file changes after the script has
\* copied the files and before the flag is lowered.
SPECIFICATION Spec
CONSTANTS
  a = a  b = b  p = p  m = m  l = l  w1 = w1  w2 = w2
  Empty = Empty  NoRef = NoRef
  NameOrder <- MCNames
  Refs <- MCRefs
  PanelRefs <- MCPanelRefs
  LegacyLinks <- MCLegacyLinks
  ClientLists = {}
  Workers <- TwoWorkers
  NamesOf <- AllNames
  Ops = {"regenerate", "delete", "sync"}
  MaxKeys = 2
  Crashes = FALSE
CHECK_DEADLOCK FALSE
INVARIANTS FlagCoversChange
