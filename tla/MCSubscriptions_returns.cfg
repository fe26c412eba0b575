\* A regenerate and a deletion at the same time: what was deleted is written
\* back from the listing taken before.
SPECIFICATION Spec
CONSTANTS
  a = a  b = b  p = p  m = m  l = l  w1 = w1  w2 = w2
  Empty = Empty  NoRef = NoRef
  NameOrder <- MCNames
  Refs <- MCRefs
  PanelRefs <- MCPanelRefs
  LegacyLinks <- MCLegacyLinks
  ClientLists = {}
  Workers <- TwoWorkers
  NamesOf <- AllNames
  Ops = {"regenerate", "delete"}
  MaxKeys = 2
  Crashes = FALSE
CHECK_DEADLOCK FALSE
PROPERTIES NoResurrection
