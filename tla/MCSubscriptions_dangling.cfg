\* An edit and the deletion of a KeySource at the same time: the reference that
\* the edit has checked is stored after the cascade has passed.
SPECIFICATION Spec
CONSTANTS
  a = a  b = b  p = p  m = m  l = l  w1 = w1  w2 = w2
  Empty = Empty  NoRef = NoRef
  NameOrder <- MCNames
  Refs <- MCRefs
  PanelRefs <- MCPanelRefs
  LegacyLinks <- MCLegacyLinks
  ClientLists = {}
  Workers <- TwoWorkers
  NamesOf <- AllNames
  Ops = {"addRefs", "createSource", "deleteSource"}
  MaxKeys = 2
  Crashes = FALSE
CHECK_DEADLOCK FALSE
INVARIANTS NoDanglingRefs
