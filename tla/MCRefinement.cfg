\* One request at a time, no restart: every request is one step of the book.
SPECIFICATION Spec
CONSTANTS
  a = a  b = b  p = p  m = m  l = l  w1 = w1
  Empty = Empty  NoRef = NoRef
  NameOrder <- MCNames
  Refs <- MCRefs
  PanelRefs <- MCPanelRefs
  LegacyLinks <- MCLegacyLinks
  ClientLists <- MCClientLists
  Workers <- MCWorkers
  NamesOf <- AllNames
  Ops <- AllOps
  MaxKeys = 2
  Crashes = FALSE
INVARIANTS TypeOK StatusMatchesFile LinksMatchRefs NoDanglingRefs
PROPERTIES ImplementsBook
