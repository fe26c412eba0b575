\* A key that was added but not generated disappears from the listing.
SPECIFICATION Spec
CONSTANTS
  a = a  b = b  p = p  m = m  l = l  w1 = w1  w2 = w2
  Empty = Empty  NoRef = NoRef
  NameOrder <- MCNames
  Refs <- MCRefs
  PanelRefs <- MCPanelRefs
  LegacyLinks <- MCLegacyLinks
  ClientLists = {}
  Workers <- OneWorker
  NamesOf <- AllNames
  Ops = {"create", "addRefs", "removeKey", "createSource"}
  MaxKeys = 2
  Crashes = FALSE
INVARIANTS UngeneratedKeysListed
