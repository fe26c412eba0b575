\* Two requests at a time; any of the panel's answers may be missing.
SPECIFICATION Spec
CONSTANTS
  a1 = a1  a2 = a2  i1 = i1  i2 = i2  p1 = p1  p2 = p2  p3 = p3
  Emails = {"e"}
  Inbounds <- MCInbounds
  Eligible <- MCEligible
  Ports <- MCPorts
  Dates = {7}
  Admins <- MCAdmins
  Failing <- MCFailing
  MaxMoves = 2
  Nothing = Nothing
SYMMETRY MCSymmetry
INVARIANTS TypeOK FlowWhereNeeded KeyIsOfItsInbound
PROPERTIES AttachKeepsExpiry
