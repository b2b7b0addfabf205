SPECIFICATION Spec
CONSTANTS
  User = {ann, bob, cid}
  Party = {p1, p2}
  Invite = {i1, i2}
  Req = {r1}
  Sizes = {2, 3}
  Setting = {off, on}
  Flag = {off}
  Default = off
SYMMETRY Ids
INVARIANT OwnerLeads
INVARIANT CapacityBound
PROPERTY OwnerDecides
PROPERTY DeletionHandsOver
CHECK_DEADLOCK FALSE
