SPECIFICATION Spec
CONSTANTS
  User = {ann, bob, cid}
  Party = {p1}
  Invite = {i1, i2}
  Req = {r1}
  Sizes = {2}
  Setting = {off}
  Flag = {off}
  Default = off
SYMMETRY Ids
PROPERTY HeirsAreActive
CHECK_DEADLOCK FALSE
