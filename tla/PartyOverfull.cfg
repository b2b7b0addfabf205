SPECIFICATION Spec
CONSTANTS
  User = {ann, bob, cid}
  Party = {p1}
  Invite = {i1, i2}
  Req = {r1, r2}
  Sizes = {2}
  Setting = {off}
  Flag = {off}
  Default = off
SYMMETRY Ids
INVARIANT NeverOverfull
CHECK_DEADLOCK FALSE
