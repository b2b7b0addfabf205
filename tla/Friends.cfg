SPECIFICATION Spec
CONSTANTS
  User = {ann, bob}
  Req = {r1, r2}
INVARIANT TypeOK
INVARIANT Announced
PROPERTY Contract
CHECK_DEADLOCK FALSE
