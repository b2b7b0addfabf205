SPECIFICATION Spec
CONSTANTS
  Call = {c1}
  NoCall = NoCall
INVARIANT SilentOnceOut
