SPECIFICATION Spec
CONSTANTS
  Page = {tab1, tab2}
  Browser = {laptop}
  Jar <- OneJar
  Call = {}
  Session = {s1, s2}
  Req = {r1, r2}
  None = None
SYMMETRY Ids
INVARIANT TypeOK
INVARIANT NeverStranded
INVARIANT SingleFlight
