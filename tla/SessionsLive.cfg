SPECIFICATION FairSpec
CONSTANTS
  Page = {tab1}
  Browser = {laptop}
  Jar <- OneJar
  Call = {c1, c2}
  Session = {s1, s2}
  Req = {r1}
  None = None
INVARIANT AwaitedIsInFlight
PROPERTY LoadingEnds
PROPERTY CallsSettle
