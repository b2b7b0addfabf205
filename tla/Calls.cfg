SPECIFICATION FairSpec
CONSTANTS
  ann = ann
  bob = bob
  cid = cid
  annPage = annPage
  bobPage = bobPage
  bobTab = bobTab
  cidPage = cidPage
  User = {ann, bob, cid}
  Client = {annPage, bobPage, bobTab, cidPage}
  Owner <- Owners
  Call = {k1}
  OwnId = {x1}
  Roster <- Rosters
  Steady = {bobPage, cidPage}
  None = None
INVARIANT TypeOK
INVARIANT RingsAccounted
INVARIANT TimersMatch
INVARIANT MissedMeansUnanswered
PROPERTY CallsEnd
PROPERTY RingsStop
CHECK_DEADLOCK FALSE
