SPECIFICATION FairSpec
CONSTANTS
  ann = ann
  bob = bob
  cid = cid
  annPage = annPage
  bobPage = bobPage
  bobTab = bobTab
  cidPage = cidPage
  User = {ann, bob}
  Client = {annPage, bobPage}
  Owner <- Owners
  Call = {k1}
  OwnId = {x1}
  Roster <- Rosters
  Steady = {annPage}
  None = None
PROPERTY CallerUiStops
CHECK_DEADLOCK FALSE
