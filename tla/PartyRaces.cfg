SPECIFICATION Spec
CONSTANTS
  User = {ann, bob, cid}
  Party = {p1}
  Invite = {i1, i2}
  Req = {r1, r2}
  Sizes = {2}
  Setting = {off}
  Flag = {off}
  Default = off
SYMMETRY Ids
INVARIANT TypeOK
INVARIANT RoomsAccounted
INVARIANT InvitesAnnounced
PROPERTY HeirsLead
PROPERTY AnswerIsFinal
PROPERTY JoinsAreAcceptances
CHECK_DEADLOCK FALSE
