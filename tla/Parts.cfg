SPECIFICATION PartsSpec
SYMMETRY Ids
CONSTRAINT Followed
CHECK_DEADLOCK FALSE
CONSTANTS
  Spot = {here, there}
  User = {ann, bob}
  Req = {r1, r2}
  Task = {t1, t2, t3}
  Call = {k1, k2}
  Poster = {p1}
  Nobody = nobody
  Elsewhere = {"theirs"}
  Named = {"mods", "namesake", "theirs"}
  MaxJoins = 3
  PageSize = 1
  MaxPosts = 2
  MaxDeletes = 1
  MaxEvents = 1
  MaxRooms = 2
  MaxUsers = 2
  MaxTokens = 1
  MaxNotices = 3
  MaxSaves = 1
  MaxPics = 1
  MaxWrites = 2
  MaxUnread = 1
  MaxMarks = 1
  MaxOut = 2
  Email = {"mail"}
  Identity = {"oauth"}
INVARIANT TypesOK
INVARIANT RolesAtHome
INVARIANT ShownOnce
INVARIANT RightPlace
INVARIANT LiveOnceReady
INVARIANT NoStaleParty
INVARIANT MicHeld
 
INVARIANT SessionsWarranted
INVARIANT OwnDataOnly
INVARIANT LoadingIsAwaited
INVARIANT SettledTrue
PROPERTY PowerIsGiven
PROPERTY OwnerKeepsSeat
