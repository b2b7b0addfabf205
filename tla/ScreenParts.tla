----------------------------- MODULE ScreenParts -----------------------------
(***************************************************************************)
(* The smaller components of the screens: what each shows of what the      *)
(* server stores.                                                          *)
(***************************************************************************)
EXTENDS Slots

Pd == INSTANCE PageData WITH
  Subject <- Spot, Fetch <- Task,
  subject <- s1, state <- s2, fetch <- s3, left <- s4

Sb == INSTANCE SearchBox WITH
  Query <- Spot, Search <- Task,
  query <- s1, timer <- s2, search <- s3, results <- s4, shows <- s5,
  behind <- s6

Nt == INSTANCE Notices WITH
  Task <- Req,
  stored <- s1, untold <- s2, items <- s3, load <- s4, more <- s5,
  task <- s6, moved <- s7, crossed <- s8

Ad == INSTANCE AppData WITH
  Task <- Req,
  user <- s1, saved <- s2, unread <- s3, untold <- s4, profile <- s5,
  badge <- s6, task <- s7, foreign <- s8, crossed <- s9, drift <- s10

Pp == INSTANCE Preferences WITH
  Task <- Req, Field <- {"enabled", "opacity"}, Early <- {"opacity"},
  stored <- s1, shown <- s2, load <- s3, save <- s4, astray <- s5

Pl == INSTANCE Profile WITH
  Text <- Spot, Scrubbed <- Nobody,
  row <- s1, form <- s2, profile <- s3, saving <- s4, pics <- s5,
  other <- s6, deletes <- s7, typed <- s8, apart <- s9, late <- s10

Fl == INSTANCE FriendList WITH
  Friend <- {"friend"}, Fetch <- Req, Task <- Req,
  stored <- s1, status <- s2, list <- s3, fetch <- s4, task <- s5,
  astray <- s6

Rx == INSTANCE Reactions WITH
  User <- {"me", "other"}, Me <- "me", Task <- Req,
  stored <- s1, writes <- s2, shown <- s3, shownAt <- s4, task <- s5,
  events <- s6, astray <- s7

Sd == INSTANCE SideBar WITH
  None <- Nobody, Conv <- Spot,
  unread <- s1, active <- s2, heard <- s3, focused <- s4, badge <- s5,
  load <- s6, history <- s7, marks <- s8, created <- s9, known <- s11, astray <- s10

Iq == INSTANCE InviteQueue WITH
  Invite <- Spot,
  open <- s1, unsent <- s2, signed <- s3, events <- s4, queue <- s5,
  answer <- s6, astray <- s7

Px == INSTANCE PartyScreen WITH
  None <- Nobody, Task <- Req,
  stored <- s1, active <- s2, switch <- s3, chain <- s4, save <- s5,
  half <- s6, astray <- s7

Cf == INSTANCE CommunityForm WITH
  Community <- Spot, Fetch <- Req,
  stored <- s1, at <- s2, data <- s3, fetch <- s4, form <- s5,
  save <- s6, left <- s7, carried <- s8, changed <- s9
=============================================================================
