------------------------------ MODULE LiveParts -----------------------------
(***************************************************************************)
(* The smaller components of the server, of the socket of a page and of    *)
(* its voice calls.                                                        *)
(***************************************************************************)
EXTENDS Slots

Ch == INSTANCE Channels WITH
  Room <- Spot, Channel <- Spot, MaxPosts <- 1,
  up <- s1, outbox <- s2, joining <- s3, rooms <- s4, inbox <- s5,
  seated <- s6, channel <- s7, log <- s8, posting <- s9, panel <- s10,
  fetches <- s11, due <- s12

Ms == INSTANCE Messages WITH
  Room <- Spot, Conversation <- Spot,
  up <- s1, outbox <- s2, joining <- s3, rooms <- s4, inbox <- s5,
  log <- s6, deleted <- s7, sending <- s8, deleting <- s9, view <- s10,
  history <- s11, older <- s12, due <- s13

Pf == INSTANCE PartyFeed WITH
  Room <- Spot, Party <- Spot, Fetcher <- Req,
  up <- s1, outbox <- s2, joining <- s3, rooms <- s4, inbox <- s5,
  seated <- s6, ended <- s7, news <- s8, status <- s9, active <- s10,
  fetch <- s11, missed <- s12

Ps == INSTANCE PageSocket WITH
  Sock <- Task, NoSock <- Nobody,
  signedIn <- s1, token <- s2, socket <- s3, sock <- s4, heard <- s5,
  stray <- s6, deaf <- s7

Ty == INSTANCE Typing WITH
  None <- Nobody, Conv <- {"here", "there"}, Watched <- "here",
  active <- s1, first <- s2, timer <- s3, outbox <- s4, joining <- s5,
  rooms <- s6, inbox <- s7, shown <- s8, stuck <- s9

Pr == INSTANCE Presence WITH
  Socket <- Spot,
  sockets <- s1, status <- s2, told <- s3, task <- s4, doubt <- s5

Vs == INSTANCE VoiceSession WITH
  NoCall <- Nobody,
  status <- s1, call <- s2, parting <- s3, held <- s4, shows <- s5,
  overtaken <- s6, stray <- s7, unheard <- s8

Cv == INSTANCE ChannelVoice WITH
  Channel <- Spot, Page <- User, Call <- Req, NoCall <- Nobody,
  voiceRoom <- s1, made <- s2, gone <- s3, call <- s4, shown <- s5,
  held <- s6, doubled <- s7

Ac == INSTANCE Accounts WITH
  users <- s1, links <- s2, tokens <- s3, sessions <- s4, ended <- s5,
  req <- s6

Up == INSTANCE Uploads WITH
  File <- Task, NoFile <- Nobody, Task <- Req,
  files <- s1, rows <- s2, avatar <- s3, icon <- s4, owner <- s5,
  deleted <- s6, task <- s7, failed <- s8, late <- s9

Dm == INSTANCE Dms WITH
  MaxConvs <- 2,
  dms <- s1, req <- s2, screen <- s3, url <- s4, active <- s5,
  raced <- s6, late <- s7
=============================================================================
