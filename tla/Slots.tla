-------------------------------- MODULE Slots -------------------------------
(***************************************************************************)
(* What the smaller components are instantiated with, in LiveParts and     *)
(* ScreenParts.  They share no state, so that s1 to s13 stand for the      *)
(* variables of whichever it is, in the order of its module, and those it  *)
(* has no use for stay Off.  Communities is there under its own names,     *)
(* which its theorems use.                                                 *)
(***************************************************************************)
EXTENDS Communities, Sequences

CONSTANTS
  Spot,    \* channels, conversations, parties, sockets, friends, texts, subjects
  Task,    \* requests in flight, where three are needed, and files and sockets
  Call,    \* joins of a voice session, each with a room
  Poster,  \* requests that send a message
  PageSize, MaxPosts, MaxDeletes, MaxEvents, MaxRooms, MaxUsers, MaxTokens, MaxNotices,
  MaxSaves, MaxPics, MaxWrites, MaxUnread, MaxMarks, MaxOut,
  Email, Identity  \* of the accounts

ASSUME BoundsAssumption ==
  /\ {PageSize, MaxPosts, MaxRooms, MaxUsers, MaxTokens, MaxNotices} \subseteq Nat
  /\ {MaxSaves, MaxPics, MaxWrites, MaxUnread} \subseteq Nat /\ MaxUnread # 0
ASSUME EmailAssumption == "deleted" \notin Email
\* Nobody stands for null wherever a component has it.
ASSUME NobodyAssumption ==
  /\ Nobody \notin User \cup Call \cup Req \cup Spot
  /\ Nobody \notin {"here", "there"} /\ Nobody \notin BOOLEAN

VARIABLES
  part,  \* the component whose behaviour this is
  s1, s2, s3, s4, s5, s6, s7, s8, s9, s10, s11, s12, s13
=============================================================================
