---------------------------- MODULE ChannelVoice ----------------------------
(***************************************************************************)
(* The voice channels of a community: joinChannel of VoiceService, which   *)
(* makes the room of a channel when it is first asked for, and the         *)
(* VoiceChannelPanel of every member's page, which joins it.               *)
(*                                                                         *)
(* A panel is mounted while its page shows voice channels; it stays the    *)
(* same panel when the page goes from one of them to another.  What would  *)
(* set its state after it was unmounted is lost.                           *)
(***************************************************************************)
EXTENDS Naturals, FiniteSets

CONSTANTS
  Channel,  \* voice channels of the community
  Page,     \* pages of members
  Call,     \* slots of join; bounds the calls and their rooms at once
  NoCall,   \* stands for no room
  MaxRooms  \* bounds the rooms ever made

VARIABLES
  voiceRoom,  \* the room each channel leads to, 0 for none
  made,       \* number of rooms in table VoiceRoom
  gone,       \* channels that have been deleted
  call,       \* each call of join, from the request to the end of its room
  shown,      \* the channel in the panel of each page
  held,       \* state of each panel: the call whose room it has
  doubled     \* history: channels that were given a room while they had one

server == <<voiceRoom, made, gone, doubled>>
vars == <<server, call, shown, held>>

-----------------------------------------------------------------------------
NoChannel == "none"
Room == 1..MaxRooms

(* A call: before the server's read, or its insert; with a token, before   *)
(* the connection and before the microphone; live; connected still without *)
(* its microphone; left, its disconnected event to come.  own: its panel   *)
(* is mounted still.                                                       *)
None == [pc |-> "none"]
Asking == {"find", "create"}
Granted == {"token", "connect", "mic", "live", "deaf", "left"}
Calls == {None}
  \cup [pc : Asking, page : Page, chan : Channel, own : BOOLEAN]
  \cup [pc : Granted, page : Page, chan : Channel, own : BOOLEAN, room : Room]

Connecting(k) == call[k].pc \in Asking \cup {"token", "connect", "mic"}
InRoom(k) == call[k].pc \in {"connect", "mic", "live", "deaf"}
Of(p) == {k \in Call : call[k] # None /\ call[k].page = p}
With(k, room) ==
  [pc |-> "token", page |-> call[k].page, chan |-> call[k].chan, own |-> call[k].own, room |-> room]

\* connecting, which disables the button
Busy(p) == \E k \in Of(p) : Connecting(k) /\ call[k].own

-----------------------------------------------------------------------------
Init ==
  /\ voiceRoom = [c \in Channel |-> 0] /\ made = 0 /\ gone = {}
  /\ call = [k \in Call |-> None]
  /\ shown = [p \in Page |-> NoChannel]
  /\ held = [p \in Page |-> NoCall]
  /\ doubled = {}

-----------------------------------------------------------------------------
(* joinChannel: the read of the channel, the room if it has none yet, the  *)
(* token.  A channel that is gone by the insert rolls it back.              *)

Find(k) ==
  LET c == call[k].chan IN
  /\ call[k].pc = "find"
  /\ call' = [call EXCEPT ![k] =
       IF c \in gone THEN None
       ELSE IF voiceRoom[c] = 0 THEN [@ EXCEPT !.pc = "create"]
       ELSE With(k, voiceRoom[c])]
  /\ UNCHANGED <<server, shown, held>>

\* channel.update, which takes the place of whatever room it was connected to
Connected(c, room) == [voiceRoom EXCEPT ![c] = room]

CreateRoom(k) ==
  LET c == call[k].chan IN
  /\ call[k].pc = "create"
  /\ made < MaxRooms
  /\ IF c \in gone
       THEN call' = [call EXCEPT ![k] = None] /\ UNCHANGED <<voiceRoom, made, doubled>>
       ELSE /\ made' = made + 1
            /\ voiceRoom' = Connected(c, made + 1)
            /\ doubled' = IF voiceRoom[c] = 0 THEN doubled ELSE doubled \cup {c}
            /\ call' = [call EXCEPT ![k] = With(k, made + 1)]
  /\ UNCHANGED <<gone, shown, held>>

DeleteChannel(c) ==
  /\ c \notin gone /\ gone' = gone \cup {c}
  /\ UNCHANGED <<voiceRoom, made, doubled, call, shown, held>>

-----------------------------------------------------------------------------
(* The panel.  Whenever the room in its state changes, and when it is      *)
(* unmounted, it disconnects the room it had.                               *)

\* the room that room?.disconnect() of a page's panel leaves
Cut(p) == {held[p]} \ {NoCall}

Show(p, c) ==
  /\ shown[p] # c
  /\ shown' = [shown EXCEPT ![p] = c]
  /\ UNCHANGED <<server, call, held>>

\* A call under way is not told.
Unmount(p) ==
  /\ shown[p] # NoChannel
  /\ shown' = [shown EXCEPT ![p] = NoChannel]
  /\ held' = [held EXCEPT ![p] = NoCall]
  /\ call' = [k \in Call |-> IF k \in Cut(p) \/ (k \in Of(p) /\ call[k].pc = "left") THEN None
                             ELSE IF k \in Of(p) /\ k # held[p] THEN [call[k] EXCEPT !.own = FALSE]
                             ELSE call[k]]
  /\ UNCHANGED server

Join(k, p) ==
  /\ call[k] = None
  /\ shown[p] # NoChannel /\ held[p] = NoCall /\ ~Busy(p)
  /\ call' = [call EXCEPT ![k] = [pc |-> "find", page |-> p, chan |-> shown[p], own |-> TRUE]]
  /\ UNCHANGED <<server, shown, held>>

Advance(k) ==
  /\ call[k].pc \in {"token", "connect"}
  /\ call' = [call EXCEPT ![k].pc = IF @ = "token" THEN "connect" ELSE "mic"]
  /\ UNCHANGED <<server, shown, held>>

\* The microphone is on; a panel that is gone does not learn of it.
Enter(k) ==
  /\ call[k].pc = "mic"
  /\ call' = [call EXCEPT ![k].pc = "live"]
  /\ held' = IF call[k].own THEN [held EXCEPT ![call[k].page] = k] ELSE held
  /\ UNCHANGED <<server, shown>>

\* catch, at whatever step; a room whose microphone is refused stays connected
Fail(k) ==
  /\ Connecting(k)
  /\ \/ call' = [call EXCEPT ![k] = None]
     \/ call[k].pc = "mic" /\ call' = [call EXCEPT ![k].pc = "deaf"]
  /\ UNCHANGED <<server, shown, held>>

Leave(p) ==
  /\ held[p] # NoCall
  /\ call' = [k \in Call |-> IF k \in Cut(p) THEN [call[k] EXCEPT !.pc = "left"] ELSE call[k]]
  /\ held' = [held EXCEPT ![p] = NoCall]
  /\ UNCHANGED <<server, shown>>

\* disconnected: of a room that was left, or was closed or lost at the other
\* end.  The handler lets go of the panel's room whichever it is, and so leaves
\* it.
Disconnected(k) ==
  LET p == call[k].page
      cut == IF call[k].own THEN Cut(p) \ {k} ELSE {}
  IN  /\ call[k].pc \in {"left", "live", "deaf"}
      /\ call' = [j \in Call |-> IF j = k THEN None
                                 ELSE IF j \in cut THEN [call[j] EXCEPT !.pc = "left"]
                                 ELSE call[j]]
      /\ held' = IF call[k].own THEN [held EXCEPT ![p] = NoCall] ELSE held
      /\ UNCHANGED <<server, shown>>

Next ==
  \/ \E c \in Channel : DeleteChannel(c) \/ \E p \in Page : Show(p, c)
  \/ \E p \in Page : Unmount(p) \/ Leave(p) \/ \E k \in Call : Join(k, p)
  \/ \E k \in Call : \/ Find(k) \/ CreateRoom(k) \/ Advance(k)
                     \/ Enter(k) \/ Fail(k) \/ Disconnected(k)

Spec == Init /\ [][Next]_vars

-----------------------------------------------------------------------------
\* Rooms, calls and panels are well-typed; no channel leads to a room that was
\* never made, and no call has a token for one.
TypeOK ==
  /\ made \in 0..MaxRooms
  /\ voiceRoom \in [Channel -> 0..made]
  /\ gone \in SUBSET Channel /\ doubled \in SUBSET Channel
  /\ call \in [Call -> Calls]
  /\ \A k \in Call : call[k].pc \in Granted => call[k].room <= made
  /\ shown \in [Page -> Channel \cup {NoChannel}]
  /\ held \in [Page -> Call \cup {NoCall}]

\* reconnect: the room is still the one its channel leads to
MayReconnect(k) == voiceRoom[call[k].chan] = call[k].room

\* Whoever is in the room of a channel is in the room the channel leads to: he
\* meets those who come later, and may reconnect.  The exception is a channel
\* that two joined first at once.
Together == \A k \in Call : InRoom(k) /\ call[k].chan \notin gone =>
  MayReconnect(k) \/ call[k].chan \in doubled

\* A live microphone is in the room of a mounted panel, whose button leaves it,
\* except when the panel went while it was joining.
MicHeld == \A k \in Call : call[k].pc = "live" => held[call[k].page] = k \/ ~call[k].own
=============================================================================
