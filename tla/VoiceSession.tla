---------------------------- MODULE VoiceSession ----------------------------
(***************************************************************************)
(* The voice connection of a page: joinPartyVoice with its three awaits,   *)
(* teardownRoom, muting and deafening, of VoiceSessionContext.             *)
(*                                                                         *)
(* The page holds one room, roomRef; every call of joinPartyVoice makes    *)
(* one of its own.  LiveKit is known by what the page asks of it and by    *)
(* the Disconnected event, which comes some time after a room is left.     *)
(***************************************************************************)
EXTENDS Naturals, FiniteSets

CONSTANTS
  Call,   \* slots of joinPartyVoice; bounds the rooms there are at once
  NoCall  \* stands for no room

VARIABLES
  status,    \* AuthContext.status
  call,      \* what each call has come to, and the mic it has switched on or off
  parting,   \* the rooms the page has left whose Disconnected has not come yet
  held,      \* roomRef
  shows,     \* the switches the page shows: connected, muted, deafened
  overtaken, \* history: calls under way when the user signed out
  stray,     \* history: live rooms that roomRef was taken away from
  unheard    \* history: calls under way when the user muted or unmuted himself

page == <<held, shows>>
past == <<overtaken, stray, unheard>>
vars == <<status, call, parting, page, past>>

-----------------------------------------------------------------------------
(* A call: waiting for its token, for the connection, for the microphone;  *)
(* live; or connected still, although its microphone was refused.  It      *)
(* carries the value of muted it began with: the mic it will ask for.      *)
None == [pc |-> "none"]
At(pc, mic) == [pc |-> pc, mic |-> mic]
Calls == {None} \cup [pc : {"token", "connect", "mic", "live", "deaf"}, mic : BOOLEAN]

InMaking(c) == call[c].pc \in {"token", "connect", "mic"}
Making == {c \in Call : InMaking(c)}
Live(c) == call[c].pc = "live"
In == status = "authenticated"

\* the rooms that are connected, for others to hear or to hear others
Connected(c) == call[c].pc \in {"mic", "live", "deaf"}

-----------------------------------------------------------------------------
(* Mutated forms: what a plausible slip in the code would make of the      *)
(* definition whose name each one carries.  No action uses them; replacing *)
(* the definition by its form must break the property the form is for.     *)

\* roomRef cleared, the room not disconnected
DisconnectNothing == {}

\* the switch set without telling the room
ToldNothing(mic) == call

-----------------------------------------------------------------------------
\* what roomRef.current?.disconnect() disconnects
Disconnects == {held} \ {NoCall}

\* teardownRoom, with the rooms as they stand in now
Teardown(now) ==
  /\ call' = [c \in Call |-> IF c \in Disconnects THEN None ELSE now[c]]
  /\ parting' = parting \cup Disconnects
  /\ held' = NoCall
  /\ shows' = [shows EXCEPT !.connected = FALSE]
  /\ UNCHANGED <<stray, unheard>>

\* localParticipant.setMicrophoneEnabled of the room that is held, if any
Told(mic) == IF held = NoCall THEN call ELSE [call EXCEPT ![held].mic = mic]

Init ==
  /\ status = "authenticated"
  /\ call = [c \in Call |-> None]
  /\ parting = {} /\ held = NoCall
  /\ shows = [connected |-> FALSE, muted |-> FALSE, deafened |-> FALSE]
  /\ overtaken = {} /\ stray = {} /\ unheard = {}

-----------------------------------------------------------------------------
\* A slot is one call; it begins anew when all of the last one is over.
Join(c) ==
  /\ In
  /\ call[c] = None /\ c \notin parting
  /\ call' = [call EXCEPT ![c] = At("token", ~shows.muted)]
  /\ overtaken' = overtaken \ {c} /\ stray' = stray \ {c} /\ unheard' = unheard \ {c}
  /\ UNCHANGED <<status, parting, page>>

\* voiceToken, connect
Advance(c) ==
  /\ call[c].pc \in {"token", "connect"}
  /\ call' = [call EXCEPT ![c].pc = IF @ = "token" THEN "connect" ELSE "mic"]
  /\ UNCHANGED <<status, parting, page, past>>

\* the microphone is on, or off: roomRef is this room now
Connect(c) ==
  /\ call[c].pc = "mic"
  /\ call' = [call EXCEPT ![c].pc = "live"]
  /\ held' = c
  /\ shows' = [shows EXCEPT !.connected = TRUE]
  /\ stray' = stray \cup Disconnects
  /\ UNCHANGED <<status, parting, overtaken, unheard>>

\* catch: what is torn down is the room of roomRef, never the one in the making
Fail(c) ==
  /\ InMaking(c)
  /\ Teardown([call EXCEPT ![c] = IF @.pc = "mic" THEN At("deaf", FALSE) ELSE None])
  /\ UNCHANGED <<status, overtaken>>

\* leaveVoice, or party:ended, whichever party that is of
Leave ==
  /\ Teardown(call)
  /\ UNCHANGED <<status, overtaken>>

SignOut ==
  /\ In /\ status' = "unauthenticated"
  /\ Teardown(call)
  /\ overtaken' = overtaken \cup Making

SignIn ==
  /\ ~In /\ status' = "authenticated"
  /\ UNCHANGED <<call, parting, page, past>>

-----------------------------------------------------------------------------
(* Disconnected: of a room the page has left, or of one that was closed or *)
(* lost at the other end.  The handler clears roomRef whichever room it is *)
(* of.                                                                     *)

Disconnected(c) ==
  /\ held' = NoCall
  /\ shows' = [shows EXCEPT !.connected = FALSE]
  /\ stray' = stray \cup (Disconnects \ {c})
  /\ UNCHANGED <<status, overtaken, unheard>>

Parted(c) ==
  /\ c \in parting /\ parting' = parting \ {c}
  /\ Disconnected(c)
  /\ UNCHANGED call

Closed(c) ==
  /\ call[c].pc \in {"live", "deaf"}
  /\ call' = [call EXCEPT ![c] = None]
  /\ Disconnected(c)
  /\ UNCHANGED parting

\* The same before the page holds the room; the call goes on regardless, and
\* takes the lost room for a live one or fails.
ClosedInMaking(c) ==
  /\ call[c].pc = "mic"
  /\ \/ call' = [call EXCEPT ![c] = None]
     \/ UNCHANGED call
  /\ Disconnected(c)
  /\ UNCHANGED parting

-----------------------------------------------------------------------------
\* toggleMute, and toggleDeafen, which mutes as well but never unmutes
ToggleMute ==
  /\ shows' = [shows EXCEPT !.muted = ~@]
  /\ call' = Told(shows.muted)
  /\ unheard' = unheard \cup Making
  /\ UNCHANGED <<status, parting, held, overtaken, stray>>

ToggleDeafen ==
  LET mutes == ~shows.deafened /\ ~shows.muted
  IN  /\ shows' = [shows EXCEPT !.deafened = ~@, !.muted = @ \/ mutes]
      /\ call' = IF mutes THEN Told(FALSE) ELSE call
      /\ unheard' = IF mutes THEN unheard \cup Making ELSE unheard
      /\ UNCHANGED <<status, parting, held, overtaken, stray>>

Next ==
  \/ \E c \in Call : \/ Join(c) \/ Advance(c) \/ Connect(c) \/ Fail(c)
                     \/ Parted(c) \/ Closed(c) \/ ClosedInMaking(c)
  \/ Leave \/ SignOut \/ SignIn
  \/ ToggleMute \/ ToggleDeafen

Spec == Init /\ [][Next]_vars

-----------------------------------------------------------------------------
\* Rooms, the page and what is to come are well-typed, and what the page holds
\* is a room that has been live.
TypeOK ==
  /\ status \in {"authenticated", "unauthenticated"}
  /\ call \in [Call -> Calls]
  /\ parting \in SUBSET Call /\ held \in Call \cup {NoCall}
  /\ shows \in [connected : BOOLEAN, muted : BOOLEAN, deafened : BOOLEAN]
  /\ overtaken \in SUBSET Call /\ stray \in SUBSET Call /\ unheard \in SUBSET Call

\* A live microphone is the one of the room the page holds and shows, and the
\* user is signed in, save in three cases in which the code does leave one live: a
\* call that was under way when he signed out, which teardownRoom cannot reach (see
\* SilentOnceOut); a room whose roomRef a later call of joinPartyVoice took; and one
\* whose roomRef the Disconnected of another room cleared.  Every other way out of
\* a room, failed calls, party:ended and rooms closed at the other end among them,
\* leaves no microphone behind.
MicHeld == \A c \in Call : Live(c) =>
  \/ c \in stray \cup overtaken
  \/ held = c /\ shows.connected /\ In

\* A user who is signed out is not heard: "Clean up the LiveKit connection on logout
\* so we don't leak a live mic" (VoiceSessionContext).  The effect tears down the
\* room of roomRef, and a call that awaits its token, its connection or its
\* microphone goes live after it.
SilentOnceOut == ~In => \A c \in Call : ~(Live(c) /\ call[c].mic)

\* The room the page holds hears the user if and only if the page shows him
\* unmuted, unless he muted or unmuted himself while the call was under way: it
\* goes by the switch it read when it began, and the room is not told.
MicAsShown == \A c \in Call : Live(c) /\ held = c =>
  c \in unheard \/ call[c].mic = ~shows.muted
=============================================================================
