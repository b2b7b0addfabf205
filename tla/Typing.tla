------------------------------- MODULE Typing -------------------------------
(***************************************************************************)
(* Who is typing: the Composer of one page says start at every change of    *)
(* the text and stop when it is sent or a timer runs out; the gateway       *)
(* passes on what comes from a socket in the conversation's room; another   *)
(* page, which stays in one conversation, shows it.                         *)
(***************************************************************************)
EXTENDS Naturals, Sequences

CONSTANTS
  Conv,     \* conversations of the typist
  Watched,  \* the one the other page shows
  None,     \* no conversation, no timer
  MaxOut    \* bounds what is on its way in either direction

VARIABLES
  active,  \* the conversation of the typist's page
  first,   \* the one it showed when the Composer mounted
  timer,   \* the conversation stopTimer will stop
  outbox,  \* on its way to the gateway
  joining, \* joins whose check is awaited
  rooms,   \* the rooms the typist's socket is in
  inbox,   \* typing:update on its way to the other page
  shown,   \* the other page shows the typist as typing
  stuck    \* history: the last word that he stopped was not passed on

vars == <<active, first, timer, outbox, joining, rooms, inbox, shown, stuck>>

-----------------------------------------------------------------------------
Ask(what, c) == [what |-> what, conv |-> c]
Say(asks) ==
  /\ Len(outbox) + Len(asks) <= MaxOut
  /\ outbox' = outbox \o asks

Init ==
  /\ active = None /\ first = None /\ timer = None
  /\ outbox = <<>> /\ joining = {} /\ rooms = {}
  /\ inbox = <<>> /\ shown = FALSE /\ stuck = FALSE

-----------------------------------------------------------------------------
(* The typist's page.                                                      *)

Open(c) ==
  /\ active = None
  /\ active' = c /\ first' = c
  /\ Say(<<Ask("join", c)>>)
  /\ UNCHANGED <<timer, joining, rooms, inbox, shown, stuck>>

\* The Composer is not mounted anew: its timer runs on for the old conversation.
Select(c) ==
  /\ active \notin {None, c}
  /\ active' = c
  /\ Say(<<Ask("leave", active), Ask("join", c)>>)
  /\ UNCHANGED <<first, timer, joining, rooms, inbox, shown, stuck>>

\* The timer is cleared; what he says now is of conversation c.
Forgets(c) == stuck \/ (timer = Watched /\ c # Watched)

\* handleChange
Type ==
  /\ active # None
  /\ Say(<<Ask("start", active)>>)
  /\ timer' = active
  /\ stuck' = Forgets(active)
  /\ UNCHANGED <<active, first, joining, rooms, inbox, shown>>

\* submit, or the text deleted
Submit ==
  /\ active # None
  /\ Say(<<Ask("stop", active)>>)
  /\ timer' = None
  /\ stuck' = Forgets(active)
  /\ UNCHANGED <<active, first, joining, rooms, inbox, shown>>

TimedOut ==
  /\ timer # None
  /\ Say(<<Ask("stop", timer)>>)
  /\ timer' = None
  /\ UNCHANGED <<active, first, joining, rooms, inbox, shown, stuck>>

\* The Composer unmounts with the callback of its first rendering, MessagesPage
\* with the conversation it shows; which comes first is React's affair.
Close ==
  /\ active # None
  /\ \/ Say(<<Ask("leave", active), Ask("stop", first)>>)
     \/ Say(<<Ask("stop", first), Ask("leave", active)>>)
  /\ active' = None /\ timer' = None
  /\ stuck' = Forgets(first)
  /\ UNCHANGED <<first, joining, rooms, inbox, shown>>

-----------------------------------------------------------------------------
(* The gateway.                                                            *)

Handled == /\ outbox # <<>> /\ outbox' = Tail(outbox)

HandleRoom ==
  /\ Handled /\ Head(outbox).what \in {"join", "leave"}
  /\ IF Head(outbox).what = "join"
       THEN joining' = joining \cup {Head(outbox).conv} /\ UNCHANGED rooms
       ELSE rooms' = rooms \ {Head(outbox).conv} /\ UNCHANGED joining
  /\ UNCHANGED <<active, first, timer, inbox, shown, stuck>>

Joined(c) ==
  /\ c \in joining
  /\ joining' = joining \ {c} /\ rooms' = rooms \cup {c}
  /\ UNCHANGED <<active, first, timer, outbox, inbox, shown, stuck>>

\* onTypingStart, onTypingStop: from outside the room it is ignored
Passed(c) == c \in rooms

HandleTyping ==
  LET starts == Head(outbox).what = "start"  c == Head(outbox).conv IN
  /\ Handled /\ Head(outbox).what \in {"start", "stop"}
  /\ IF c = Watched /\ Passed(c)
       THEN /\ Len(inbox) < MaxOut /\ inbox' = Append(inbox, starts)
            /\ stuck' = (stuck /\ (starts \/ \E i \in 2..Len(outbox) : outbox[i] = Ask("start", c)))
       ELSE /\ stuck' = (stuck \/ (c = Watched /\ ~starts))
            /\ UNCHANGED inbox
  /\ UNCHANGED <<active, first, timer, joining, rooms, shown>>

\* The connection drops with what was under way; no room is joined anew.
Drop ==
  /\ outbox' = <<>> /\ joining' = {} /\ rooms' = {}
  /\ stuck' = TRUE
  /\ UNCHANGED <<active, first, timer, inbox, shown>>

-----------------------------------------------------------------------------
(* The other page.                                                         *)

\* onTyping
Receive ==
  /\ inbox # <<>>
  /\ shown' = Head(inbox)
  /\ inbox' = Tail(inbox)
  /\ UNCHANGED <<active, first, timer, outbox, joining, rooms, stuck>>

\* another conversation and back: typingUsers is emptied
Reselect ==
  /\ shown' = FALSE
  /\ UNCHANGED <<active, first, timer, outbox, joining, rooms, inbox, stuck>>

Next ==
  \/ \E c \in Conv : Open(c) \/ Select(c) \/ Joined(c)
  \/ Type \/ Submit \/ TimedOut \/ Close
  \/ HandleRoom \/ HandleTyping \/ Drop \/ Receive \/ Reselect

Spec == Init /\ [][Next]_vars

-----------------------------------------------------------------------------
\* Both pages, the gateway and what is under way are well-typed.
TypeOK ==
  /\ {active, first, timer} \subseteq Conv \cup {None}
  /\ outbox \in Seq([what : {"join", "leave", "start", "stop"}, conv : Conv])
  /\ joining \in SUBSET Conv /\ rooms \in SUBSET Conv
  /\ inbox \in Seq(BOOLEAN) /\ {shown, stuck} \subseteq BOOLEAN

\* Who is shown as typing is about to be stopped by his timer.  The exceptions: the
\* connection dropped; he went to another conversation as he typed, so that his stop
\* came from outside the room or, as he typed on there, was never sent.
TypingEnds == shown /\ outbox = <<>> /\ inbox = <<>> => timer = Watched \/ stuck
=============================================================================
