------------------------------ MODULE SideBar ------------------------------
(***************************************************************************)
(* The conversations beside the messages, each with the number of messages  *)
(* the user has not read.  The server counts what came from others after    *)
(* lastReadAt and is not deleted; the page loads the counts once and        *)
(* reckons on: the conversation it shows is marked read as its history      *)
(* comes and as messages arrive that it does not know, provided the window  *)
(* has the focus.  Without it any message counts, the user's own too.  Of   *)
(* the other conversations, and of deletions, it hears nothing.             *)
(***************************************************************************)
EXTENDS Naturals, Sequences

CONSTANTS
  Conv,       \* the user's conversations
  None,       \* no conversation is shown
  MaxUnread,  \* bounds the unread messages of a conversation, the events, and the
              \* badge of a conversation that is sent to
  MaxMarks    \* bounds the marks of a conversation in flight

VARIABLES
  unread,    \* messages of others after lastReadAt, of each conversation
  active,    \* activeId
  heard,     \* the conversations whose room the page is in
  focused,   \* document.hasFocus()
  badge,     \* unread of the conversations the page keeps
  load,      \* where the loading of the list is
  history,   \* where the loading of the history of the one shown is
  marks,     \* requests of markRead in flight, of each conversation
  created,   \* message:created on its way to the page
  known,     \* how many of the first of these knownMessageIds has, of the one shown
  astray     \* history: the conversations whose badge need not be true

vars == <<unread, active, heard, focused, badge, load, history, marks, created, known, astray>>

-----------------------------------------------------------------------------
Asked == [pc |-> "asked"]
Done == [pc |-> "done"]

Event == [conversation : Conv, own : BOOLEAN]

Coming(c) == \E i \in DOMAIN created : created[i] = [conversation |-> c, own |-> FALSE]
InFlight(c) == marks[c] > 0 \/ Coming(c)
Quiet == load = Done /\ history = "done" /\ created = <<>> /\ \A c \in Conv : marks[c] = 0

Marking(c) == marks[c] < MaxMarks /\ marks' = [marks EXCEPT ![c] = @ + 1]

Init ==
  /\ unread \in [Conv -> 0..1]
  /\ active \in {None} \cup Conv  \* the c of the location, if any
  /\ heard = {} /\ focused = TRUE
  /\ badge = [c \in Conv |-> 0]
  /\ load = Asked
  /\ history = IF active = None THEN "done" ELSE "asked"
  /\ marks = [c \in Conv |-> 0] /\ created = <<>> /\ known = 0 /\ astray = {}

-----------------------------------------------------------------------------
(* The list.                                                               *)

\* listConversationsForUser
ReadList ==
  /\ load = Asked
  /\ load' = [pc |-> "read", unread |-> unread]
  /\ astray' = {c \in Conv : InFlight(c) \/ c = active}
  /\ UNCHANGED <<unread, active, heard, focused, badge, history, marks, created, known>>

\* The first conversation is shown when none was as the page mounted.
Loaded ==
  /\ load.pc = "read"
  /\ load' = Done
  /\ badge' = load.unread
  /\ IF active = None
       THEN (\E c \in Conv : active' = c) /\ history' = "asked"
       ELSE UNCHANGED <<active, history>>
  /\ UNCHANGED <<unread, heard, focused, marks, created, known, astray>>

\* the error, and loadConversations tried again
LoadFailed ==
  /\ load # Done
  /\ load' = Asked
  /\ UNCHANGED <<unread, active, heard, focused, badge, history, marks, created, known, astray>>

-----------------------------------------------------------------------------
(* The conversation that is shown.                                         *)

\* The old room is left at once, the new one entered after the check.
Select(c) ==
  /\ load = Done /\ c # active
  /\ active' = c /\ history' = "asked"
  /\ heard' = {} /\ known' = 0
  /\ UNCHANGED <<unread, focused, badge, load, marks, created, astray>>

Joined ==
  /\ active # None
  /\ heard' = {active}
  /\ UNCHANGED <<unread, active, focused, badge, load, history, marks, created, known, astray>>

\* then of listMessages: marked read, and no unread, whatever has come since
HistoryShown ==
  /\ history = "asked"
  /\ history' = "done"
  /\ known' \in 0..Len(created)
  /\ Marking(active)
  /\ badge' = [badge EXCEPT ![active] = 0]
  /\ astray' = IF load = Done /\ active \in heard /\ ~InFlight(active)
                 THEN astray \ {active} ELSE astray
  /\ UNCHANGED <<unread, active, heard, focused, load, created>>

HistoryFailed ==
  /\ history = "asked"
  /\ history' = "done"
  /\ UNCHANGED <<unread, active, heard, focused, badge, load, marks, created, known, astray>>

\* markRead, of all that is stored by then
Mark(c) ==
  /\ marks[c] > 0
  /\ marks' = [marks EXCEPT ![c] = @ - 1]
  /\ unread' = [unread EXCEPT ![c] = 0]
  /\ astray' = IF Coming(c) THEN astray \cup {c} ELSE astray
  /\ UNCHANGED <<active, heard, focused, badge, load, history, created, known>>

\* catch(() => {})
MarkFailed(c) ==
  /\ marks[c] > 0
  /\ marks' = [marks EXCEPT ![c] = @ - 1]
  /\ astray' = astray \cup {c}
  /\ UNCHANGED <<unread, active, heard, focused, badge, load, history, created, known>>

-----------------------------------------------------------------------------
(* Messages.                                                               *)

\* Only the sockets in the conversation's room get message:created, those of
\* the author too.
Send(c, own) ==
  /\ Len(created) < MaxUnread /\ badge[c] <= MaxUnread
  /\ IF own THEN UNCHANGED unread
            ELSE unread[c] < MaxUnread /\ unread' = [unread EXCEPT ![c] = @ + 1]
  /\ created' = IF c \in heard THEN Append(created, [conversation |-> c, own |-> own])
                ELSE created
  /\ astray' = IF own \/ c \in heard THEN astray ELSE astray \cup {c}
  /\ UNCHANGED <<active, heard, focused, badge, load, history, marks, known>>

\* deleteMessage, of one that is not read: by its author, and with no event
Delete(c) ==
  /\ unread[c] > 0
  /\ unread' = [unread EXCEPT ![c] = @ - 1]
  /\ astray' = astray \cup {c}
  /\ UNCHANGED <<active, heard, focused, badge, load, history, marks, created, known>>

Shows(c) == c = active /\ focused

\* Whether the badge is still as true as it was: one that is set to nothing if
\* the server's count is too, by and by, one that is raised if it was.
Trusted(c, own, isKnown) ==
  /\ load = Done
  /\ IF Shows(c) THEN ~isKnown \/ marks[c] > 0 \/ (own /\ badge[c] = 0)
                 ELSE ~own /\ marks[c] = 0

\* onCreated, of a message the page knows already or does not: its own it may
\* know by the answer to sendMessage.
Created ==
  /\ created # <<>>
  /\ LET e == Head(created)
         c == e.conversation
     IN  \E isKnown \in {known > 0, known > 0 \/ e.own} :
           /\ badge' = [badge EXCEPT ![c] = IF Shows(c) THEN 0 ELSE @ + 1]
           /\ IF Shows(c) /\ ~isKnown THEN Marking(c) ELSE UNCHANGED marks
           /\ astray' = IF Trusted(c, e.own, isKnown) THEN astray ELSE astray \cup {c}
  /\ created' = Tail(created) /\ known' = IF known > 0 THEN known - 1 ELSE 0
  /\ UNCHANGED <<unread, active, heard, focused, load, history>>

\* The connection drops: the page is in no room until another is selected.
Drop ==
  /\ heard # {}
  /\ heard' = {} /\ created' = <<>> /\ known' = 0
  /\ astray' = astray \cup {c \in Conv : Coming(c)}
  /\ UNCHANGED <<unread, active, focused, badge, load, history, marks>>

\* To come back to the window marks nothing as read.
Focus ==
  /\ focused' = ~focused
  /\ UNCHANGED <<unread, active, heard, badge, load, history, marks, created, known, astray>>

Next ==
  \/ ReadList \/ Loaded \/ LoadFailed
  \/ Joined \/ HistoryShown \/ HistoryFailed \/ Created \/ Drop \/ Focus
  \/ \E c \in Conv : Select(c) \/ Mark(c) \/ MarkFailed(c) \/ Delete(c)
  \/ \E c \in Conv, own \in BOOLEAN : Send(c, own)

Spec == Init /\ [][Next]_vars

-----------------------------------------------------------------------------
\* Counts, badges and what is in flight are well-typed.
TypeOK ==
  /\ unread \in [Conv -> 0..MaxUnread] /\ badge \in [Conv -> Nat] /\ marks \in [Conv -> Nat]
  /\ active \in Conv \cup {None} /\ heard \in SUBSET Conv /\ astray \in SUBSET Conv
  /\ focused \in BOOLEAN /\ history \in {"asked", "done"}
  /\ load \in {Asked, Done} \cup [pc : {"read"}, unread : [Conv -> 0..MaxUnread]]
  /\ created \in Seq(Event) /\ known \in Nat

\* Once nothing is in flight every badge is the server's count, but for the
\* conversations that one of these has befallen since their badge was last known
\* to be true: a message of others came while the page was not in the room
\* (MessagesPage's "across all conversations" does not hear of it), or its event
\* was lost with the connection; a message came while the window had no focus or
\* another was shown, either the user's own, which the page counts and the server
\* does not, or while a mark was under way; a mark was carried out while an event
\* was on its way, or failed; the event of a message that the page knew cleared
\* the badge without a mark; a message was deleted unread; or the list or the
\* history was loading when it came or was shown.
BadgesTrue == Quiet => \A c \in Conv \ astray : badge[c] = unread[c]
=============================================================================
