-------------------------------- MODULE Link --------------------------------
(***************************************************************************)
(* The socket of one page, from both ends: the rooms the server has put it *)
(* in (onJoinConversation, onJoinChannel, onJoinParty and their leaves),   *)
(* what is under way in each direction, connections lost and made again.   *)
(* The modules of the pages that live on such a socket extend this one.    *)
(***************************************************************************)
EXTENDS Sequences

CONSTANT Room  \* conversations, channels or parties: what a page may join

VARIABLES
  up,       \* the connection stands
  outbox,   \* joins and leaves on their way to the server
  joining,  \* joins whose check of the membership is awaited
  rooms,    \* the rooms this socket is in
  inbox     \* events on their way to the page, in the order of their emission

link == <<up, outbox, joining, rooms, inbox>>

Ask(what, room) == [what |-> what, room |-> room]

LinkTypeOK(Event) ==
  /\ up \in BOOLEAN
  /\ outbox \in Seq([what : {"join", "leave"}, room : Room])
  /\ joining \in SUBSET Room /\ rooms \in SUBSET Room
  /\ inbox \in Seq(Event)

LinkInit ==
  /\ up = TRUE
  /\ outbox = <<>> /\ inbox = <<>>
  /\ joining = {} /\ rooms = {}

-----------------------------------------------------------------------------
\* socket.emit: what is sent while the connection is down waits for the next
Say(asks) == outbox' = outbox \o asks /\ UNCHANGED <<up, joining, rooms, inbox>>

\* server.to(room).emit: only the sockets that are in the room by now
Emit(room, event) ==
  /\ inbox' = IF room \in rooms THEN Append(inbox, event) ELSE inbox
  /\ UNCHANGED <<up, outbox, joining, rooms>>

\* the page takes the next event
Take == inbox' = Tail(inbox) /\ UNCHANGED <<up, outbox, joining, rooms>>

-----------------------------------------------------------------------------
\* A leave is carried out at once, a join only after its check.
Handle ==
  /\ up /\ outbox # <<>>
  /\ LET ask == Head(outbox)
     IN  IF ask.what = "join"
           THEN joining' = joining \cup {ask.room} /\ UNCHANGED rooms
           ELSE rooms' = rooms \ {ask.room} /\ UNCHANGED joining
  /\ outbox' = Tail(outbox)
  /\ UNCHANGED <<up, inbox>>

AnswerJoin(room, allowed) ==
  /\ room \in joining
  /\ joining' = joining \ {room}
  /\ rooms' = IF allowed THEN rooms \cup {room} ELSE rooms
  /\ UNCHANGED <<up, outbox, inbox>>

\* The new connection is a new socket, in no room until the page asks again.
Drop ==
  /\ up /\ up' = FALSE
  /\ outbox' = <<>> /\ inbox' = <<>>
  /\ joining' = {} /\ rooms' = {}

Reconnect == ~up /\ up' = TRUE /\ UNCHANGED <<outbox, joining, rooms, inbox>>
=============================================================================
