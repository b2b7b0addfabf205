---------------------------- MODULE InviteQueue ----------------------------
(***************************************************************************)
(* Party invites in the page: PartyInviteProvider queues those the gateway  *)
(* announces, the popup offers the oldest, and only its answer takes an     *)
(* invite out.  The notifications page answers invites of its own list,     *)
(* which the queue does not hear of, nor of invites that went with a party. *)
(***************************************************************************)
EXTENDS Naturals, Sequences, SequencesExt, Listing

CONSTANT Invite  \* rows PartyInvite of this invitee, each created once

VARIABLES
  open,     \* created and not responded to
  unsent,   \* not yet created
  signed,   \* status = 'authenticated'
  events,   \* party:invite on their way to the page
  queue,    \* the invites to offer, oldest first
  answer,   \* the answer in flight, if any: responding
  astray    \* history: invites that may be shown and not open, or the reverse

vars == <<open, unsent, signed, events, queue, answer, astray>>

-----------------------------------------------------------------------------
Idle == [pc |-> "idle"]
Quiet == events = <<>> /\ answer = Idle

Init ==
  /\ open = {} /\ unsent = Invite
  /\ signed = TRUE /\ events = <<>> /\ queue = <<>>
  /\ answer = Idle /\ astray = {}

-----------------------------------------------------------------------------
\* createInvite and its event, to the sockets of the user's own room
Create(i) ==
  /\ i \in unsent
  /\ unsent' = unsent \ {i} /\ open' = open \cup {i}
  /\ IF signed THEN events' = Append(events, i) /\ UNCHANGED astray
               ELSE astray' = astray \cup {i} /\ UNCHANGED events
  /\ UNCHANGED <<signed, queue, answer>>

Receive ==
  /\ events # <<>>
  /\ events' = Tail(events)
  /\ queue' = IF Contains(queue, Head(events)) THEN queue ELSE Append(queue, Head(events))
  /\ UNCHANGED <<open, unsent, signed, answer, astray>>

\* the connection is lost
Lose ==
  /\ events # <<>>
  /\ events' = <<>>
  /\ astray' = astray \cup ToSet(events)
  /\ UNCHANGED <<open, unsent, signed, queue, answer>>

\* respondToPartyInvite of the notifications page, or the end of the party
ClosedElsewhere(i) ==
  /\ i \in open
  /\ open' = open \ {i}
  /\ astray' = astray \cup {i}
  /\ UNCHANGED <<unsent, signed, events, queue, answer>>

-----------------------------------------------------------------------------
(* The popup: acceptInvite and declineInvite.                              *)

Respond(accept) ==
  /\ queue # <<>> /\ answer = Idle
  /\ answer' = [pc |-> "asked", invite |-> Head(queue), accept |-> accept]
  /\ UNCHANGED <<open, unsent, signed, events, queue, astray>>

\* respondToInvite
Serve ==
  /\ answer.pc = "asked" /\ answer.invite \in open
  /\ open' = open \ {answer.invite}
  /\ answer' = [answer EXCEPT !.pc = "served"]
  /\ UNCHANGED <<unsent, signed, events, queue, astray>>

Served ==
  /\ answer.pc = "served"
  /\ queue' = Without(queue, answer.invite)
  /\ answer' = Idle
  /\ UNCHANGED <<open, unsent, signed, events, astray>>

\* catch: an accept that failed, or whose answer was lost, stays and is offered
\* again before all others; a decline goes whatever the server says
Failed ==
  /\ answer # Idle
  /\ answer' = Idle
  /\ IF answer.accept
       THEN /\ astray' = IF answer.pc = "served" THEN astray \cup {answer.invite} ELSE astray
            /\ UNCHANGED queue
       ELSE /\ queue' = Without(queue, answer.invite)
            /\ astray' = astray \cup {answer.invite}
  /\ UNCHANGED <<open, unsent, signed, events>>

-----------------------------------------------------------------------------
\* The queue is emptied; of the invites still open nothing is loaded later.
SignOut ==
  /\ signed /\ signed' = FALSE
  /\ queue' = <<>> /\ events' = <<>>
  /\ astray' = astray \cup ToSet(queue) \cup ToSet(events)
  /\ UNCHANGED <<open, unsent, answer>>

SignIn ==
  /\ ~signed /\ signed' = TRUE
  /\ UNCHANGED <<open, unsent, events, queue, answer, astray>>

Next ==
  \/ \E i \in Invite : Create(i) \/ ClosedElsewhere(i)
  \/ Receive \/ Lose \/ Serve \/ Served \/ Failed \/ SignOut \/ SignIn
  \/ \E accept \in BOOLEAN : Respond(accept)

Spec == Init /\ [][Next]_vars

-----------------------------------------------------------------------------
\* Invites, queue and answer are well-typed, and no invite is queued twice.
TypeOK ==
  /\ {open, unsent, astray} \subseteq SUBSET Invite /\ signed \in BOOLEAN
  /\ events \in Seq(Invite) /\ queue \in Seq(Invite) /\ IsInjective(queue)
  /\ answer \in {Idle} \cup [pc : {"asked", "served"}, invite : Invite, accept : BOOLEAN]

\* Once nothing is in flight the page offers the invites that are open and no
\* others.  The exceptions: one closed elsewhere; one whose event was lost or came
\* while nobody was signed in, or that a sign-out took off the queue; a decline that
\* failed, and an accept whose answer was lost.
InvitesTrue == Quiet => \A i \in Invite \ astray : Contains(queue, i) <=> i \in open
=============================================================================
