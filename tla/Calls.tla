------------------------------- MODULE Calls -------------------------------
(***************************************************************************)
(* Party calls: the call:* handlers of RealtimeGateway, the socket         *)
(* lifecycle they depend on, and the CallContext of every connected page.  *)
(*                                                                         *)
(* A Client is one page with its Socket.IO connection; a user may have     *)
(* several.  Messages travel in order on each connection and those under   *)
(* way are lost with it; what a page emits while disconnected is buffered  *)
(* and sent after the reconnect.  The synchronous part of a handler is one *)
(* step; call:invite has four database reads, hence five.                  *)
(*                                                                         *)
(* An element of Call stands for one call:invite and the id the server     *)
(* draws for it.  The page draws an id of its own for the same call, from  *)
(* OwnId: two random UUIDs are never equal.                                *)
(***************************************************************************)
EXTENDS Integers, SequencesExt

CONSTANTS
  User, Client,
  Owner,     \* the user signed in on each client
  Call,      \* bounds the invites ever sent
  OwnId,     \* ids drawn by the pages
  Roster,    \* the role tables the party can have (external: module Party)
  Steady,    \* the clients that never lose their connection
  None

ASSUME UserAssumption == IsFiniteSet(User)
ASSUME OwnerAssumption == Owner \in [Client -> User]
ASSUME IdsAssumption == OwnId \cap Call = {} /\ None \notin Call \cup OwnId \cup Client
ASSUME RosterAssumption == Roster \subseteq [User -> {"none", "MEMBER", "LEADER"}]
ASSUME SteadyAssumption == Steady \subseteq Client

VARIABLES
  role,      \* PartyMember.role of the party, by user
  conn,      \* connected clients
  leaving,   \* clients whose handleDisconnect has yet to end their user's calls
  call,      \* the call:invite handlers, then the entries of pendingCalls
  armed,     \* calls with a ring timer running
  incoming,  \* CallContext.incomingCall of each client
  outgoing,  \* CallContext.outgoingCall of each client
  up, down   \* messages under way to and from the server

vars == <<role, conn, leaving, call, armed, incoming, outgoing, up, down>>
server == <<role, conn, leaving, call, armed>>
pages == <<incoming, outgoing>>
wires == <<up, down>>

-----------------------------------------------------------------------------
Stage == {"free", "sent", "member", "leader", "party", "user", "pending", "over"}
CallState == [stage : Stage, caller : User \cup {None}, socket : Client \cup {None},
              members : SUBSET User, responded : SUBSET User]
Free == [stage |-> "free", caller |-> None, socket |-> None, members |-> {}, responded |-> {}]

Outgoing == [id : OwnId \cup Call, status : {"ringing", "waiting"}]

\* Whether a response accepts or declines, and the notice of it to the caller,
\* only changes a toast: "respond" and "responded" stand for both.
Message == [kind : {"invite", "cancel", "respond", "incoming", "ringing", "responded",
                    "cancelled", "missed"},
            call : Call \cup OwnId]
Msg(kind, k) == [kind |-> kind, call |-> k]

Pending == {k \in Call : call[k].stage = "pending"}
Devices(users) == {c \in conn : Owner[c] \in users}
Sent(queue) == {queue[n] : n \in DOMAIN queue}

Emit(clients, m) ==
  down' = [c \in Client |-> IF c \in clients THEN Append(down[c], m) ELSE down[c]]

\* The next message of c, taken off its connection and past WsJwtGuard.
Handle(c, kinds) ==
  /\ c \in conn
  /\ up[c] # <<>> /\ Head(up[c]).kind \in kinds
  /\ up' = [up EXCEPT ![c] = Tail(@)]

Step(k, next) == call' = [call EXCEPT ![k].stage = next]

-----------------------------------------------------------------------------
(* Mutated forms: what a plausible slip in the code would make of the      *)
(* definition whose name each one carries.  No action uses them; replacing *)
(* the definition by its form must break the property the form is for.     *)

\* the whole payload kept where its id is meant
ReceiveWhole(c) ==
  /\ down[c] # <<>>
  /\ down' = [down EXCEPT ![c] = Tail(@)]
  /\ LET m == Head(down[c])
     IN incoming' = [incoming EXCEPT ![c] =
          IF m.kind = "incoming" THEN m
          ELSE IF m.kind \in {"cancelled", "missed"} /\ @ = m.call THEN None ELSE @]
  /\ UNCHANGED <<server, outgoing, up>>

\* the first response settles the call: its timer is cleared
CallRespondDisarms(c) ==
  /\ Handle(c, {"respond"})
  /\ LET k == Head(up[c]).call
         answered == call[k].responded \cup {Owner[c]}
     IN IF k \in Pending /\ Owner[c] \in call[k].members
          THEN /\ call' = [call EXCEPT ![k].responded = answered,
                             ![k].stage = IF Cardinality(answered) >= Cardinality(call[k].members)
                                            THEN "over" ELSE @]
               /\ armed' = armed \ {k}
               /\ Emit(Devices({call[k].caller}), Msg("responded", k))
          ELSE UNCHANGED <<call, armed, down>>
  /\ UNCHANGED <<role, conn, leaving, pages>>

\* > instead of >=, as if the caller answered too
CallRespondAll(c) ==
  /\ Handle(c, {"respond"})
  /\ LET k == Head(up[c]).call
         answered == call[k].responded \cup {Owner[c]}
     IN IF k \in Pending /\ Owner[c] \in call[k].members
          THEN /\ call' = [call EXCEPT ![k].responded = answered]
               /\ Emit(Devices({call[k].caller}), Msg("responded", k))
               /\ UNCHANGED armed
          ELSE UNCHANGED <<call, armed, down>>
  /\ UNCHANGED <<role, conn, leaving, pages>>

\* the expiry told to the caller only
ExpireCallerOnly(k) ==
  /\ k \in armed
  /\ armed' = armed \ {k}
  /\ IF k \in Pending
       THEN Step(k, "over") /\ Emit(Devices({call[k].caller}), Msg("missed", k))
       ELSE UNCHANGED <<call, down>>
  /\ UNCHANGED <<role, conn, leaving, pages, up>>

\* the calls of a caller who has gone deleted without a word
SweepSilently(c) ==
  /\ c \in leaving
  /\ leaving' = leaving \ {c}
  /\ LET ended == {k \in Pending : call[k].caller = Owner[c]}
     IN /\ call' = [k \in Call |-> IF k \in ended THEN [call[k] EXCEPT !.stage = "over"]
                                   ELSE call[k]]
        /\ armed' = armed \ ended
  /\ UNCHANGED <<role, conn, pages, wires>>

-----------------------------------------------------------------------------
Init ==
  /\ role \in Roster
  /\ conn = Client
  /\ leaving = {}
  /\ call = [k \in Call |-> Free]
  /\ armed = {}
  /\ incoming = [c \in Client |-> None]
  /\ outgoing = [c \in Client |-> None]
  /\ up = [c \in Client |-> <<>>]
  /\ down = [c \in Client |-> <<>>]

-----------------------------------------------------------------------------
(* The page: CallContext. *)

StartCall(c, k, id) ==
  /\ call[k].stage = "free"
  /\ call' = [call EXCEPT ![k] = [Free EXCEPT !.stage = "sent", !.caller = Owner[c],
                                              !.socket = c]]
  /\ outgoing' = [outgoing EXCEPT ![c] = [id |-> id, status |-> "ringing"]]
  /\ up' = [up EXCEPT ![c] = Append(@, Msg("invite", k))]
  /\ UNCHANGED <<role, conn, leaving, armed, incoming, down>>

\* acceptIncomingCall and declineIncomingCall
Answer(c) ==
  /\ incoming[c] # None
  /\ up' = [up EXCEPT ![c] = Append(@, Msg("respond", incoming[c]))]
  /\ incoming' = [incoming EXCEPT ![c] = None]
  /\ UNCHANGED <<server, outgoing, down>>

CancelOutgoing(c) ==
  /\ outgoing[c] # None
  /\ up' = [up EXCEPT ![c] = Append(@, Msg("cancel", outgoing[c].id))]
  /\ outgoing' = [outgoing EXCEPT ![c] = None]
  /\ UNCHANGED <<server, incoming, down>>

\* The socket.on handlers; "responded" only raises a toast.
Receive(c) ==
  /\ down[c] # <<>>
  /\ down' = [down EXCEPT ![c] = Tail(@)]
  /\ LET m == Head(down[c])
     IN /\ incoming' = [incoming EXCEPT ![c] =
             IF m.kind = "incoming" THEN m.call
             ELSE IF m.kind \in {"cancelled", "missed"} /\ @ = m.call THEN None ELSE @]
        /\ outgoing' = [outgoing EXCEPT ![c] =
             IF @ = None \/ @.id # m.call THEN @
             ELSE IF m.kind = "ringing" THEN [@ EXCEPT !.status = "waiting"]
             ELSE IF m.kind \in {"cancelled", "missed"} THEN None ELSE @]
  /\ UNCHANGED <<server, up>>

-----------------------------------------------------------------------------
(* The connection: handleConnection and handleDisconnect. *)

Connect(c) ==
  /\ c \notin conn
  /\ conn' = conn \cup {c}
  /\ UNCHANGED <<role, leaving, call, armed, pages, wires>>

\* Only the user's last connection starts the ending of his calls, which comes
\* after the two awaits of the presence writes.
Unplug(c) ==
  /\ c \in conn \ Steady
  /\ conn' = conn \ {c}
  /\ leaving' = IF Devices({Owner[c]}) = {c} THEN leaving \cup {c} ELSE leaving
  /\ call' = [k \in Call |-> IF call[k].socket = c THEN [call[k] EXCEPT !.socket = None]
                             ELSE call[k]]
  /\ up' = [up EXCEPT ![c] = <<>>]
  /\ down' = [down EXCEPT ![c] = <<>>]
  /\ UNCHANGED <<role, armed>>

Disconnect(c) == Unplug(c) /\ UNCHANGED pages

\* The page leaves status "authenticated": its provider clears both calls.
SignOut(c) ==
  /\ Unplug(c)
  /\ incoming' = [incoming EXCEPT ![c] = None]
  /\ outgoing' = [outgoing EXCEPT ![c] = None]

\* Ended calls leave pendingCalls without a timer; each of their members hears
\* of it, and the caller of a missed one too.
EndCalls(ended, missed) ==
  /\ call' = [k \in Call |-> IF k \in ended THEN [call[k] EXCEPT !.stage = "over"] ELSE call[k]]
  /\ armed' = armed \ ended
  /\ down' = [c \in Client |->
       IF c \notin conn THEN down[c]
       ELSE down[c] \o SetToSeq(
              {Msg("cancelled", k) : k \in {j \in ended : Owner[c] \in call[j].members}}
              \cup {Msg("missed", k) : k \in {j \in missed : call[j].caller = Owner[c]}})]

Sweep(c) ==
  /\ c \in leaving
  /\ leaving' = leaving \ {c}
  /\ EndCalls({k \in Pending : call[k].caller = Owner[c]}, {})
  /\ UNCHANGED <<role, conn, pages, up>>

-----------------------------------------------------------------------------
(* The call:* handlers. *)

\* The token of the handshake has expired: the guard drops the message.
Reject(c) ==
  /\ Handle(c, {"invite", "cancel", "respond"})
  /\ UNCHANGED <<server, pages, down>>

CallInvite(c) ==
  /\ Handle(c, {"invite"})
  /\ call[Head(up[c]).call].stage = "sent"
  /\ Step(Head(up[c]).call, "member")
  /\ UNCHANGED <<role, conn, leaving, armed, pages, down>>

\* isPartyMember, isPartyLeader, the party with its members, the caller.
InviteMember(k) ==
  /\ call[k].stage = "member"
  /\ Step(k, IF role[call[k].caller] # "none" THEN "leader" ELSE "over")
  /\ UNCHANGED <<role, conn, leaving, armed, pages, wires>>

InviteLeader(k) ==
  /\ call[k].stage = "leader"
  /\ Step(k, IF role[call[k].caller] = "LEADER" THEN "party" ELSE "over")
  /\ UNCHANGED <<role, conn, leaving, armed, pages, wires>>

InviteParty(k) ==
  /\ call[k].stage = "party"
  /\ call' = [call EXCEPT ![k].stage = "user",
                          ![k].members = {u \in User : role[u] # "none"} \ {call[k].caller}]
  /\ UNCHANGED <<role, conn, leaving, armed, pages, wires>>

InviteRing(k) ==
  /\ call[k].stage = "user"
  /\ IF call[k].members = {}
       THEN Step(k, "over") /\ UNCHANGED <<armed, down>>
       ELSE /\ Step(k, "pending")
            /\ armed' = armed \cup {k}
            /\ down' = [c \in Client |->
                 IF c \in Devices(call[k].members) THEN Append(down[c], Msg("incoming", k))
                 ELSE IF c = call[k].socket THEN Append(down[c], Msg("ringing", k))
                 ELSE down[c]]
  /\ UNCHANGED <<role, conn, leaving, pages, up>>

CallRespond(c) ==
  /\ Handle(c, {"respond"})
  /\ LET k == Head(up[c]).call
         answered == call[k].responded \cup {Owner[c]}
     IN IF k \in Pending /\ Owner[c] \in call[k].members
          THEN /\ call' = [call EXCEPT ![k].responded = answered,
                             ![k].stage = IF Cardinality(answered) >= Cardinality(call[k].members)
                                            THEN "over" ELSE @]
               /\ armed' = IF Cardinality(answered) >= Cardinality(call[k].members)
                             THEN armed \ {k} ELSE armed
               /\ Emit(Devices({call[k].caller}), Msg("responded", k))
          ELSE UNCHANGED <<call, armed, down>>
  /\ UNCHANGED <<role, conn, leaving, pages>>

CallCancel(c) ==
  /\ Handle(c, {"cancel"})
  /\ EndCalls({k \in Pending : k = Head(up[c]).call /\ call[k].caller = Owner[c]}, {})
  /\ UNCHANGED <<role, conn, leaving, pages>>

\* The timer of CALL_RING_TIMEOUT_MS.
Expire(k) ==
  /\ k \in armed
  /\ IF k \in Pending THEN EndCalls({k}, {k})
     ELSE armed' = armed \ {k} /\ UNCHANGED <<call, down>>
  /\ UNCHANGED <<role, conn, leaving, pages, up>>

-----------------------------------------------------------------------------
\* Somebody joins, leaves, is promoted (external).
PartyChanges ==
  /\ role' \in Roster \ {role}
  /\ UNCHANGED <<conn, leaving, call, armed, pages, wires>>

InviteSteps(k) == InviteMember(k) \/ InviteLeader(k) \/ InviteParty(k) \/ InviteRing(k)
Serve(c) == CallInvite(c) \/ CallRespond(c) \/ CallCancel(c) \/ Reject(c)

Next ==
  \/ \E c \in Client :
       \/ \E k \in Call, id \in OwnId : StartCall(c, k, id)
       \/ Answer(c) \/ CancelOutgoing(c)
       \/ Receive(c)
       \/ Connect(c) \/ Disconnect(c) \/ SignOut(c) \/ Sweep(c)
       \/ Serve(c)
  \/ \E k \in Call : InviteSteps(k) \/ Expire(k)
  \/ PartyChanges

\* Messages arrive, timers fire and handlers go on; users need not act and
\* lost connections need not come back.
Fairness ==
  /\ \A c \in Client : WF_vars(Receive(c)) /\ WF_vars(Serve(c)) /\ WF_vars(Sweep(c))
  /\ \A k \in Call : WF_vars(InviteSteps(k)) /\ WF_vars(Expire(k))

Spec == Init /\ [][Next]_vars
FairSpec == Spec /\ Fairness

-----------------------------------------------------------------------------
TypeOK ==
  /\ role \in Roster
  /\ conn \in SUBSET Client /\ leaving \in SUBSET Client
  /\ call \in [Call -> CallState]
  /\ armed \in SUBSET Call
  /\ incoming \in [Client -> Call \cup {None}]
  /\ outgoing \in [Client -> Outgoing \cup {None}]
  /\ up \in [Client -> Seq(Message)] /\ down \in [Client -> Seq(Message)]

\* Each entry of pendingCalls has a running timer, each timer an entry, and
\* somebody is still to answer: no call is forgotten in memory for good, and
\* no timer fires at an ended one.
TimersMatch ==
  /\ armed = Pending
  /\ \A k \in Pending : call[k].members \ call[k].responded # {}

\* "Missed" is never told of a call that everybody answered.
MissedMeansUnanswered == \A c \in Client, k \in Call :
  Msg("missed", k) \in Sent(down[c]) => call[k].members \ call[k].responded # {}

\* A page with a steady connection that shows a ring can count on its end: the
\* call is still pending, or the cancellation is under way; unless the user
\* answered on another page, which the server does not tell this one.
RingsAccounted == \A c \in Steady :
  incoming[c] # None =>
    LET k == incoming[c]
    IN \/ k \in Pending
       \/ Msg("cancelled", k) \in Sent(down[c])
       \/ Owner[c] \in call[k].responded

\* Every call:invite that gets to ring ends, whatever its caller and members do.
CallsEnd == \A k \in Call : call[k].stage = "pending" ~> call[k].stage = "over"

\* No page with a steady connection rings forever, answered or not.
RingsStop == \A c \in Steady, k \in Call :
  incoming[c] = k ~> (incoming[c] # k \/ Owner[c] \in call[k].responded)

\* RealtimeGateway: "Auto-expires if nobody responds so a caller's UI doesn't
\* ring forever": the caller's page leaves its outgoing call by itself, or the
\* user cancels it, or somebody has responded to a call of his.
CallerUiStops == \A c \in Steady :
  outgoing[c] # None ~>
    \/ outgoing[c] = None
    \/ \E k \in Call : call[k].caller = Owner[c] /\ call[k].responded # {}
=============================================================================
