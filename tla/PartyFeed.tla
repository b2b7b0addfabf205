------------------------------ MODULE PartyFeed ------------------------------
(***************************************************************************)
(* The party a page shows, activeParty of VoiceSessionContext: set by the  *)
(* answers of GET /party/active, unset by party:ended, and asked for again *)
(* on every party:updated that reaches the page through the party's room.  *)
(*                                                                         *)
(* What the parties do is the business of module Party.  Here they take    *)
(* the page's user in and let him go, change, and end; each tells its room *)
(* so, a change only after the reads that PartyService makes for it.       *)
(***************************************************************************)
EXTENDS Link, Naturals

CONSTANTS
  Party,     \* parties the user may come to be in
  Fetcher,   \* slots of refreshActiveParty; bounds the answers awaited at once
  MaxEvents  \* bounds the events on their way to the page

VARIABLES
  seated,  \* the parties the user is a member of
  ended,   \* the parties there are no more
  news,    \* the parties that have let the user go and not yet told their room
  status,  \* AuthContext.status
  active,  \* activeParty
  fetch,   \* the calls of refreshActiveParty
  missed   \* history: no word that active is the user's no more will reach the page

tables == <<seated, ended, news>>
page == <<status, active, fetch, missed>>
vars == <<link, tables, page>>

-----------------------------------------------------------------------------
NoParty == "none"
Shown == Party \cup {NoParty}
Event == [what : {"updated", "ended"}, party : Party]

Idle == [pc |-> "idle"]
Asked == [pc |-> "asked"]
Fetching == {Idle, Asked} \cup [pc : {"answered"}, got : Shown]

\* getActive: the newest of the user's parties.  Which one that is the model
\* does not know and lets it be any.
Actives == IF seated = {} THEN {NoParty} ELSE seated

In == status = "authenticated"
Stale(p) == p # NoParty /\ p \notin seated

\* setActiveParty, and the effect on activeParty.id: the page of a user who is
\* signed in leaves the room of the last party and asks into that of the next.
Asks(old, new) == (IF old = NoParty THEN <<>> ELSE <<Ask("leave", old)>>)
               \o (IF new = NoParty THEN <<>> ELSE <<Ask("join", new)>>)
Rooms(p) == IF In /\ p # active THEN Asks(active, p) ELSE <<>>
Show(p) ==
  /\ p # active => outbox = <<>>  \* bound: the last switch has been sent
  /\ active' = p

-----------------------------------------------------------------------------
(* Mutated forms: what a plausible slip in the code would make of the      *)
(* definition whose name each one carries.  No action uses them; replacing *)
(* the definition by its form must break the property the form is for.     *)

\* a change not asked about while another answer is awaited
AskAgainUnlessAwaited(f) ==
  fetch' = IF \E g \in Fetcher : fetch[g] # Idle THEN fetch ELSE [fetch EXCEPT ![f] = Asked]

Init ==
  /\ LinkInit
  /\ seated = {} /\ ended = {} /\ news = {}
  /\ status = "authenticated" /\ active = NoParty
  /\ fetch = [f \in Fetcher |-> Idle]
  /\ missed = FALSE

-----------------------------------------------------------------------------
\* create or the acceptance of an invite, by this page or another
TakeIn(p) ==
  /\ p \notin seated \cup ended
  /\ seated' = seated \cup {p}
  /\ UNCHANGED <<link, ended, news, page>>

\* leave or kickMember, up to the removal of the row.  The sockets of the user
\* stay in the room.
LetGo(p) ==
  /\ p \in seated
  /\ seated' = seated \ {p}
  /\ news' = news \cup {p}
  /\ UNCHANGED <<link, ended, page>>

\* handlePartyUpdated, for that or for any other change of the party, a party
\* whose snapshot is old by now included
Updated(p) ==
  /\ Len(inbox) < MaxEvents
  /\ Emit(p, [what |-> "updated", party |-> p])
  /\ news' = news \ {p}
  /\ missed' = (missed \/ (active = p /\ Stale(p) /\ p \notin rooms))
  /\ UNCHANGED <<seated, ended, status, active, fetch>>

\* the leader leaves, or the last member does: handlePartyEnded
End(p) ==
  /\ p \notin ended
  /\ ended' = ended \cup {p} /\ seated' = seated \ {p} /\ news' = news \ {p}
  /\ Emit(p, [what |-> "ended", party |-> p])
  /\ missed' = (missed \/ (active = p /\ p \notin rooms))
  /\ UNCHANGED <<status, active, fetch>>

-----------------------------------------------------------------------------
\* refreshActiveParty: at sign-in, after what the user does to his party
\* himself, and when the party says that it has changed
Refetch(f) == fetch[f] = Idle /\ fetch' = [fetch EXCEPT ![f] = Asked]

Refresh(f) ==
  /\ In
  /\ Refetch(f)
  /\ UNCHANGED <<link, tables, status, active, missed>>

FetchRead(f) ==
  /\ fetch[f].pc = "asked"
  /\ \E p \in Actives : fetch' = [fetch EXCEPT ![f] = [pc |-> "answered", got |-> p]]
  /\ UNCHANGED <<link, tables, status, active, missed>>

\* Answers are installed as they come, also when the user has signed out.
Install(f) ==
  /\ fetch[f].pc = "answered"
  /\ Show(fetch[f].got) /\ Say(Rooms(fetch[f].got))
  /\ missed' = Stale(fetch[f].got)
  /\ fetch' = [fetch EXCEPT ![f] = Idle]
  /\ UNCHANGED <<tables, status>>

\* catch: no answer is taken for no party
FetchFail(f) ==
  /\ fetch[f] # Idle
  /\ Show(NoParty) /\ Say(Rooms(NoParty))
  /\ missed' = FALSE
  /\ fetch' = [fetch EXCEPT ![f] = Idle]
  /\ UNCHANGED <<tables, status>>

\* what follows a change
AskAgain(f) == Refetch(f)

\* onPartyUpdated, which does not look at the party it is told of
ReceiveUpdated(f) ==
  /\ inbox # <<>> /\ Head(inbox).what = "updated"
  /\ fetch[f] = Idle /\ AskAgain(f)
  /\ Take
  /\ UNCHANGED <<tables, status, active, missed>>

\* onPartyEnded
ReceiveEnded ==
  /\ inbox # <<>> /\ Head(inbox).what = "ended"
  /\ LET p == Head(inbox).party
         next == IF active = p THEN NoParty ELSE active
     IN  /\ Show(next)
         /\ outbox' = outbox \o Rooms(next)
         /\ missed' = (missed /\ active # p)
  /\ inbox' = Tail(inbox)
  /\ UNCHANGED <<up, joining, rooms, tables, status, fetch>>

-----------------------------------------------------------------------------
\* Signing out ends the connection; the next sign-in makes another, and what
\* an answer has left in activeParty meanwhile is joined again.
SignOut ==
  /\ In
  /\ status' = "unauthenticated" /\ active' = NoParty /\ missed' = FALSE
  /\ up' = FALSE /\ outbox' = <<>> /\ inbox' = <<>> /\ joining' = {} /\ rooms' = {}
  /\ UNCHANGED <<tables, fetch>>

SignIn(f) ==
  /\ ~In
  /\ status' = "authenticated"
  /\ Refetch(f)
  /\ Say(Asks(NoParty, active))
  /\ UNCHANGED <<tables, active, missed>>

\* A new connection is in no room; nothing asks it in but another party.
Lose ==
  /\ In /\ Drop
  /\ missed' = Stale(active)
  /\ UNCHANGED <<tables, status, active, fetch>>

Wire ==
  /\ In
  /\ \/ Handle
     \/ \E p \in Party : AnswerJoin(p, p \in seated)
     \/ Reconnect
  /\ UNCHANGED <<tables, page>>

Next ==
  \/ \E p \in Party : TakeIn(p) \/ LetGo(p) \/ Updated(p) \/ End(p)
  \/ \E f \in Fetcher : \/ Refresh(f) \/ FetchRead(f) \/ Install(f) \/ FetchFail(f)
                        \/ ReceiveUpdated(f) \/ SignIn(f)
  \/ ReceiveEnded
  \/ SignOut
  \/ Lose
  \/ Wire

Spec == Init /\ [][Next]_vars

-----------------------------------------------------------------------------
\* The user's parties, the page and what is under way between them are
\* well-typed; a party that has ended has no members.
TypeOK ==
  /\ LinkTypeOK(Event)
  /\ seated \in SUBSET Party /\ ended \in SUBSET Party /\ news \in SUBSET Party
  /\ seated \cap ended = {}
  /\ status \in {"authenticated", "unauthenticated"} /\ active \in Shown
  /\ fetch \in [Fetcher -> Fetching] /\ missed \in BOOLEAN

\* What will still tell the page that p is its user's no more: the word of the
\* party, or an answer that does not name p.
Coming(p) ==
  \/ p \in news
  \/ \E i \in DOMAIN inbox : inbox[i].party = p
  \/ \E f \in Fetcher : fetch[f] = Asked \/ (fetch[f].pc = "answered" /\ fetch[f].got # p)

\* A page never shows a party that its user is out of, unless word of it is
\* coming: the exceptions are a party that was outside the page's reach when it
\* said so, and an answer that had been read before and came in last.
NoStaleParty == Stale(active) => missed \/ Coming(active)
=============================================================================
