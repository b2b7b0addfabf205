# SquadLink in TLA+

SquadLink is a chat and voice application for groups of players: a NestJS server
on PostgreSQL (Prisma), Redis, Socket.IO and LiveKit under `src/backend`, and a
React client under `src/frontend`. This directory holds TLA+ models of its state
machines, the TLC instances that check them, and proofs for the TLA+ proof system.

`PROJECT.json` maps every definition to the lines it models and lists the runs,
the hazards and the theorems. Paths below are relative to `src/`.

## How the system behaves

The server keeps next to nothing in memory. An HTTP request is an async function
whose awaits are single SQL statements, or one transaction; requests interleave at
every await, a request may die at any of them (a crash, a lost connection, a
refused statement), and nothing it wrote before is undone. So the difficult
behaviour is in *checks that are out of date when they are used*, in *operations of
several statements of which only some happen*, and in the database constraints
(unique keys, foreign keys, conditional updates) that decide races.

The exceptions are the Socket.IO gateway, which holds `pendingCalls`,
`socketsByUser` and timers in memory, and the page, which merges HTTP answers and
socket events into React state: there the difficulty is the order of messages,
lost connections and several pages of one user.

## Inventory

| Component | State | Operations | Interacts with | What makes it correct |
|---|---|---|---|---|
| Party service (`backend/src/party`) | tables Party, PartyMember, PartyInvite | create, invite, inviteAllFriends, respondToInvite, leave, kick, transfer, settings, voice flags | voice rooms, notifications, feed, account deletion | one leader, the owner; entry by invite only; an invite answered once; capacity; no room of a party that is gone; an heir who leads |
| Account deletion (`users.service.ts`, `users.repository.ts`) | User.deletedAt, ownership of parties and communities, sessions | deleteAccount (one transaction, then the rooms) | party, communities, sessions, voice rooms | every owned party or community handed over or ended, no row left pointing at nothing |
| Voice rooms (`shared/livekit`) | LiveKit's rooms (external) | ensureRoom, closeRoom, token | party, communities | a room exists as long as what it belongs to |
| Friends (`backend/src/friends`) | FriendRequest, Friendship, Block | send, accept, decline, cancel, remove, pin, block, unblock | notifications | friends only by consent; a request used once |
| Call signalling (`realtime.gateway.ts`) | pendingCalls, ring timers, socketsByUser | call:invite, call:respond, call:cancel, expiry, disconnect | party (membership), pages | every call ends, timers match entries, every ring is followed by its end |
| Calls in the page (`CallContext.tsx`) | incomingCall, outgoingCall | start, answer, cancel, five socket handlers | call signalling | the page stops ringing |
| Realtime rooms, presence, fan-out (`realtime.gateway.ts`, `redis.service.ts`) | socket rooms, presence in Redis and PostgreSQL | connect, disconnect, join/leave, typing, domain events | every service | online exactly while connected; what is sent to a room reaches the pages in it |
| Sessions (`backend/src/auth`) | Session | login, refresh (rotation), logout, revoke, reset, change | page | rotation never signs the account out; a token is good for one refresh (it is not) |
| Accounts (`backend/src/auth`, `users`) | User, OAuthAccount, mailed tokens | register, login, OAuth sign-in, verify, reset, change, delete | sessions | a reset or a deletion ends what was there; a mailed token works once |
| Session in the page (`AuthContext.tsx`, `http.ts`, `socket.ts`) | user, access token, one refresh in flight, the socket | bootstrap, refresh, 401 retry, logout, connectSocket | sessions, gateway, contexts | concurrent 401s cost one refresh; the socket is that of the session |
| Messages (`backend/src/messages`) | Conversation, participants, Message, Reaction | getOrCreateDm, send, edit, delete, pin, react, mark read | realtime | one conversation of two users; each change is told to the room |
| Messages in the page (`MessagesPage.tsx`) | list, open conversation, badges, typing | history, pages, sends, socket events, switching | messages, gateway | each message once, in its conversation, none missed |
| Communities (`backend/src/communities`) | Community, members, roles, channels, events | create, join, leave, kick, delete, roles, settings, channels | account deletion, voice | the owner keeps his seat; power is given by those who have it; roles stay at home |
| Community page (`CommunityDetailPage.tsx`) | its data, settings form, text panel, voice panel | switch, fetch, send, save, join voice | communities, gateway, voice | everything shown is of the community and the channel at hand |
| Channel voice (`backend/src/voice`, `VoiceChannelPanel`) | VoiceRoom; a LiveKit room of the panel | joinChannel, connect, leave, switch | communities, LiveKit | one room per channel; no live microphone that no button reaches |
| Voice in the page (`VoiceSessionContext.tsx`) | roomRef, muted, deafened, active party | joinPartyVoice, teardown, mute, refreshActiveParty | party, gateway, LiveKit | the microphone is where and as the page shows it; the party shown is the user's |
| Invites and party screen (`PartyInviteContext.tsx`, `PartyPage.tsx`) | queue of invites; create chain, switch | receive, answer; create, update, toggle | party, gateway | what is offered is open |
| Notifications (`backend/src/notifications`, `NotificationsPage.tsx`, `AppDataContext.tsx`) | Notification; list, badge, profile, communities | create, list by pages, mark, remove | every service | list and badge as stored; nothing of the user before |
| Users and settings (`users`, `settings`, `SettingsPage.tsx`, `OverlayPage.tsx`) | User, UserPreferences; forms | update, upload, delete | uploads, sessions | the form as stored; nothing left of a deleted account |
| Uploads (`backend/src/uploads`, `shared/storage`) | Upload rows, files | avatar, icon, attachment | users, communities | what is pointed at is stored |
| Search, lists (`SearchPage.tsx`, `useApiData.ts`, `FriendsPage.tsx`) | fetches, timers, lists | fetch, retry, search, change | http | what is shown is of the question last asked |
| Infrastructure, widgets | configuration, connections, rendering | | | not modelled, see below |

## Modules

| Module | What it is | Instance | Proofs |
|---|---|---|---|
| `Party` | PartyService with the party half of account deletion | `MCParty`, `Party*.cfg` | `PartyProofs` |
| `Calls` | the call handlers of RealtimeGateway, the connections, CallContext of each page | `MCCalls`, `Calls*.cfg` | `CallsProofs` |
| `Consent`, `Friends` | what befriending promises; FriendsService, which implements it | `Friends.cfg` | `FriendsProofs` |
| `Sessions` | the sessions of an account (AuthService) with the pages that use them (AuthContext, http.ts) | `MCSessions`, `Sessions*.cfg` | `SessionsProofs` |
| `Communities` | CommunitiesService: owner, members, roles, assignments, heirs | `MCParts`, `Parts.cfg` | `LivePartsProofs` |
| `VoiceSession` | joinPartyVoice, teardownRoom, mute and deafen | same, and `VoiceLeak.cfg` by itself | `LivePartsProofs` |
| `ChannelVoice` | VoiceService.joinChannel and the VoiceChannelPanel of each page | same | `LivePartsProofs` |
| `Link` | a page's socket: its rooms, both directions, losses; extended by the pages below | | |
| `Listing` | the lists a page shows, in their order; extended by `Channels`, `Messages`, `Notices` and `InviteQueue` | | `ListingProofs` |
| `Channels`, `Messages`, `PartyFeed` | TextChannelPanel, MessagesPage, activeParty, each with its half of the server | same | `LivePartsProofs` |
| `Dms` | conversations of two | same | `LivePartsProofs` |
| `Reactions`, `SideBar` | the rest of MessagesPage: marks of a message, badges | same | `ScreenPartsProofs` |
| `Typing` | who is typing, from page to page | same | `LivePartsProofs` |
| `Accounts`, `Uploads` | further parts of the server | same | `LivePartsProofs` |
| `Presence` | the writers of a user's status | same | `LivePartsProofs` |
| `PageSocket` | the socket that the screens share | same | `LivePartsProofs` |
| `AppData`, `PageData`, `SearchBox` | what else they share, context and hook; the search | same | `ScreenPartsProofs` |
| `Profile`, `CommunityForm` | screens that keep a copy of what is stored | same | `ScreenPartsProofs` |
| `Notices`, `Preferences`, `FriendList`, `InviteQueue`, `PartyScreen` | more of these | same | `ScreenPartsProofs` |
| `Slots`, `LiveParts`, `ScreenParts`, `MCParts` | the constants and slots of the components from `VoiceSession` down, their instances, and their joint specification and properties | `Parts.cfg` | `PartsProofs` |

The *mutated forms*, marked so in their comments, are used by no action. Each is what a
plausible slip would make of one definition; `PROJECT.json` names the property that
must fail once the definition is replaced by it.

### Party

The tables are functions: `party` (row or `NoParty`), `role` (PartyMember, "none"
where there is no row), `voice`, `inv`, the set `notified` of invites with a stored
notification, `deleted` accounts, and `room`, what the server last asked LiveKit for.
A request holds a slot of `Req` with the step it takes next and exactly the values
the code carries across the await. One action is one statement with the code up to
the next await: `RespondCheck` is the read of `respondToInvite` with its tests,
`RespondTx` the transaction `respondInviteAtomic`. A request that the first read
rejects changes nothing and is left out; one that fails later frees its slot and
leaves what it wrote. A statement on a row that is gone (Prisma's P2025) or against a
unique or foreign key is a failure of that kind, and inside a transaction undoes it.

Abstracted: names, codes, times; the order of joining (an heir is any other member,
`\E heir`, which includes the earliest); invites are by id and ids are not reused;
`inviteAllFriends` has any set of friends; its `Promise.all` is a set of invites whose
checks and inserts interleave.

### Calls

One action is the synchronous part of a handler. `call:invite` has four reads, hence
`CallInvite`, `InviteMember`, `InviteLeader`, `InviteParty`, `InviteRing`; the sweep of
`handleDisconnect` comes two awaits after the disconnect (`leaving`, `Sweep`). A client
is a page with one connection: FIFO both ways, lost with what is under way; Socket.IO's
buffer keeps what a disconnected page emits. Party membership changes at will within
`Roster` (`PartyChanges`, external). `Reject` is `WsJwtGuard` refusing an expired token,
which may happen to any message. Accepting and declining differ in a toast only and
share the message "respond".

### Friends and Consent

`request` holds the status by sender and receiver (the unique key), `friends` the set
of friendships, each the row of an unordered pair (`orderedPair`) with who has pinned it,
`blocked` the pairs of blocker and blocked. Actions are
statements as in `Party`. `Consent` has three variables: the requests `asked` (ever),
the `open` ones, `friends`; its steps are Ask, Consents, Withdraw, Part. The mapping is
`asked` = the rows of FriendRequest, `open` = those PENDING, `friends` itself.

### Sessions

One account: accounts share nothing. `session` is the table by the refresh token a row
was made for, `cookie` the token each browser keeps. The server's half is in statements,
as in `Party`: `FindSession`, `Revoke`, `Create` are the three of `refreshTokens`, with
`Create` (issueAuthResponse) shared by login. Any unrevoked session matches any token of
the user: bcrypt reads 72 bytes, of which a JWT of this server spends 37 on its header
and the rest on the beginning of the user id. Which of them `findMany` returns first is
open. A refresh may be refused at any time, because the JWT itself may have expired.

The page has a `status`, whether it holds a `token`, the stage of each `call` and, as a
request with kind "refresh" under its name, the promise `inFlightRefresh`. A call goes
sent, read (its headers have come, its body has not), wait (401, awaiting the refresh),
again and reread (retried once). Login and logout are calls
too, since they go through the same `request()`: a wrong password is a 401 and so costs a
refresh. `Refreshed` and `NotRefreshed` are the settling of the promise with everything
those who awaited it then do. `Load` is a reload. A page that gives up a request leaves it to the
server (`GiveUp`, `Unheard`). Access tokens are not dated: a 401 may come at any time.
An answer comes in two steps, since `request()` stops its timer between them: `Headers` (or
`CallHeaders`) ends the timeout and sets the cookie, the body, which nothing limits, settles
the call.

### Communities

One community; the others appear as `Elsewhere`, their roles, which a request may name just as
well. `owner`, `member`, `role` and `assigned` are the columns and tables, a membership is its
row with its `joinedAt`, so that one who leaves and comes back has another. A request is as in
`Party`. `assignRole` is where most of it meets: the caller's right, the member and the role are
read one after another, and the insert relies on the foreign keys. Of the names of roles one
matters: `addMember` gives who joins a role that it finds by the name Member, which no key keeps
unique, so that it may be `namesake`, a later role with any permissions (`DefaultRole`).
`Communities` leaves the settings out, whose only difficulty is on the page: `CommunityForm` is
the form that CommunityDetailPage keeps open across a change of community and saves under the id
of the location.

### The live pages: Link, Channels, Messages, PartyFeed

`Link` is one page's socket from both ends: `outbox` and `inbox` in order, the gateway's
`joining` check that the next message does not wait for, `rooms`, `Drop` and `Connect`.
Nobody rejoins a room for the page after a reconnect; the modules say which page does.
`Channels`, `Messages` and `PartyFeed` add what the server stores and tells, and the
page's list with the requests that feed it. A request is read by the server in one
action and answered in another, so that it can be overtaken in either half. `due`
is a history: what the page must have, given when it was in the room. So is `ahead` in
the view of `Messages`: an older page that was asked for on an earlier visit of a
conversation may be answered before the history is. Its messages are then known, the
history replaces the list without them, and an event that brings one of them is taken for a
duplicate. This takes two sends at once, which `Parts.cfg` does not have (`Poster` is one);
the proof of `LiveOnceReady` for any number of them came upon it.

`Reactions`, `SideBar` and `Typing` are the parts of MessagesPage that do not depend on
the list, each with the writes, copies and events that concern it. The badges of `SideBar` are
raised by the user's own messages too, which the server does not count, and nobody tells the page
of an unread message that is deleted. `Dms` is how a
conversation comes about: two statements on the server, and on the page a location and an
`activeId` that is taken from it only when the page is mounted.

### Voice in the page: VoiceSession, ChannelVoice

Each call of `joinPartyVoice` makes a room of its own and has a step for every await
(token, connect, microphone); `Teardown` is `teardownRoom`, which reaches `roomRef`
only. `Disconnected` is LiveKit's event, which comes later than the disconnect and empties
`roomRef` whichever room it then holds. In `ChannelVoice` the panel is mounted with the
page and not keyed by its channel, so switching keeps its room. The microphones that the code
does leave live are histories of both modules (`overtaken`, `stray`): `MicHeld` says that there
are no others, and `SilentOnceOut`, the comment of the code, that there is none once the user
is signed out, which is false.

### Screens that keep a copy

`Notices`, `AppData`, `Preferences`, `Profile`, `FriendList`, `Reactions`, `SideBar`,
`InviteQueue`, `PartyScreen` and `CommunityForm` share one question: once nothing is in
flight (`Quiet`), does the screen show what is stored? The code shows a change before it is
stored, does not undo it, or reckons on top of what it is sent, so the answer has
exceptions, and the exceptions are the content: each is a history variable (`astray`,
`crossed`, `apart`, `late`, ...) set only where the code can go wrong, named in
the comment over the property. What the property says is that there are no others.

`PageData` is `useApiData`, whose abort changes nothing for an answer that succeeds,
`SearchBox` the search with its pause and its retry without an abort, `PageSocket` the
module-level socket of `socket.ts`, `Uploads` the three statements of an upload against
the deletion of its user, `Presence` the overlapping writers of a user's status, `Accounts` the
statements of AuthService that lead to a session, without what `Sessions` does with it.

### Slots, LiveParts, ScreenParts, MCParts

The components just listed share no state and are small, so one run checks them all: a
behaviour of `PartsSpec` is one of one component (`part`), chosen at the start.
`Communities` stands under its own names, which its theorems use; the others are
instances over the slots `s1` to `s13`, which `Slots` declares with the constants of all: those
of the server, the socket and the voice calls in `LiveParts`, those of the screens in
`ScreenParts`. A
property of `MCParts` is the conjunction of
what several components say of one hazard (`RightPlace`, `SettledTrue`, ...), each under
`part = ...`. In the proofs a component goes by the two letters of its instance: `MsInv` is
the invariant of `Ms`, which is `Messages`.

## Runs

| Run | Instance | What it shows |
|---|---|---|
| `party_races` | 3 users, 1 party, 2 invites, 2 requests at once | Under every interleaving and every death of a request: `TypeOK`; a party a deletion hands over goes to one who is still a member, who leads it from then on (`HeirsLead`); rooms and parties agree up to the request about to make them (`RoomsAccounted`); no silent invite (`InvitesAnnounced`); an answer is final (`AnswerIsFinal`); joining and accepting are one step (`JoinsAreAcceptances`) |
| `party_serial` | 3 users, 2 parties, 2 invites, 1 request at a time | What needs the absence of overlap: one leader, the owner (`OwnerLeads`); the capacity (`CapacityBound`, exactly the size with one slot); only the owner decides (`OwnerDecides`); deletion hands each party to another member or ends it (`DeletionHandsOver`) |
| `party_overfull` | as `party_races` | *Violation*: a party over its size |
| `party_heir` | 3 users, 1 party, 1 request | *Violation*: a party handed to a deleted account |
| `calls` | 3 users, one with two pages, 1 call, a party that changes hands, connections coming and going | `TypeOK`; a ring on a steady page has a pending call or its cancellation under way, unless its user answered elsewhere (`RingsAccounted`); timers and entries match (`TimersMatch`); "missed" is not told of a call all answered (`MissedMeansUnanswered`); every call ends (`CallsEnd`); steady pages stop ringing (`RingsStop`) |
| `calls_forever` | 2 users, 1 call | *Violation*: the caller's page rings on after the expiry |
| `friends` | 2 users, 2 requests at once | `TypeOK`; no silent request or friendship (`Announced`); the tables implement `Consent` (`Contract`) |
| `sessions_tabs` | 2 tabs of a browser, each with its login and logout, 2 sessions, 2 requests | `TypeOK`; rotation leaves a session (`NeverStranded`); a page has one refresh in flight (`SingleFlight`) |
| `sessions_live` | 1 tab, 2 calls besides login and logout, 1 request | a refresh that is awaited is in flight (`AwaitedIsInFlight`); the bootstrap ends unless the body of its answer stalls or the user reloads for ever (`LoadingEnds`), and every call unless its body or that of its refresh stalls (`CallsSettle`) |
| `sessions_race` | 2 tabs, no other calls, 3 sessions | *Violation*: two refreshes on one token both win |
| `parts` | each of 24 components alone: 2 channels, conversations, parties or texts, 2 users or pages, 2 or 3 requests at once | `TypesOK`; assignments and memberships (`RolesAtHome`), power (`PowerIsGiven`), the owner's seat (`OwnerKeepsSeat`); no message twice (`ShownOnce`); what is shown is where it belongs (`RightPlace`); nothing missed once ready (`LiveOnceReady`); no party that let the user go (`NoStaleParty`); microphones (`MicHeld`, `MicAsShown`); deleted accounts and used tokens (`SessionsWarranted`); what a page and a deleted row keep of a user (`OwnDataOnly`); no endless loading (`LoadingIsAwaited`); screens true to what is stored once quiet (`SettledTrue`). Where the code lets something in, the property excepts it by name; see below |
| `voice_leak` | 1 join | *Violation*: the microphone goes live after the sign-out |

### What the properties of `parts` except

Several components do go wrong, in ways no test of theirs or document speaks of. A property that
the code breaks in one way holds of it but for that way, so it names the way by a history
variable and says that there is no other. None of these is a guarantee against what it
excepts:

* `RightPlace` is unconditional for the channel panel and for uploads. MessagesPage shows what
  the answer to a send or an older page of another conversation brought (`strayed`);
  `useApiData` what a fetch of the subject before brought (`left`): line 33 says in-flight
  requests are cancelled, but no caller passes its signal on; the search what an old query
  brought (`behind`); the settings form the community before (`carried`); two first joins make
  two voice rooms (`doubled`), two first messages two conversations (`raced`).
* `LiveOnceReady` excepts a message that an older page brought `ahead` of the history, and a
  page whose socket is `deaf`, its token refused, replaced or taken away while it was dialling.
* `MicHeld` excepts the joins a sign-out or the going of the panel overtook (`overtaken`) and
  rooms whose `roomRef` another took (`stray`; in `ChannelVoice` both are calls without `own`),
  `MicAsShown` a mute during the join (`unheard`).
* `SessionsWarranted` excepts sign-ins by an identity altogether, sign-ins that had proved
  themselves before the deletion, and requests that found a token unused together.
* `OwnDataOnly` excepts data that came after the sign-out (`foreign`), a connection that was
  dialling as its token was replaced (`stray`), and writes of requests let in before the
  deletion. It is about what is shown and the row of the user: files, Upload rows and identities
  stay.
* `OwnerKeepsSeat` is about the owner a request has read, not one who has become it since.
* `SettledTrue`: see the comments over `PresenceTrue`, `ListTrue`, `BadgesTrue` and the others.

### Bounds, and why they are enough

* Two requests at once (`Req`): each hazard listed is a race of two; a third slot only
  adds a third overlap. One slot is the "nothing overlaps, none dies half-way"
  instance, since a request that died would hold the only slot for good.
* Three users in `Party`: an owner, a member and one who joins, so that a party can be
  full (`Sizes` = {2}), handed over and ended. `{2, 3}` in the serial run has a party
  with room for all. Two invites: enough for two that race into one place, and for a second
  invite to a member. `party_serial` has two parties, so that an operation on one can
  be seen to leave the other alone and a deletion to hand over one and end the other.
* `Friends`: all state is per pair of users and no operation reads another pair, so two
  users stand for any number; three requests at once were checked as well (about a
  million states) and the proofs cover all numbers.
* `Calls`: one call, since calls share no state on the server; two pages for an answer on the
  other one; three users for a call with two members, the least that some but not all can
  answer. That a second call replaces a page's single `incomingCall` is not in the run:
  `RingsAccounted`, `TimersMatch` and `MissedMeansUnanswered` are proved for any number. Each
  call:invite uses up an element of `Call`, so queues are bounded by the number of calls.
* `Sessions`: two sessions are one rotation, after which `Create` has no name left and
  refreshes stop between their statements for good, as the death of a request would; the
  violation needs a third. Two requests race, or one of a page races one it has given
  up. With a single request (`sessions_live`) a refresh is shared by up to four calls.
* `voice_leak`: one join and a sign-out are all it takes.
* `parts`: two of what a page can switch between (`Spot`) is one switch and back; two requests
  (`Req`) are a race, and where a third can overtake both (`Task`) there are three; one post
  besides the page's own, one event, one deletion (`Max...`) are what a late answer can cross.
  Two rooms, users or conversations, so that one can be taken for the other; three notices, so
  that rows move in front of an offset; three memberships are a member who leaves and comes
  back; one role made besides those of `create`, with the name Member or another, and that one,
  or one of another community, is what requests name (`Named`). A page of notices has one row,
  so that every offset matters. `CommunityForm` follows a page that moved on with something in
  flight, but not on a second such move. `CONSTRAINT Followed` ends a list of notices at the
  first change that crossed it, after which its property claims nothing. About 1.2 million
  states, some two minutes.
* `CHECK_DEADLOCK FALSE` for `Party`, `Calls`, `Friends` and `parts`: ids are used up, users may
  do nothing more, and a page that is done has nothing to send.
* Symmetry over ids in the `party` runs, `sessions_tabs`, `sessions_race` and `parts` only: those
  runs have no liveness property, and no module tells the ids apart.

### Fairness

None in `Party`, `Friends` and the components of `parts`: a request may die anywhere and nobody
repeats it, so no operation is ever certain to finish, and the properties hold without. In
`Calls`, weak fairness of a page's handlers (`Receive`), of the gateway's (`Serve`, `Sweep`, the
steps of `call:invite`) and of the timer (`Expire`): the event loop runs them in a process that
stays up, database reads return, and `setTimeout` fires. None for users or reconnects.
`RingsStop` and `RingsAccounted` are about pages with a steady connection, because a
cancellation lost with a connection is not sent again.

In `Sessions`, weak fairness of what happens to a page's refresh and its calls up to the headers
of the answer: `request()` gives up a fetch that has none after `REQUEST_TIMEOUT_MS`. It clears
the timer with them (`http.ts:131`) and then awaits the body (137), so nothing is assumed of the
body: `LoadingEnds` and `CallsSettle` hold but for one that never comes. None for the server,
which may never answer, and none for users, who may reload again and again.

## Proofs

For any number of users, parties, invites, calls, pages and requests at once (assumed: `User`
and `Req` finite, the sizes positive, in `Calls` that the ids of server and pages differ, in
`Sessions` that each page has a browser, in `Slots` that bounds are numbers and `MaxUnread` is
not 0, that `Nobody` is not one of those it stands beside and that nobody's email is the mark of
a deleted account; all are named assumptions, which TLC evaluates):

* `PartyProofs!Typing`: `TypeOK` is inductive. Each slot's record is a union of shapes;
  a lemma per shape says which fields a given `pc` has.
* `PartyProofs!Inheritance`: `HeirsLead`, with `HeirsAreOthers`: the heirs a deletion has chosen
  are never the user who goes, so that none is demoted in the statement that promotes him; that
  they are members still is what the transaction fails by when they are not.
* `PartyProofs!Finality`, `Joins`: from what any step can do to an invite
  (`InviteSteps`) and to a role (`RoleSteps`), for `Joins` with `AnswersMatch`: an answer on its
  way is to an invite of that party and that user, or the invite is gone with the party.
* `PartyProofs!Freshness`: a party about to be inserted has an id that no row and no
  other request has.
* `PartyProofs!Capacity`: `CapacityBound` is not inductive; `Crowd` is. It counts for each
  party its members *and* the accepts between check and transaction: an accept that
  passed the check adds one to the second number, its transaction moves it to the
  first. The bound is size + slots − 1, so a party exceeds its size by at most one for
  each other request in flight.
* `PartyProofs!Announcements`: `InvitesAnnounced` is inductive: the step that stores an
  invite puts it among those its request has to notify (`OwedFromTheStart`), where
  everything that request does next leaves it until it is notified (`StillOwed`).
* `PartyProofs!Rooms`: `RoomsAccounted` needs `RoomsKnown`: a request that closes rooms
  does so for parties that are `Settled`, that is, which nobody is about to insert, so that
  one deleted stays deleted; the room of a party about to be deleted is closed, that of
  one about to be inserted is open.
* `PartyProofs!Leads`, `Decides`, `HandsOver`: what needs the absence of overlap, under
  the hypothesis `Alone` that there is one slot, for any number of users, parties and
  invites. The invariant is `Known`: what a request read of leader and owner stays true
  until it writes, and the heirs and the doomed of an account about to be deleted are
  exactly those of the parties its user owns. With two slots requests act on
  what another has changed since, which is why they are claimed of one.
* `CallsProofs!Timers`: `TimersMatch` from `Unanswered`: a pending call has a member who has
  not responded; the handlers that end a call disarm its timer in the same step.
* `CallsProofs!Typing`, `Missed`, `Rung`: one lemma (`Delivery`) says what a step of the server
  sends to a page: a ring as its call starts to ring him, a "missed" as its call ends with
  somebody still to answer, and to a connected page that rings for a call that ends a
  cancellation, unless its user has answered. With it `MissedOver` (what a "missed" says of its
  call stays true, as `GoesOn` has it of a call that is over) and `RingsHeld` are
  inductive: a ring a page shows, or that is on its way, is of a call still pending, or
  answered, or its cancellation comes *after* it in the queue. That order is what
  `RingsAccounted` leaves out and cannot do without.
* `FriendsProofs!Typing`: with `Apart`, that nobody is paired with himself,
  which each operation checks once and then relies on.
* `FriendsProofs!Announcements`: `Announced`, by the same argument as for invites and with
  `RowsStay`, below: only the insert makes a row where there was none.
* `FriendsProofs!Implements`: every step of `Friends` is a step of `Consent` or none,
  under the mapping above. It needs `RowsStay`: a decline or cancellation writes a row
  that is still there, as no request row is ever deleted; otherwise the unconditional
  update would be an Ask nobody made.
* `SessionsProofs!Stranded`: by `Kept` nothing but its own `Create` takes a refresh out
  from between its two statements, and a revocation by a refresh puts it there.
* `SessionsProofs!Awaited`, `Single`: both say of each page how many refreshes it has in
  flight (`Flown`). A lemma per way of changing a request says whose flights it changes;
  the rest is that a settled refresh leaves nobody waiting.

* `LivePartsProofs!Home`: `TypeOK`, `RolesAtHome` and that nobody has two memberships. The
  invariant says of each slot what its reads still guarantee when its write comes: a removal
  goes for somebody who was not the owner when it was sent, an assignment for a role of this
  community; everything else the keys of the tables have to decide. `Seat` and `Power` are the
  action properties `OwnerKeepsSeat` and `PowerIsGiven`, by what each statement does to the
  owner's row and to those who manage (`StepOwner`, `StepPower`); who joins may come to manage
  by a role called Member, and only by one.
* `LivePartsProofs!Microphone`: `MicHeld` and `MicAsShown` for any number of calls. A
  room that has been left is held by nobody, and what is said of a live microphone is
  prepared while the call is made; a lemma per group of actions.
* `LivePartsProofs!Voices`: `Together` and `MicHeld` for any number of channels, pages
  and calls. The token of a call is for the room its channel led to, and the channel
  leads elsewhere only where two joined it first at once (`doubled`); a panel that makes a
  call holds none. `TokensKept` carries that over every step that leaves the rooms alone.

`PartsProofs` has the properties of `MCParts`, for every `part`. `Chosen` says that
a step of `PartsSpec` is one of the component chosen or none, `Invariance` that each keeps
its invariant; a theorem per property follows. The two modules under it hold, for each component,
that its invariant is so at the start and kept by every step. What the properties need
beyond themselves:

* `Shown`, `Placed`, `Delivered` for `Channels` (`ChKnown`): what a fetch brings, an event says
  or the panel lists is stored and of the channel it says; the panel awaits one history, none
  once it is ready, and is due nothing before.
* The same for `Messages`: `MsNamed` (whatever names a message names one that is stored, of the
  conversation it says), `MsAwaited` (an awaited history is of the conversation, and the page is
  due nothing before it), and `MsKnown`, the crux: what the page has known since its history
  came, but for what came `ahead`, is in its list or deleted. So an event ignored as known is of
  a message that is listed. While the history is awaited nothing known is still to be sent out.
  Lists are built by `InOrder`, a choice: `Ordering` shows by induction on the numbers, as what
  the set of numbers with the property contains, that there is such a list of every finite set,
  `Ordered` and `Lacking` what it contains.
* `Placed` for the others: `PdFollowed` and `SbCurrent` (a request that may still answer is of
  what is shown, but for those the page went on from), `UpHeld` (a file is no other upload's,
  and stored once its upload is), `CfInOrder`, `CfKept`, `CfFresh` (a form is of the community the
  page is at until it goes on with something in flight), `DmRaced` (of two about to make
  a conversation of one pair, the pair is known to race).
* `Delivered` and `Personal` for `PageSocket`: its type invariant is enough. `Personal` for
  `AppData` needs that a request is of who is signed in or late (`AdOwned`), for `Profile` only
  the shapes of what is in flight.
* `Feed`: `NoStaleParty` is inductive with the types, as it says where the word of a party
  that let the user go may be: with the server, on the way, or lost.
* `Warranted`: `AcKnown` (a request proved itself no later than now, by a password only to an
  account not yet deleted), `AcRows`, and `AcGuarded`: two requests that hold one
  mailed token have raced for it.
* `Loading`: what the page waits for exists and is of the subject, as above.
* `Held`, `AsShown`: from `Microphone` and `Voices`, with the same exceptions.
* `Settled` needs of each component what a request in flight will make of what is shown and
  stored, unless its history variable says that this is no longer known. The server's side:
  a lone writer of a user's status leaves it as his sockets are (`PrDue`); once the
  typist has stopped, the last word on its way is that he did (`TyEnds`). What every screen
  shares: `AdInv` has the badge and the profile as far behind the server as events and requests
  will bring them. Screens that save: a field has at most one save in flight, of what is shown
  (`PpFollowed`, `PpUnmoved`); a friend has at most one change ahead of the server (`FlLed`,
  `FlPlain`); a switch that is alone or none (`PxTurned`); a form as in `Placed`. Screens that
  reckon: a copy of a message is faithful as of its write or a newer one comes
  (`RxFaithful`, `RxSound`, `RxUnseen`); a badge and the events on their way add up to the
  server's count, unless a mark is under way, which takes both to nothing (`SdCounts`); the queue
  has the invites that are open or on their way. Notifications are the hardest: the list is the
  newest of what is stored, as many as its pages hold but for those removed (`NtListed`); an
  answer under way is what must follow it (`NtAnswered`); a change can be taken back
  (`NtChanging`).
* `Types`: the type invariant that each component's invariant has for a conjunct, and for
  `Communities` what `Home` needs, under `Setting`.

Only model-checked: liveness (`CallsEnd`, `RingsStop`, `LoadingEnds`, `CallsSettle`), which the
prover does not do. Every safety property of a passing run is proved; `OwnerLeads`,
`OwnerDecides` and `DeletionHandsOver` for one request at a time, as they are checked.

## Findings

1. `party.service.ts:184` compares the members with `maxSize` before the transaction,
   which does not repeat it: racing accepts overfill a party (`party_overfull`), where
   `docs/database/query-guidelines.md` relies on the unique constraint. `CapacityBound` is
   what the code does guarantee.
2. `users.repository.ts:148` picks the earliest other member as heir, deleted account or
   not (`party_heir`); the documents say *active* member.
3. `CallContext.tsx:100` waits for messages about an id that the server, which draws its
   own, never uses: the caller's page is not told of the expiry (`calls_forever`).
4. `tokens.service.ts:50` compares with bcrypt what differs only after the 72 bytes bcrypt
   reads, and `auth.service.ts:220` revokes unconditionally: a refresh token stays good
   until its own expiry, as long as its user has any session (`sessions_race`), where
   `docs/security/threat-model.md:37` has it invalidated, `AuthContext.tsx:38` has the
   second of two refreshes lose, and `tokens.service.spec.ts:46` tests tokens shorter than
   72 bytes. `NeverStranded` is the other side: the page's fear of losing its session to a
   race is unfounded.
5. `VoiceSessionContext.tsx:228` puts a room into `roomRef` after three awaits without a look at
   what has happened meanwhile; a sign-out during them finds nothing to tear down, and the
   microphone goes live after it (`voice_leak`), where the comment at 337 has the clean-up on
   logout "so we don't leak a live mic".

### Seen while modelling

No document says otherwise of these, or the line that does is a remark; they are the
exceptions of the properties, or what the models leave out.

*Sessions and accounts.* A refresh in flight during a logout signs the page in again; one that
fails after a login takes its token and leaves it "authenticated"; one between its statements
during a password reset survives it. Sign-in through a provider still works for a deleted
account, as `deleteAccount` leaves its identities linked, where
`docs/database/deletion-strategy.md:52` has the login fail. Two requests that overlap can use
one mailed token, which `docs/security/threat-model.md:43` calls single-use. `http.ts` clears
its timer with the headers of an answer, so that a body that stalls holds a call, or the
bootstrap, up for good. The files of a deleted account, and their Upload rows, stay. The guard
of the routes does not look at `deletedAt`, so the access token of a deleted account writes on
until it expires. `socket.ts:56` does not hold once the server has refused a stale token: that
socket never dials again; and replacing a socket that is dialling leaves it dialling, with
nobody to close it. Answers that arrive after a sign-out install the data of the user before.

*Friends and calls.* A declined or cancelled friend request, and one whose friendship has
ended, can never be sent again (the unique key of FriendRequest), while the page explains the
409 by a pending request or a friendship; decline and cancel overwrite an ACCEPTED row; a block
leaves a pending request open to be accepted. Pages other than the one that answered ring on
once everybody has answered. FriendsPage's catch puts back a list from before other changes.

*Voice.* A mute during a join is lost on it; a late Disconnected of an old room takes `roomRef`
from the new one; `party:ended` tears the voice down whichever party it is of. A channel panel
is not keyed by its channel, and a join in flight as it unmounts leaks. Saving the settings of a
community shows its skeleton, which unmounts the panel and leaves the channel.

*Communities.* `addMember` gives who joins a role called Member, of which there can be several
(communities.repository.ts:152): one made later with that name and a managing permission may
make a manager of everybody who joins.

*Messages.* `getOrCreateDm` can make two conversations of a pair (a double click is enough), for
good; a late answer to it changes the location of MessagesPage, not the conversation. The
answers to a send or an older page are not compared with the open conversation, and the page
reverses an older page that the repository has reversed already (messages.repository.ts:121). An
older page that comes before the history makes its messages known without leaving them in the
list, so that the event of one that is being sent is ignored (`ahead`). No page joins its rooms
again after a reconnect (CommunityDetailPage 362). "Across all conversations" (MessagesPage 110)
is not so: the page hears of the room it is in. A badge counts the user's own messages from
another page, and a deleted unread one stays counted. A reaction is counted by its event and
again by its answer, and the event is usually first. The page assumes one pinned message, the
server does not, and tells nobody of pins. A typing line stays when the typist changes
conversation. Nothing listens to `presence:update` and `message:notify`; the presence key in
Redis is neither read nor renewed.

*Screens.* `useApiData` says that in-flight requests are cancelled (line 33); its abort stops an
error only, as no caller passes the signal on. Search results come back into an emptied box.
Pages of notifications by offset repeat rows once a live one came; Mark all read marks rows that
came meanwhile; removing an unread one leaves the badge. Controls of OverlayPage work before it
has loaded; its slider saves every step; the sliders of SettingsPage never save what the
keyboard sets; nothing puts back a setting that was refused. The settings of a community are
saved whole, over a change by another manager, and into another community if the page moved on
with the form open. An invite whose accept failed stays at the head of the queue, the queue does
not hear of answers given on NotificationsPage, which finds invites by inviter only. PartyPage's
`openInvites` is the state of its first mount, and a chain of creation that fails on the way
leaves a party that the page says it could not create. A file that is replaced, or whose upload
failed, is never deleted.

## Plan

Done so far: the four core components and a model of every other component that has
behaviour, with proofs of every safety property the passing runs check. What is left, in the
order of what matters:

1. An abstract party (members, invites, owner, each operation in one step) that `Party` with
   one slot implements.
2. `PartyFeed` with `Party` in place of its own parties, so that what the page hears is what
   the service sends.
3. Announcements and events of a community, group conversations, devices and volumes.

## Not modelled

Configuration, mail, error mapping and rendering have no state of their own. Announcements,
events and RSVPs of a community, `setMemberStatus`, which nothing calls, and group
conversations, which no screen makes, are single statements. Limits on the types and sizes of
uploads, queries, texts, colours, volumes, devices and speaking indicators are data no
property tells apart. The page that receives an OAuth token (`applyOAuthToken`) is left out;
the sign-in behind it is in `Accounts`.

Several server processes are not modelled: `pendingCalls` and `socketsByUser` are in the memory
of one, and the code has no adapter to share them. A restart of the server loses `pendingCalls`
without remedy, so the models of calls have none; `Presence` has one, since what a restart
leaves there is stored. A member who is kicked while his socket is in the room goes on hearing
it: `PartyFeed` has that, `Channels` and `Calls` do not claim otherwise.
