------------------------------- MODULE Party -------------------------------
(***************************************************************************)
(* Parties: the invite / answer / leave / kick / transfer operations of    *)
(* PartyService and the account deletion that hands parties over.          *)
(*                                                                         *)
(* The service keeps no state of its own: every operation is an async      *)
(* function whose awaits are single statements (or one transaction) on     *)
(* PostgreSQL, so what it read in one step may be out of date in the next. *)
(* A request occupies a slot of Req; its record holds the step it will     *)
(* take next (pc) and exactly the values it carries across the await.  A   *)
(* request whose first read rejects it changes nothing and is left out; a  *)
(* later failure only frees the slot.  A request may take its next step at *)
(* any time or never: one that never does is one whose process or database *)
(* connection died there, with all it had written before left as it is.    *)
(***************************************************************************)
EXTENDS Integers, FiniteSets

CONSTANTS
  User,     \* accounts
  Party,    \* party ids (with their voice room); bounds the parties ever created
  Invite,   \* invite ids; bounds the invites ever created
  Req,      \* request slots; bounds the requests in flight at once
  Sizes,    \* the values CreatePartyDto admits for maxSize
  Setting,  \* values of a party's settings
  Flag,     \* values of a member's voice flags
  Default   \* the value both start with

ASSUME SizesAssumption == Sizes \subseteq Nat \ {0}
ASSUME DefaultAssumption == Default \in Setting /\ Default \in Flag
ASSUME UserAssumption == IsFiniteSet(User)
ASSUME ReqAssumption == IsFiniteSet(Req)

VARIABLES
  party,     \* table Party
  role,      \* PartyMember.role by party and user, "none" where no row is
  voice,     \* PartyMember.muted / deafened
  inv,       \* table PartyInvite
  notified,  \* the invites table Notification has a row for
  deleted,   \* accounts with User.deletedAt set
  room,      \* what the server last asked LiveKit to do with a party's room
  req        \* the requests in flight

vars == <<party, role, voice, inv, notified, deleted, room, req>>

-----------------------------------------------------------------------------
Role == {"none", "MEMBER", "LEADER"}
Answer == {"pending", "accepted", "declined"}

NoParty == [status |-> "none"]
NoInvite == [status |-> "none"]
GoneInvite == [status |-> "gone"]   \* deleted with its party; the id is not reused

PartyRow == {NoParty}
  \cup [status : {"live"}, owner : User, size : Sizes, settings : Setting]
InviteRow == {NoInvite, GoneInvite} \cup [status : Answer, party : Party, to : User]

Idle == [pc |-> "idle"]

\* What a request carries from one statement to the next.
Creating == [pc : {"create.room"}, user : User, size : Sizes]
  \cup [pc : {"create.row"}, user : User, size : Sizes, party : Party]
Batching == [pc : {"invite.all"}, user : User, party : Party,
             known : SUBSET User, space : Int]
Inviting == [pc : {"invite.send"}, user : User, party : Party,
             todo : SUBSET User, cleared : SUBSET User, sent : SUBSET Invite]
Responding == [pc : {"respond.tx"}, user : User, party : Party,
               invite : Invite, accept : BOOLEAN]
Leaving == [pc : {"leave.remove", "leave.count", "leave.close", "leave.delete"},
            user : User, party : Party]
Leading == [pc : {"kick.remove", "transfer.target", "transfer.demote",
                  "transfer.promote", "transfer.owner"},
            user : User, party : Party, target : User]
Setup == [pc : {"settings.update"}, user : User, party : Party, value : Setting]
  \cup [pc : {"voice.update"}, user : User, party : Party, value : Flag]
Closing == [pc : {"account.plan"}, user : User]
  \cup [pc : {"account.commit"}, user : User,
        heirs : SUBSET (Party \X User), doomed : SUBSET Party]
  \cup [pc : {"account.close"}, user : User, doomed : SUBSET Party]

Request == {Idle} \cup Creating \cup Batching \cup Inviting \cup Responding
           \cup Leaving \cup Leading \cup Setup \cup Closing

Live == {p \in Party : party[p].status = "live"}
Members(p) == {u \in User : role[p][u] # "none"}
Leaders(p) == {u \in User : role[p][u] = "LEADER"}
Full(p) == Cardinality(Members(p)) >= party[p].size
PendingFor(p) ==
  {u \in User : \E i \in Invite : inv[i].status = "pending" /\ inv[i].party = p /\ inv[i].to = u}

Go(r, next) == req' = [req EXCEPT ![r] = next]
Done(r) == Go(r, Idle)

WriteRole(p, u, as) == role' = [role EXCEPT ![p][u] = as]

RemoveRow(p, u) ==
  /\ WriteRole(p, u, "none")
  /\ voice' = [voice EXCEPT ![p][u] = Default]

\* onDelete: Cascade takes the member and invite rows along.
DropInvites(gone) ==
  inv' = [i \in Invite |-> IF inv[i].status \in Answer /\ inv[i].party \in gone
                             THEN GoneInvite ELSE inv[i]]

DeleteRows(gone) ==
  /\ party' = [p \in Party |-> IF p \in gone THEN NoParty ELSE party[p]]
  /\ role' = [p \in Party |-> IF p \in gone THEN [u \in User |-> "none"] ELSE role[p]]
  /\ voice' = [p \in Party |-> IF p \in gone THEN [u \in User |-> Default] ELSE voice[p]]
  /\ DropInvites(gone)

-----------------------------------------------------------------------------
(* Mutated forms: what a plausible slip in the code would make of the      *)
(* definition whose name each one carries.  No action uses them; replacing *)
(* the definition by its form must break the property the form is for.     *)

\* maxSize defaulting to 0
CreateRowUnsized(r) ==
  /\ req[r].pc = "create.row"
  /\ party' = [party EXCEPT ![req[r].party] = [status |-> "live", owner |-> req[r].user,
                                              size |-> 0, settings |-> Default]]
  /\ WriteRole(req[r].party, req[r].user, "LEADER")
  /\ Done(r)
  /\ UNCHANGED <<voice, inv, notified, deleted, room>>

\* the invite inserted, its notification forgotten
InviteInsertSilently(r, v, i) ==
  /\ req[r].pc = "invite.send" /\ v \in req[r].cleared /\ inv[i] = NoInvite
  /\ req[r].party \in Live
  /\ inv' = [inv EXCEPT ![i] = [status |-> "pending", party |-> req[r].party, to |-> v]]
  /\ Go(r, [req[r] EXCEPT !.cleared = @ \ {v}])
  /\ UNCHANGED <<party, role, voice, notified, deleted, room>>

\* no look at maxSize when accepting
RespondCheckUnsized(r, u, i, accept) ==
  /\ req[r] = Idle /\ inv[i].status = "pending" /\ inv[i].to = u
  /\ Go(r, [pc |-> "respond.tx", user |-> u, party |-> inv[i].party,
            invite |-> i, accept |-> accept])
  /\ UNCHANGED <<party, role, voice, inv, notified, deleted, room>>

\* the update without "where respondedAt is null"
RespondTxUnconditional(r) ==
  /\ req[r].pc = "respond.tx"
  /\ inv[req[r].invite].status \in Answer
  /\ inv' = [inv EXCEPT ![req[r].invite].status =
                 IF req[r].accept THEN "accepted" ELSE "declined"]
  /\ IF req[r].accept THEN WriteRole(req[r].party, req[r].user, "MEMBER") ELSE UNCHANGED role
  /\ Done(r)
  /\ UNCHANGED <<party, voice, notified, deleted, room>>

\* the answer kept although the member row was refused
RespondTxSplit(r) ==
  /\ req[r].pc = "respond.tx"
  /\ inv[req[r].invite].status = "pending"
  /\ inv' = [inv EXCEPT ![req[r].invite].status =
                 IF req[r].accept THEN "accepted" ELSE "declined"]
  /\ IF req[r].accept /\ req[r].user \notin Members(req[r].party)
       THEN WriteRole(req[r].party, req[r].user, "MEMBER") ELSE UNCHANGED role
  /\ Done(r)
  /\ UNCHANGED <<party, voice, notified, deleted, room>>

\* membership instead of leadership
LeaderCheckLoose(r, u, p, next) ==
  /\ req[r] = Idle
  /\ u \in Members(p)
  /\ Go(r, next)
  /\ UNCHANGED <<party, role, voice, inv, notified, deleted, room>>

\* the heir looked for among all members
AccountPlanSelf(r, heir) ==
  LET u == req[r].user
  IN /\ req[r].pc = "account.plan"
     /\ \A p \in {q \in Live : party[q].owner = u} : heir[p] \in Members(p)
     /\ Go(r, [pc |-> "account.commit", user |-> u, doomed |-> {},
               heirs |-> {<<p, heir[p]>> : p \in {q \in Live : party[q].owner = u}}])
     /\ UNCHANGED <<party, role, voice, inv, notified, deleted, room>>

\* the new leader set, the old one not reset
HandedRoleTwice(u, heirs) ==
  [p \in Party |-> [v \in User |-> IF <<p, v>> \in heirs THEN "LEADER" ELSE role[p][v]]]

\* updateMany instead of update: no row, no error
AccountCommitMany(r) ==
  LET u == req[r].user
      heirs == {h \in req[r].heirs : h[1] \in Live}
  IN /\ req[r].pc = "account.commit"
     /\ party' = [p \in Party |->
          IF p \in req[r].doomed THEN NoParty
          ELSE IF \E w \in User : <<p, w>> \in heirs
            THEN [party[p] EXCEPT !.owner = CHOOSE w \in User : <<p, w>> \in heirs]
            ELSE party[p]]
     /\ role' = [p \in Party |-> [v \in User |->
          IF p \in req[r].doomed \/ role[p][v] = "none" THEN "none"
          ELSE IF <<p, v>> \in heirs THEN "LEADER" ELSE role[p][v]]]
     /\ voice' = [p \in Party |-> IF p \in req[r].doomed THEN [v \in User |-> Default]
                                  ELSE voice[p]]
     /\ DropInvites(req[r].doomed)
     /\ deleted' = deleted \cup {u}
     /\ Go(r, [pc |-> "account.close", user |-> u, doomed |-> req[r].doomed])
     /\ UNCHANGED <<notified, room>>

\* the returned room names dropped
AccountCloseNothing(r) ==
  /\ req[r].pc = "account.close"
  /\ Done(r)
  /\ UNCHANGED <<party, role, voice, inv, notified, deleted, room>>

-----------------------------------------------------------------------------
Init ==
  /\ party = [p \in Party |-> NoParty]
  /\ role = [p \in Party |-> [u \in User |-> "none"]]
  /\ voice = [p \in Party |-> [u \in User |-> Default]]
  /\ inv = [i \in Invite |-> NoInvite]
  /\ notified = {}
  /\ deleted = {}
  /\ room = [p \in Party |-> "unused"]
  /\ req = [r \in Req |-> Idle]

-----------------------------------------------------------------------------
(* create: findActiveForUser, then the voice room, then the party row. *)

CreateCheck(r, u, n) ==
  /\ req[r] = Idle
  /\ \A p \in Party : u \notin Members(p)
  /\ Go(r, [pc |-> "create.room", user |-> u, size |-> n])
  /\ UNCHANGED <<party, role, voice, inv, notified, deleted, room>>

CreateRoom(r, p) ==
  /\ req[r].pc = "create.room"
  /\ room[p] = "unused"
  /\ room' = [room EXCEPT ![p] = "open"]
  /\ Go(r, [pc |-> "create.row", user |-> req[r].user, size |-> req[r].size, party |-> p])
  /\ UNCHANGED <<party, role, voice, inv, notified, deleted>>

CreateRow(r) ==
  /\ req[r].pc = "create.row"
  /\ LET p == req[r].party
         u == req[r].user
     IN /\ party' = [party EXCEPT ![p] = [status |-> "live", owner |-> u,
                                          size |-> req[r].size, settings |-> Default]]
        /\ WriteRole(p, u, "LEADER")
  /\ Done(r)
  /\ UNCHANGED <<voice, inv, notified, deleted, room>>

-----------------------------------------------------------------------------
(* invite and inviteAllFriends.  The invitees of one batch are checked and *)
(* inserted independently of each other (Promise.allSettled), each with a  *)
(* read, the insert and the notification; invite alone is a batch of one.  *)

MayInvite(u, p, v) == p \in Live /\ u \in Members(p) /\ ~Full(p) /\ v \notin Members(p)

InviteOne(r, u, p, v) ==
  /\ req[r] = Idle
  /\ MayInvite(u, p, v)
  /\ Go(r, [pc |-> "invite.send", user |-> u, party |-> p,
            todo |-> {}, cleared |-> {v}, sent |-> {}])
  /\ UNCHANGED <<party, role, voice, inv, notified, deleted, room>>

InviteAll(r, u, p) ==
  /\ req[r] = Idle
  /\ p \in Live /\ u \in Members(p)
  /\ Go(r, [pc |-> "invite.all", user |-> u, party |-> p, known |-> Members(p),
            space |-> party[p].size - Cardinality(Members(p))])
  /\ UNCHANGED <<party, role, voice, inv, notified, deleted, room>>

\* The caller's friends are another component's table: any set of other users.
InviteTargets(r, friends) ==
  /\ req[r].pc = "invite.all"
  /\ friends \subseteq User \ (req[r].known \cup PendingFor(req[r].party))
  /\ friends # {} /\ Cardinality(friends) <= req[r].space
  /\ Go(r, [pc |-> "invite.send", user |-> req[r].user, party |-> req[r].party,
            todo |-> friends, cleared |-> {}, sent |-> {}])
  /\ UNCHANGED <<party, role, voice, inv, notified, deleted, room>>

InviteNobody(r) ==
  /\ req[r].pc = "invite.all"
  /\ Done(r)
  /\ UNCHANGED <<party, role, voice, inv, notified, deleted, room>>

InviteCheck(r, v) ==
  /\ req[r].pc = "invite.send"
  /\ v \in req[r].todo
  /\ Go(r, [req[r] EXCEPT !.todo = @ \ {v},
                          !.cleared = IF MayInvite(req[r].user, req[r].party, v)
                                        THEN @ \cup {v} ELSE @])
  /\ UNCHANGED <<party, role, voice, inv, notified, deleted, room>>

\* The foreign key rejects an invite to a party that is gone.
InviteInsert(r, v, i) ==
  /\ req[r].pc = "invite.send"
  /\ v \in req[r].cleared
  /\ inv[i] = NoInvite
  /\ IF req[r].party \in Live
       THEN /\ inv' = [inv EXCEPT ![i] = [status |-> "pending",
                                          party |-> req[r].party, to |-> v]]
            /\ Go(r, [req[r] EXCEPT !.cleared = @ \ {v}, !.sent = @ \cup {i}])
       ELSE /\ Go(r, [req[r] EXCEPT !.cleared = @ \ {v}])
            /\ UNCHANGED inv
  /\ UNCHANGED <<party, role, voice, notified, deleted, room>>

InviteNotify(r, i) ==
  /\ req[r].pc = "invite.send"
  /\ i \in req[r].sent
  /\ notified' = notified \cup {i}
  /\ Go(r, [req[r] EXCEPT !.sent = @ \ {i}])
  /\ UNCHANGED <<party, role, voice, inv, deleted, room>>

InviteDone(r) ==
  /\ req[r].pc = "invite.send"
  /\ req[r].todo = {} /\ req[r].cleared = {} /\ req[r].sent = {}
  /\ Done(r)
  /\ UNCHANGED <<party, role, voice, inv, notified, deleted, room>>

-----------------------------------------------------------------------------
(* respondToInvite: the checks on a read, then respondInviteAtomic. *)

RespondCheck(r, u, i, accept) ==
  /\ req[r] = Idle
  /\ inv[i].status = "pending"
  /\ inv[i].to = u
  /\ accept => ~Full(inv[i].party)
  /\ Go(r, [pc |-> "respond.tx", user |-> u, party |-> inv[i].party,
            invite |-> i, accept |-> accept])
  /\ UNCHANGED <<party, role, voice, inv, notified, deleted, room>>

\* One transaction: the row still unanswered and, on accept, the new member
\* row not violating @@unique([partyId, userId]); otherwise nothing happens.
RespondTx(r) ==
  /\ req[r].pc = "respond.tx"
  /\ LET i == req[r].invite
         p == req[r].party
         u == req[r].user
     IN IF inv[i].status = "pending" /\ ~(req[r].accept /\ u \in Members(p))
          THEN IF req[r].accept
                 THEN inv' = [inv EXCEPT ![i].status = "accepted"] /\ WriteRole(p, u, "MEMBER")
                 ELSE inv' = [inv EXCEPT ![i].status = "declined"] /\ UNCHANGED role
          ELSE UNCHANGED <<inv, role>>
  /\ Done(r)
  /\ UNCHANGED <<party, voice, notified, deleted, room>>

-----------------------------------------------------------------------------
(* leave: a LEADER (as read) ends the party, anybody else removes his row  *)
(* and ends it only when the count then reads 0.                           *)

LeaveCheck(r, u, p) ==
  /\ req[r] = Idle
  /\ p \in Live /\ u \in Members(p)
  /\ Go(r, [pc |-> IF u \in Leaders(p) THEN "leave.close" ELSE "leave.remove",
            user |-> u, party |-> p])
  /\ UNCHANGED <<party, role, voice, inv, notified, deleted, room>>

LeaveRemove(r) ==
  /\ req[r].pc = "leave.remove"
  /\ IF req[r].user \in Members(req[r].party)
       THEN /\ RemoveRow(req[r].party, req[r].user)
            /\ Go(r, [req[r] EXCEPT !.pc = "leave.count"])
       ELSE /\ Done(r)
            /\ UNCHANGED <<role, voice>>
  /\ UNCHANGED <<party, inv, notified, deleted, room>>

LeaveCount(r) ==
  /\ req[r].pc = "leave.count"
  /\ IF Members(req[r].party) = {}
       THEN Go(r, [req[r] EXCEPT !.pc = "leave.close"])
       ELSE Done(r)
  /\ UNCHANGED <<party, role, voice, inv, notified, deleted, room>>

LeaveClose(r) ==
  /\ req[r].pc = "leave.close"
  /\ room' = [room EXCEPT ![req[r].party] = "closed"]
  /\ Go(r, [req[r] EXCEPT !.pc = "leave.delete"])
  /\ UNCHANGED <<party, role, voice, inv, notified, deleted>>

LeaveDelete(r) ==
  /\ req[r].pc = "leave.delete"
  /\ DeleteRows({req[r].party})
  /\ Done(r)
  /\ UNCHANGED <<notified, deleted, room>>

-----------------------------------------------------------------------------
(* kickMember, transferOwnership, updateSettings: assertLeader first, then *)
(* the statements one by one.  A statement on a missing row throws.        *)

LeaderCheck(r, u, p, next) ==
  /\ req[r] = Idle
  /\ u \in Leaders(p)
  /\ Go(r, next)
  /\ UNCHANGED <<party, role, voice, inv, notified, deleted, room>>

KickCheck(r, u, p, v) ==
  /\ u # v
  /\ LeaderCheck(r, u, p, [pc |-> "kick.remove", user |-> u, party |-> p, target |-> v])

KickRemove(r) ==
  /\ req[r].pc = "kick.remove"
  /\ IF req[r].target \in Members(req[r].party)
       THEN RemoveRow(req[r].party, req[r].target)
       ELSE UNCHANGED <<role, voice>>
  /\ Done(r)
  /\ UNCHANGED <<party, inv, notified, deleted, room>>

TransferCheck(r, u, p, v) ==
  LeaderCheck(r, u, p, [pc |-> "transfer.target", user |-> u, party |-> p, target |-> v])

TransferTarget(r) ==
  /\ req[r].pc = "transfer.target"
  /\ IF req[r].target \in Members(req[r].party)
       THEN Go(r, [req[r] EXCEPT !.pc = "transfer.demote"])
       ELSE Done(r)
  /\ UNCHANGED <<party, role, voice, inv, notified, deleted, room>>

SetMemberRole(r, u, as, next) ==
  /\ IF u \in Members(req[r].party)
       THEN WriteRole(req[r].party, u, as) /\ Go(r, [req[r] EXCEPT !.pc = next])
       ELSE /\ Done(r)
            /\ UNCHANGED role
  /\ UNCHANGED <<party, voice, inv, notified, deleted, room>>

TransferDemote(r) ==
  /\ req[r].pc = "transfer.demote"
  /\ SetMemberRole(r, req[r].user, "MEMBER", "transfer.promote")

TransferPromote(r) ==
  /\ req[r].pc = "transfer.promote"
  /\ SetMemberRole(r, req[r].target, "LEADER", "transfer.owner")

TransferOwner(r) ==
  /\ req[r].pc = "transfer.owner"
  /\ IF req[r].party \in Live
       THEN party' = [party EXCEPT ![req[r].party].owner = req[r].target]
       ELSE UNCHANGED party
  /\ Done(r)
  /\ UNCHANGED <<role, voice, inv, notified, deleted, room>>

SettingsCheck(r, u, p, x) ==
  LeaderCheck(r, u, p, [pc |-> "settings.update", user |-> u, party |-> p, value |-> x])

SettingsUpdate(r) ==
  /\ req[r].pc = "settings.update"
  /\ IF req[r].party \in Live
       THEN party' = [party EXCEPT ![req[r].party].settings = req[r].value]
       ELSE UNCHANGED party
  /\ Done(r)
  /\ UNCHANGED <<role, voice, inv, notified, deleted, room>>

\* setMemberVoiceState: the caller's own row, after getByIdForMember.
VoiceCheck(r, u, p, x) ==
  /\ req[r] = Idle
  /\ p \in Live /\ u \in Members(p)
  /\ Go(r, [pc |-> "voice.update", user |-> u, party |-> p, value |-> x])
  /\ UNCHANGED <<party, role, voice, inv, notified, deleted, room>>

VoiceUpdate(r) ==
  /\ req[r].pc = "voice.update"
  /\ IF req[r].user \in Members(req[r].party)
       THEN voice' = [voice EXCEPT ![req[r].party][req[r].user] = req[r].value]
       ELSE UNCHANGED voice
  /\ Done(r)
  /\ UNCHANGED <<party, role, inv, notified, deleted, room>>

-----------------------------------------------------------------------------
(* Account deletion: one transaction, read committed.  Its reads choose an *)
(* heir for every owned party (account.plan); its updates, visible only at *)
(* commit, need the rows they name to be there still, else all roll back.  *)
(* The earliest other member inherits; join order is abstracted to any.    *)

OwnedBy(u) == {p \in Live : party[p].owner = u}

AccountCheck(r, u) ==
  /\ req[r] = Idle
  /\ u \notin deleted
  /\ Go(r, [pc |-> "account.plan", user |-> u])
  /\ UNCHANGED <<party, role, voice, inv, notified, deleted, room>>

AccountPlan(r, heir) ==
  LET u == req[r].user
      kept == {p \in OwnedBy(u) : Members(p) \ {u} # {}}
  IN /\ req[r].pc = "account.plan"
     /\ \A p \in kept : heir[p] \in Members(p) \ {u}
     /\ Go(r, [pc |-> "account.commit", user |-> u,
               heirs |-> {<<p, heir[p]>> : p \in kept}, doomed |-> OwnedBy(u) \ kept])
     /\ UNCHANGED <<party, role, voice, inv, notified, deleted, room>>

\* Owner and roles after the hand-over of the parties in heirs.
HandedRow(p, heirs) ==
  IF \E w \in User : <<p, w>> \in heirs
    THEN [party[p] EXCEPT !.owner = CHOOSE w \in User : <<p, w>> \in heirs]
    ELSE party[p]

HandedRole(u, heirs) ==
  [p \in Party |-> [v \in User |->
     IF <<p, v>> \in heirs THEN "LEADER"
     ELSE IF v = u /\ \E w \in User : <<p, w>> \in heirs THEN "MEMBER"
     ELSE role[p][v]]]

\* Everything the transaction touches is as its reads left it.
CanCommit(u, heirs, doomed) ==
  /\ doomed \subseteq Live
  /\ \A h \in heirs : u \in Members(h[1]) /\ h[2] \in Members(h[1])

AccountCommit(r) ==
  /\ req[r].pc = "account.commit"
  /\ LET u == req[r].user
         heirs == req[r].heirs
         doomed == req[r].doomed
     IN IF CanCommit(u, heirs, doomed)
          THEN /\ party' = [p \in Party |-> IF p \in doomed THEN NoParty
                                            ELSE HandedRow(p, heirs)]
               /\ role' = [p \in Party |-> IF p \in doomed THEN [v \in User |-> "none"]
                                           ELSE HandedRole(u, heirs)[p]]
               /\ voice' = [p \in Party |-> IF p \in doomed THEN [v \in User |-> Default]
                                            ELSE voice[p]]
               /\ DropInvites(doomed)
               /\ deleted' = deleted \cup {u}
               /\ Go(r, [pc |-> "account.close", user |-> u, doomed |-> doomed])
          ELSE /\ Done(r)
               /\ UNCHANGED <<party, role, voice, inv, deleted>>
  /\ UNCHANGED <<notified, room>>

\* The rooms of the deleted parties, once the transaction has committed.
AccountClose(r) ==
  /\ req[r].pc = "account.close"
  /\ room' = [p \in Party |-> IF p \in req[r].doomed THEN "closed" ELSE room[p]]
  /\ Done(r)
  /\ UNCHANGED <<party, role, voice, inv, notified, deleted>>

-----------------------------------------------------------------------------
Arrive(r, u) ==
  \/ \E n \in Sizes : CreateCheck(r, u, n)
  \/ \E p \in Party, v \in User : InviteOne(r, u, p, v)
  \/ \E p \in Party : InviteAll(r, u, p)
  \/ \E i \in Invite, accept \in BOOLEAN : RespondCheck(r, u, i, accept)
  \/ \E p \in Party : LeaveCheck(r, u, p)
  \/ \E p \in Party, v \in User : KickCheck(r, u, p, v)
  \/ \E p \in Party, v \in User : TransferCheck(r, u, p, v)
  \/ \E p \in Party, x \in Setting : SettingsCheck(r, u, p, x)
  \/ \E p \in Party, x \in Flag : VoiceCheck(r, u, p, x)
  \/ AccountCheck(r, u)

Proceed(r) ==
  \/ \E p \in Party : CreateRoom(r, p)
  \/ CreateRow(r)
  \/ \E friends \in SUBSET User : InviteTargets(r, friends)
  \/ InviteNobody(r)
  \/ \E v \in User : InviteCheck(r, v)
  \/ \E v \in User, i \in Invite : InviteInsert(r, v, i)
  \/ \E i \in Invite : InviteNotify(r, i)
  \/ InviteDone(r)
  \/ RespondTx(r)
  \/ LeaveRemove(r) \/ LeaveCount(r) \/ LeaveClose(r) \/ LeaveDelete(r)
  \/ KickRemove(r)
  \/ TransferTarget(r) \/ TransferDemote(r) \/ TransferPromote(r) \/ TransferOwner(r)
  \/ SettingsUpdate(r) \/ VoiceUpdate(r)
  \/ \E heir \in [Party -> User] : AccountPlan(r, heir)
  \/ AccountCommit(r) \/ AccountClose(r)

Next == \E r \in Req :
  \/ \E u \in User : Arrive(r, u)
  \/ Proceed(r)

Spec == Init /\ [][Next]_vars

-----------------------------------------------------------------------------
\* Every column holds a value of its type, every slot a request of the API.
TypeOK ==
  /\ party \in [Party -> PartyRow]
  /\ role \in [Party -> [User -> Role]]
  /\ voice \in [Party -> [User -> Flag]]
  /\ inv \in [Invite -> InviteRow]
  /\ notified \in SUBSET Invite
  /\ deleted \in SUBSET User
  /\ room \in [Party -> {"unused", "open", "closed"}]
  /\ req \in [Req -> Request]

\* Whatever raced with the deletion of an account between its reads and its
\* commit (the heir leaves or is kicked, the party is transferred, the account
\* deleted twice): who becomes the owner of a party by it is a member of it up
\* to then and leads it from then on, and the deleted user leads it no more.
HeirsLead == [][\A r \in Req, p \in Live :
  LET heir == party'[p].owner
  IN (/\ req[r].pc = "account.commit" /\ req'[r].pc = "account.close"
      /\ p \in Live' /\ heir # party[p].owner)
       => heir \in Members(p) /\ heir \in Leaders(p)' /\ req[r].user \notin Leaders(p)']_vars

\* respondInviteAtomic's promise: an invite is answered once.  Whatever raced
\* with the answer, only the deletion of the party touches it again.
AnswerIsFinal == [][\A i \in Invite :
  inv[i].status \in {"accepted", "declined"} => inv'[i] \in {inv[i], GoneInvite}]_vars

\* Nobody gets into a party except its creator and an invitee whose pending
\* invite turns accepted in the very same step; and each such step lets him in.
JoinsAreAcceptances == [][\A p \in Party, u \in User :
  LET joins == u \notin Members(p) /\ u \in Members(p)'
      accepts == \E i \in Invite : /\ inv[i].status = "pending"
                                   /\ inv[i].party = p /\ inv[i].to = u
                                   /\ inv'[i].status = "accepted"
  IN \/ joins <=> accepts
     \/ p \notin Live /\ party'[p].owner = u]_vars

\* The full-party check is not repeated in the transaction, so racing accepts
\* may overfill a party, but only by one for every other request in flight.
CapacityBound == \A p \in Live :
  Cardinality(Members(p)) <= party[p].size + Cardinality(Req) - 1

\* LiveKit and the table agree up to the request that is about to make them:
\* a live party whose room was closed is about to be deleted, an open room
\* without a party is about to get one or to be closed.
RoomsAccounted == \A p \in Party :
  /\ (p \in Live /\ room[p] # "open")
       => \E r \in Req : req[r].pc = "leave.delete" /\ req[r].party = p
  /\ (p \notin Live /\ room[p] = "open")
       => \E r \in Req : \/ req[r].pc = "create.row" /\ req[r].party = p
                         \/ req[r].pc = "account.close" /\ p \in req[r].doomed

\* No invite is silent: its notification is stored, or the request that
\* inserted it has that still to do.
InvitesAnnounced == \A i \in Invite : inv[i].status # "none" =>
  i \in notified \/ \E r \in Req : req[r].pc = "invite.send" /\ i \in req[r].sent

-----------------------------------------------------------------------------
(* What the requests in flight know for certain: the strengthenings that   *)
(* make the properties above inductive.                                    *)

\* The rows of a party go with it: no member, no invite.
NoOrphans == \A p \in Party : p \notin Live =>
  /\ Members(p) = {}
  /\ \A i \in Invite : inv[i].status \in Answer => inv[i].party # p

\* A deletion has chosen its heirs among the other members.
HeirsAreOthers == \A r \in Req : req[r].pc = "account.commit" =>
  \A h \in req[r].heirs : h[2] # req[r].user

\* An answer on its way is the addressee's, to an invite of that party, even
\* if the invite has been answered or has gone with its party meanwhile.
AnswersMatch == \A r \in Req : req[r].pc = "respond.tx" =>
  LET i == req[r].invite
  IN /\ inv[i].status # "none"
     /\ inv[i].status \in Answer => inv[i].party = req[r].party /\ inv[i].to = req[r].user

\* A party row about to be inserted has an id no other request and no row has.
FreshIds ==
  /\ \A p \in Live : room[p] # "unused"
  /\ \A r \in Req : req[r].pc = "create.row" =>
       /\ req[r].party \notin Live
       /\ room[req[r].party] # "unused"
       /\ \A s \in Req \ {r} : req[s].pc = "create.row" => req[s].party # req[r].party

\* The accepts between their capacity check and their transaction.
Joining(p) ==
  {r \in Req : req[r].pc = "respond.tx" /\ req[r].accept /\ req[r].party = p}

\* Each of them may still add one member to what the check saw.
Crowd == \A p \in Live :
  Cardinality(Members(p)) + Cardinality(Joining(p))
    <= party[p].size + Cardinality(Req) - 1

-----------------------------------------------------------------------------
(* What holds while requests do not overlap and none dies.                 *)

Transferring(p) == \E r \in Req :
  req[r].pc \in {"transfer.promote", "transfer.owner"} /\ req[r].party = p

\* Every party has one LEADER, its owner, whenever no transfer is half done.
OwnerLeads == \A p \in Live : ~Transferring(p) => Leaders(p) = {party[p].owner}

Actors == {req[r].user : r \in {s \in Req : req[s].pc # "idle"}}

\* Changing or ending a party, or removing somebody else from it, takes a
\* request of its owner.
OwnerDecides == [][\A p \in Live :
  (party'[p] # party[p] \/ \E v \in Members(p) \ Actors : role'[p][v] = "none")
     => party[p].owner \in Actors]_vars

\* Account deletion ends exactly the parties the user had to himself; each of
\* the others goes to one of its other members, who becomes its LEADER.
DeletionHandsOver == [][\A u \in deleted' \ deleted : \A p \in OwnedBy(u) :
  LET others == Members(p) \ {u}
  IN IF others = {} THEN p \notin Live'
     ELSE p \in Live' /\ party'[p].owner \in others /\ role'[p][party'[p].owner] = "LEADER"]_vars

-----------------------------------------------------------------------------
(* Claims of the repository's documents that the code does not keep.       *)

\* backend/docs/database/query-guidelines.md: joining a full party surfaces as a 409.
NeverOverfull == \A p \in Live : Cardinality(Members(p)) <= party[p].size

\* backend/docs/database/deletion-strategy.md: an owned party goes to a member who is
\* active, that is, not a deleted account.
HeirsAreActive == [][\A p \in Live :
  (deleted' # deleted /\ p \in Live' /\ party'[p].owner # party[p].owner)
     => party'[p].owner \notin deleted]_vars
=============================================================================
