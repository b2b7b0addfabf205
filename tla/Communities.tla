---------------------------- MODULE Communities ----------------------------
(***************************************************************************)
(* One community: its owner, members and roles.  CommunitiesService and    *)
(* the community half of the deletion of an account.                       *)
(*                                                                         *)
(* As in module Party, an operation is a request that holds a slot of Req  *)
(* and goes on, statement by statement, when it will or never; one whose   *)
(* first read rejects it is left out.  The other communities appear as     *)
(* Elsewhere, their roles: ids a request may name just as well.  Colours   *)
(* and positions are left out, and names but for Member, which no key keeps*)
(* unique; and so is the status of a member, never anything but ACTIVE.    *)
(***************************************************************************)
EXTENDS Naturals, FiniteSets

CONSTANTS
  User,       \* accounts
  Req,        \* request slots; bounds the requests in flight at once
  Elsewhere,  \* ids of the roles of other communities
  Named,      \* bounds the role ids that requests name
  MaxJoins,   \* bounds the memberships ever begun
  Nobody      \* stands for no owner: the community is not there, or no more

VARIABLES
  owner,     \* Community.ownerId
  joins,     \* the memberships begun so far: the clock of joinedAt
  member,    \* table CommunityMember
  role,      \* table CommunityRole, as what has become of each role id
  assigned,  \* table CommunityMemberRole: <<membership, role id>>
  req        \* the requests in flight

tables == <<owner, joins, member, role, assigned>>
vars == <<owner, joins, member, role, assigned, req>>

-----------------------------------------------------------------------------
(* A membership is its row, so that leaving and coming back makes another. *)
(* founder and member are the roles create makes; mods and namesake are    *)
(* made later, with whatever name and permissions a manager gives them,    *)
(* namesake with the name Member.                                          *)

Row == [user : User, at : 1..MaxJoins]
NoRow == [user |-> Nobody, at |-> 0]
Made == {"mods", "namesake"}
Own == {"founder", "member"} \cup Made
RoleId == Own \cup Elsewhere
Managing == {"founder"} \cup Made
CalledMember == {"member", "namesake"}

Holding == {"unused", "live", "gone"}

(* A request, as what it is still to do.  A removal keeps the ownerId it    *)
(* has read, an assignment the membership it has found, the deletion of an  *)
(* account the heir.                                                        *)
Idle == [pc |-> "idle"]
Join(pc, u) == [pc |-> pc, who |-> u]
Remove(u) == [pc |-> "remove", who |-> u, saw |-> owner]
Find(op, u, x) == [pc |-> "find", op |-> op, who |-> u, role |-> x]
OnRole(x) == [pc |-> "role.delete", role |-> x]
Plain(pc) == [pc |-> pc]

Request == {Idle}
     \cup [pc : {"remove"}, who : User, saw : User]
     \cup [pc : {"find"}, op : {"assign", "unassign"}, who : User, role : RoleId]
     \cup [pc : {"role.delete"}, role : RoleId]
     \cup [pc : {"role.create"}]
     \cup [pc : {"join.member", "join.add"}, who : User]
     \cup [pc : {"assign", "unassign"}, row : Row, role : RoleId]
     \cup [pc : {"delete"}]
     \cup [pc : {"account"}, heir : User \cup {Nobody}]

Go(r, next) == req' = [req EXCEPT ![r] = next]
Done(r) == Go(r, Idle)

Exists == owner # Nobody
RowsOf(u) == {row \in member : row.user = u}
IsMember(u) == RowsOf(u) # {}
Live(x) == x \in Elsewhere \/ role[x] = "live"

-----------------------------------------------------------------------------
(* Mutated forms: what a plausible slip in the code would make of the      *)
(* definition whose name each one carries.  No action uses them; replacing *)
(* the definition by its form must break the property the form is for.     *)

\* the role looked up by its id alone
FindRoleAnywhere(x) == Live(x)

\* the new member given the first role of the community, whatever its name
DefaultRoleFirst == {x \in {"founder"} : Live(x)}

\* anybody may be kicked, the owner included
MayKickAnyone(t) == TRUE

\* the new role stored without its column communityId
CreateRoleLost(r) ==
  /\ req[r].pc = "role.create"
  /\ \A x \in Made : role[x] = "unused"
  /\ \E x \in Made : role' = [role EXCEPT ![x] = "lost"]
  /\ Done(r)
  /\ UNCHANGED <<owner, joins, member, assigned>>

-----------------------------------------------------------------------------
SeatTaken(u) == IsMember(u)  \* @@unique([communityId, userId])

\* what assertManager asks of a membership, and whom it lets pass
HoldsPower(u) == \E row \in RowsOf(u), x \in Managing : <<row, x>> \in assigned
Manages(u) == (Exists /\ owner = u) \/ HoldsPower(u)
MayKick(t) == t # owner

\* findRoleInCommunity, and the where of deleteRole
FindRole(x) == x \in Own /\ role[x] = "live"

\* What addMember may find by the name Member: findFirst says not which of several.
DefaultRole == {x \in CalledMember : FindRole(x)}
OneOf(roles) == IF roles = {} THEN {{}} ELSE {{x} : x \in roles}

Init ==
  /\ owner = Nobody /\ joins = 0
  /\ member = {} /\ assigned = {}
  /\ role = [x \in Own |-> "unused"]
  /\ req = [r \in Req |-> Idle]

-----------------------------------------------------------------------------
\* create: one transaction for the community, its owner's membership and
\* Founder role, and the two roles.  It reads nothing before.
Create(u) ==
  LET row == [user |-> u, at |-> 1] IN
  /\ ~Exists /\ joins = 0
  /\ owner' = u /\ joins' = 1
  /\ member' = {row} /\ assigned' = {<<row, "founder">>}
  /\ role' = [role EXCEPT !["founder"] = "live", !["member"] = "live"]
  /\ UNCHANGED req

\* join: two reads, then a transaction that the foreign key refuses when the
\* community is gone, the unique key when the user has joined meanwhile.
JoinCheck(r, u) ==
  /\ req[r] = Idle
  /\ Exists
  /\ Go(r, Join("join.member", u))
  /\ UNCHANGED tables

JoinMember(r) ==
  /\ req[r].pc = "join.member"
  /\ Go(r, IF IsMember(req[r].who) THEN Idle ELSE Join("join.add", req[r].who))
  /\ UNCHANGED tables

JoinAdd(r) ==
  LET row == [user |-> req[r].who, at |-> joins + 1] IN
  /\ req[r].pc = "join.add"
  /\ joins < MaxJoins
  /\ IF ~Exists \/ SeatTaken(req[r].who)
       THEN UNCHANGED <<joins, member, assigned>>
       ELSE /\ joins' = joins + 1
            /\ member' = member \cup {row}
            /\ \E given \in OneOf(DefaultRole) : assigned' = assigned \cup ({row} \X given)
  /\ Done(r)
  /\ UNCHANGED <<owner, role>>

\* leave: the owner may not
LeaveCheck(r, u) ==
  /\ req[r] = Idle
  /\ Exists /\ owner # u
  /\ Go(r, Remove(u))
  /\ UNCHANGED tables

\* What is removed is whatever row the user has by now, and its roles with it.
\* Deleting a row that is gone throws.
RemoveMember(r) ==
  LET gone == RowsOf(req[r].who) IN
  /\ req[r].pc = "remove"
  /\ member' = member \ gone
  /\ assigned' = {a \in assigned : a[1] \notin gone}
  /\ Done(r)
  /\ UNCHANGED <<owner, joins, role>>

\* The cascades of Community: everything that refers to it goes.
DropAll ==
  /\ owner' = Nobody
  /\ member' = {} /\ assigned' = {}
  /\ role' = [x \in Own |-> IF role[x] = "live" THEN "gone" ELSE role[x]]

DeleteCheck(r, u) ==
  /\ req[r] = Idle
  /\ Exists /\ owner = u
  /\ Go(r, Plain("delete"))
  /\ UNCHANGED tables

DeleteCommunity(r) ==
  /\ req[r].pc = "delete"
  /\ DropAll
  /\ Done(r)
  /\ UNCHANGED joins

-----------------------------------------------------------------------------
(* The operations of a manager.  assertManager reads the community and, of  *)
(* anybody but its owner, the membership: in one step, as what comes        *)
(* between the two could as well have come after both.  kickMember compares *)
(* its target with the owner it has read.                                   *)

ManageCheck(r, u, next) ==
  /\ req[r] = Idle
  /\ Manages(u)
  /\ Go(r, next)
  /\ UNCHANGED tables

KickCheck(r, u, t) == MayKick(t) /\ ManageCheck(r, u, Remove(t))
RoleCheck(r, u, op, t, x) == ManageCheck(r, u, Find(op, t, x))

\* assignRole and unassignRole look for the membership and the role at once.
FindBoth(r) ==
  /\ req[r].pc = "find"
  /\ IF IsMember(req[r].who) /\ FindRole(req[r].role)
       THEN \E row \in RowsOf(req[r].who) :
              Go(r, [pc |-> req[r].op, row |-> row, role |-> req[r].role])
       ELSE Done(r)
  /\ UNCHANGED tables

\* The foreign keys refuse a membership or a role that is gone by now.
Assign(r) ==
  /\ req[r].pc = "assign"
  /\ assigned' = IF req[r].row \in member /\ Live(req[r].role)
                   THEN assigned \cup {<<req[r].row, req[r].role>>} ELSE assigned
  /\ Done(r)
  /\ UNCHANGED <<owner, joins, member, role>>

Unassign(r) ==
  /\ req[r].pc = "unassign"
  /\ assigned' = assigned \ {<<req[r].row, req[r].role>>}
  /\ Done(r)
  /\ UNCHANGED <<owner, joins, member, role>>

CreateRole(r) ==
  /\ req[r].pc = "role.create"
  /\ \A x \in Made : role[x] = "unused"  \* bound: one role besides the two of create
  /\ \E x \in Made : role' = IF Exists THEN [role EXCEPT ![x] = "live"] ELSE role
  /\ Done(r)
  /\ UNCHANGED <<owner, joins, member, assigned>>

DeleteRole(r) ==
  /\ req[r].pc = "role.delete"
  /\ IF FindRole(req[r].role)
       THEN /\ role' = [role EXCEPT ![req[r].role] = "gone"]
            /\ assigned' = {a \in assigned : a[2] # req[r].role}
       ELSE UNCHANGED <<role, assigned>>
  /\ Done(r)
  /\ UNCHANGED <<owner, joins, member>>

-----------------------------------------------------------------------------
(* The deletion of the owner's account: its transaction reads who joined   *)
(* first of the others, then hands the community over or deletes it.  The  *)
(* member's row of the old owner stays.                                    *)

Heirs(u) ==
  LET others == {row \in member : row.user # u}
      first == {row \in others : \A other \in others : row.at <= other.at}
  IN  IF others = {} THEN {Nobody} ELSE {row.user : row \in first}

AccountPlan(r, u) ==
  /\ req[r] = Idle
  /\ Exists /\ owner = u
  /\ \E heir \in Heirs(u) : Go(r, [pc |-> "account", heir |-> heir])
  /\ UNCHANGED tables

AccountCommit(r) ==
  /\ req[r].pc = "account"
  /\ IF ~Exists THEN UNCHANGED <<owner, member, role, assigned>>
     ELSE IF req[r].heir = Nobody THEN DropAll
     ELSE owner' = req[r].heir /\ UNCHANGED <<member, role, assigned>>
  /\ Done(r)
  /\ UNCHANGED joins

-----------------------------------------------------------------------------
Arrive(r, u) ==
  \/ JoinCheck(r, u) \/ LeaveCheck(r, u) \/ DeleteCheck(r, u) \/ AccountPlan(r, u)
  \/ \E t \in User : KickCheck(r, u, t)
  \/ \E op \in {"assign", "unassign"}, t \in User, x \in Named : RoleCheck(r, u, op, t, x)
  \/ ManageCheck(r, u, Plain("role.create"))
  \/ \E x \in Named : ManageCheck(r, u, OnRole(x))

Proceed(r) ==
  \/ JoinMember(r) \/ JoinAdd(r) \/ RemoveMember(r) \/ DeleteCommunity(r)
  \/ FindBoth(r) \/ Assign(r) \/ Unassign(r)
  \/ CreateRole(r) \/ DeleteRole(r) \/ AccountCommit(r)

Next ==
  \/ \E u \in User : Create(u)
  \/ \E r \in Req : Proceed(r) \/ \E u \in User : Arrive(r, u)

Spec == Init /\ [][Next]_vars

-----------------------------------------------------------------------------
\* Every column holds a value of its type, every slot a request of the API.
TypeOK ==
  /\ owner \in User \cup {Nobody} /\ joins \in 0..MaxJoins
  /\ member \in SUBSET Row
  /\ role \in [Own -> Holding]
  /\ assigned \in SUBSET (Row \X RoleId)
  /\ req \in [Req -> Request]

\* A role is held by a member of its own community, and only as long as both
\* are there: no assignment whose reads are stale, and none that names a role
\* of another community, gets one past the keys; and nothing outlives the
\* community.
RolesAtHome ==
  /\ \A a \in assigned : a[1] \in member /\ a[2] \in Own /\ role[a[2]] = "live"
  /\ ~Exists => member = {} /\ \A x \in Own : role[x] # "live"

\* Nobody has two memberships, whatever joins, leaves and kicks overlap: what
\* findMember and removeMember rely on.
OneSeatEach == \A one, two \in member : one.user = two.user => one = two

\* The owner loses his membership only to a request that read the community
\* when somebody else owned it: by itself, kickMember or leave never removes him.
OwnerStays ==
  Exists /\ owner' = owner /\ IsMember(owner) /\ RowsOf(owner)' = {} =>
    \E r \in Req : req[r].pc = "remove" /\ req[r].who = owner /\ req[r].saw # owner
OwnerKeepsSeat == [][OwnerStays]_vars

\* Nobody comes to manage the community but by creating it, by inheriting it,
\* by an assignment addressed to him that a manager had sent, or by joining
\* while a role that manages is called Member, as any manager may call one:
\* never through a role that he held before he left, or was to be given then.
PowerGiven ==
  \A u \in User : Manages(u)' /\ ~Manages(u) =>
    \/ owner' = u /\ owner # u
    \/ \E r \in Req : req[r].pc = "assign" /\ req[r].row.user = u
    \/ /\ \E x \in CalledMember \cap Managing : FindRole(x)
       /\ \E r \in Req : req[r].pc = "join.add" /\ req[r].who = u
PowerIsGiven == [][PowerGiven]_vars
=============================================================================
