--------------------------- MODULE LivePartsProofs --------------------------
(***************************************************************************)
(* What holds of the components of LiveParts, for every value of the       *)
(* constants.  Each has a strengthening, its name with the two letters of  *)
(* the component before it, that is shown to hold at the start and to be   *)
(* kept by every step; PartsProofs puts them together.  Communities has    *)
(* theorems of its own, for any number of users, requests in flight,       *)
(* memberships and foreign role ids: its tables and requests stay          *)
(* well-typed, no assignment outlives what it refers to, nobody has two    *)
(* memberships, who manages was given it, and the owner keeps his seat.    *)
(***************************************************************************)
EXTENDS LiveParts, ListingProofs, FiniteSetTheorems, TLAPS

-----------------------------------------------------------------------------
(* Communities, under its own names.                                       *)

\* What the proofs assume of the constants.
Setting ==
  /\ Nobody \notin User
  /\ MaxJoins \in Nat \ {0}
  /\ Elsewhere \cap Own = {}
  /\ Named \subseteq RoleId

-----------------------------------------------------------------------------
(* The invariant.  A removal goes for somebody who was not the owner when  *)
(* it was sent, an assignment for a role that findRoleInCommunity found.   *)

TablesOK ==
  /\ owner \in User \cup {Nobody} /\ joins \in 0..MaxJoins
  /\ member \in SUBSET Row
  /\ role \in [Own -> Holding]
  /\ assigned \in SUBSET (Row \X RoleId)
  /\ \A row \in member : row.at <= joins
  /\ RolesAtHome
  /\ OneSeatEach

RequestOK(q) ==
  /\ q \in Request
  /\ q.pc = "remove" => q.saw # q.who
  /\ q.pc = "assign" => q.role \in Own

SlotsOK ==
  /\ req \in [Req -> Request]
  /\ \A r \in Req : RequestOK(req[r])

Inv == TablesOK /\ SlotsOK

LEMMA InvMeans == Inv => TypeOK /\ RolesAtHome /\ OneSeatEach
  BY DEF Inv, TablesOK, SlotsOK, TypeOK

LEMMA SlotsGo ==
  ASSUME SlotsOK, NEW r \in Req, NEW next, RequestOK(next), Go(r, next)
  PROVE SlotsOK'
<1>1. next \in Request
  BY DEF RequestOK
<1>2. req' \in [Req -> Request]
  BY <1>1 DEF SlotsOK, Go
<1>3. ASSUME NEW s \in Req PROVE RequestOK(req'[s])
  BY DEF SlotsOK, Go
<1> QED  BY <1>2, <1>3 DEF SlotsOK

LEMMA SlotsDone ==
  ASSUME SlotsOK, NEW r \in Req, Done(r)
  PROVE SlotsOK'
<1>1. RequestOK(Idle)
  BY DEF RequestOK, Request, Idle
<1> QED  BY <1>1, SlotsGo DEF Done

LEMMA TablesSame ==
  ASSUME TablesOK, UNCHANGED tables
  PROVE TablesOK'
  BY DEF TablesOK, tables, RolesAtHome, OneSeatEach, Exists

LEMMA InitInv == ASSUME Setting PROVE Init => Inv
  BY DEF Setting, Init, Inv, TablesOK, SlotsOK, RequestOK, RolesAtHome, OneSeatEach,
         Exists, Holding, Request, Idle

-----------------------------------------------------------------------------
(* A request arrives: the tables stay as they are.                         *)

LEMMA ArriveInv ==
  ASSUME Setting, Inv, NEW r \in Req, NEW u \in User, Arrive(r, u)
  PROVE Inv'
<1> USE DEF Inv
<1>0. UNCHANGED tables => TablesOK'
  BY TablesSame
<1>1. CASE JoinCheck(r, u)
  <2>1. RequestOK(Join("join.member", u))
    BY DEF RequestOK, Request, Join
  <2> QED  BY <1>0, <1>1, <2>1, SlotsGo DEF JoinCheck
<1>2. ASSUME NEW t \in User, owner # t, Exists, Go(r, Remove(t)), UNCHANGED tables
      PROVE Inv'
  <2>1. Remove(t) \in Request
    BY <1>2 DEF Request, Remove, TablesOK, Exists
  <2>2. RequestOK(Remove(t))
    BY <1>2, <2>1 DEF RequestOK, Remove
  <2> QED  BY <1>0, <1>2, <2>2, SlotsGo
<1>3. CASE LeaveCheck(r, u)
  BY <1>2, <1>3 DEF LeaveCheck
<1>4. ASSUME NEW t \in User, KickCheck(r, u, t)
      PROVE Inv'
  <2>1. Exists \/ member # {}
    BY <1>4 DEF KickCheck, ManageCheck, Manages, HoldsPower, RowsOf
  <2>2. Exists
    BY <2>1 DEF TablesOK, RolesAtHome
  <2> QED  BY <1>2, <1>4, <2>2 DEF KickCheck, ManageCheck, MayKick
<1>5. CASE DeleteCheck(r, u)
  <2>1. RequestOK(Plain("delete"))
    BY DEF RequestOK, Request, Plain
  <2> QED  BY <1>0, <1>5, <2>1, SlotsGo DEF DeleteCheck
<1>6. CASE AccountPlan(r, u)
  <2>1. Heirs(u) \subseteq User \cup {Nobody}
    BY DEF Heirs, TablesOK, Row
  <2>2. PICK heir \in Heirs(u) : Go(r, [pc |-> "account", heir |-> heir])
    BY <1>6 DEF AccountPlan
  <2>3. RequestOK([pc |-> "account", heir |-> heir])
    BY <2>1 DEF RequestOK, Request
  <2> QED  BY <1>0, <1>6, <2>2, <2>3, SlotsGo DEF AccountPlan
<1>7. ASSUME NEW op \in {"assign", "unassign"}, NEW t \in User, NEW x \in Named,
             RoleCheck(r, u, op, t, x)
      PROVE Inv'
  <2>1. RequestOK(Find(op, t, x))
    BY DEF RequestOK, Request, Find, Setting
  <2> QED  BY <1>0, <1>7, <2>1, SlotsGo DEF RoleCheck, ManageCheck
<1>8. CASE ManageCheck(r, u, Plain("role.create"))
  <2>1. RequestOK(Plain("role.create"))
    BY DEF RequestOK, Request, Plain
  <2> QED  BY <1>0, <1>8, <2>1, SlotsGo DEF ManageCheck
<1>9. ASSUME NEW x \in Named, ManageCheck(r, u, OnRole(x))
      PROVE Inv'
  <2>1. RequestOK(OnRole(x))
    BY DEF RequestOK, Request, OnRole, Setting
  <2> QED  BY <1>0, <1>9, <2>1, SlotsGo DEF ManageCheck
<1> QED  BY <1>1, <1>3, <1>4, <1>5, <1>6, <1>7, <1>8, <1>9 DEF Arrive

-----------------------------------------------------------------------------
(* A request goes on.                                                      *)

LEMMA ProceedInv ==
  ASSUME Setting, Inv, NEW r \in Req, Proceed(r)
  PROVE Inv'
<1> USE DEF Inv
<1>0. UNCHANGED tables => TablesOK'
  BY TablesSame
<1>a. RequestOK(req[r])
  BY DEF SlotsOK
<1>1. CASE JoinMember(r)
  <2>1. req[r].who \in User
    BY <1>1, <1>a DEF JoinMember, RequestOK, Request, Idle
  <2>2. RequestOK(Idle) /\ RequestOK(Join("join.add", req[r].who))
    BY <2>1 DEF RequestOK, Request, Join, Idle
  <2> QED  BY <1>0, <1>1, <2>2, SlotsGo DEF JoinMember
<1>2. CASE JoinAdd(r)
  <2> DEFINE row == [user |-> req[r].who, at |-> joins + 1]
  <2>1. req[r].who \in User
    BY <1>2, <1>a DEF JoinAdd, RequestOK, Request, Idle
  <2>2. CASE ~Exists \/ SeatTaken(req[r].who)
    BY <1>2, <2>2, SlotsDone, TablesSame DEF JoinAdd, tables
  <2>3. CASE Exists /\ ~SeatTaken(req[r].who)
    <3>0. PICK given \in OneOf(DefaultRole) :
            /\ joins' = joins + 1 /\ member' = member \cup {row}
            /\ assigned' = assigned \cup ({row} \X given)
            /\ UNCHANGED <<owner, role>> /\ joins < MaxJoins
      BY <1>2, <2>3 DEF JoinAdd
    <3>1. /\ joins' = joins + 1 /\ member' = member \cup {row}
          /\ assigned' = assigned \cup ({row} \X given)
          /\ UNCHANGED <<owner, role>> /\ joins < MaxJoins
      BY <3>0
    <3>2. joins' \in 0..MaxJoins /\ row \in Row
      BY <2>1, <3>1 DEF Setting, TablesOK, Row
    <3>3. \A x \in given : x \in Own /\ role[x] = "live" /\ x \in RoleId
      BY DEF OneOf, DefaultRole, FindRole, RoleId
    <3>4. \A one \in member' : one.at <= joins'
      BY <3>1, <3>2 DEF TablesOK, Row, Setting
    <3>5. RolesAtHome'
      BY <2>3, <3>1, <3>3 DEF TablesOK, RolesAtHome, Exists, Own
    <3>6. OneSeatEach'
      BY <2>3, <3>1 DEF TablesOK, OneSeatEach, SeatTaken, IsMember, RowsOf
    <3>7. member' \in SUBSET Row /\ assigned' \in SUBSET (Row \X RoleId)
      BY <3>1, <3>2, <3>3 DEF TablesOK
    <3>8. TablesOK'
      BY <3>1, <3>2, <3>4, <3>5, <3>6, <3>7 DEF TablesOK
    <3> QED  BY <1>2, <3>8, SlotsDone DEF JoinAdd
  <2> QED  BY <2>2, <2>3
<1>3. CASE RemoveMember(r)
  <2>1. TablesOK'
    BY <1>3 DEF RemoveMember, TablesOK, RolesAtHome, OneSeatEach, Exists, RowsOf
  <2> QED  BY <1>3, <2>1, SlotsDone DEF RemoveMember
<1>4. ASSUME DropAll, UNCHANGED joins, Done(r) PROVE Inv'
  <2>1. TablesOK'
    BY <1>4 DEF DropAll, TablesOK, RolesAtHome, OneSeatEach, Exists, Holding
  <2> QED  BY <1>4, <2>1, SlotsDone
<1>5. CASE DeleteCommunity(r)
  BY <1>4, <1>5 DEF DeleteCommunity
<1>6. CASE FindBoth(r)
  <2> DEFINE op == req[r].op  x == req[r].role
  <2>1. op \in {"assign", "unassign"} /\ x \in RoleId
    BY <1>6, <1>a DEF FindBoth, RequestOK, Request, Idle
  <2>2. ASSUME FindRole(x), NEW row \in RowsOf(req[r].who),
               Go(r, [pc |-> op, row |-> row, role |-> x])
        PROVE SlotsOK'
    <3>1. row \in Row
      BY DEF RowsOf, TablesOK
    <3>2. RequestOK([pc |-> op, row |-> row, role |-> x])
      BY <2>1, <2>2, <3>1 DEF RequestOK, Request, FindRole
    <3> QED  BY <2>2, <3>2, SlotsGo
  <2> QED  BY <1>0, <1>6, <2>2, SlotsDone DEF FindBoth
<1>7. CASE Assign(r)
  <2> DEFINE row == req[r].row  x == req[r].role
  <2>1. x \in Own /\ x \in RoleId /\ row \in Row
    BY <1>7, <1>a DEF Assign, RequestOK, Request, Idle, RoleId
  <2>2. Live(x) => role[x] = "live"
    BY <2>1 DEF Live, Setting
  <2>3. TablesOK'
    BY <1>7, <2>1, <2>2 DEF Assign, TablesOK, RolesAtHome, OneSeatEach, Exists
  <2> QED  BY <1>7, <2>3, SlotsDone DEF Assign
<1>8. CASE Unassign(r)
  <2>1. TablesOK'
    BY <1>8 DEF Unassign, TablesOK, RolesAtHome, OneSeatEach, Exists
  <2> QED  BY <1>8, <2>1, SlotsDone DEF Unassign
<1>9. CASE CreateRole(r)
  <2>1. TablesOK'
    BY <1>9 DEF CreateRole, TablesOK, RolesAtHome, OneSeatEach, Exists, Holding, Own
  <2> QED  BY <1>9, <2>1, SlotsDone DEF CreateRole
<1>10. CASE DeleteRole(r)
  <2>1. TablesOK'
    BY <1>10 DEF DeleteRole, TablesOK, RolesAtHome, OneSeatEach, Exists, Holding, FindRole
  <2> QED  BY <1>10, <2>1, SlotsDone DEF DeleteRole
<1>11. CASE AccountCommit(r)
  <2>1. req[r].heir \in User \cup {Nobody}
    BY <1>11, <1>a DEF AccountCommit, RequestOK, Request, Idle
  <2>2. CASE ~Exists
    BY <1>11, <2>2, TablesSame, SlotsDone DEF AccountCommit, tables
  <2>3. CASE Exists /\ req[r].heir = Nobody
    BY <1>4, <1>11, <2>3 DEF AccountCommit
  <2>4. CASE Exists /\ req[r].heir # Nobody
    <3>1. TablesOK'
      BY <1>11, <2>1, <2>4 DEF AccountCommit, TablesOK, RolesAtHome, OneSeatEach, Exists
    <3> QED  BY <1>11, <3>1, SlotsDone DEF AccountCommit
  <2> QED  BY <2>2, <2>3, <2>4
<1> QED  BY <1>1, <1>2, <1>3, <1>5, <1>6, <1>7, <1>8, <1>9, <1>10, <1>11 DEF Proceed

LEMMA CreateInv ==
  ASSUME Setting, Inv, NEW u \in User, Create(u)
  PROVE Inv'
<1> DEFINE row == [user |-> u, at |-> 1]
<1>1. row \in Row /\ 1 \in 0..MaxJoins /\ u # Nobody
  BY DEF Row, Setting
<1>2. /\ role' \in [Own -> Holding] /\ role'["founder"] = "live"
      /\ "founder" \in Own
  BY DEF Create, Inv, TablesOK, Holding, Own
<1>3. /\ owner' = u /\ joins' = 1
      /\ member' = {row} /\ assigned' = {<<row, "founder">>}
  BY DEF Create
<1>4. RolesAtHome' /\ OneSeatEach'
  BY <1>1, <1>2, <1>3 DEF RolesAtHome, OneSeatEach, Exists
<1>5. TablesOK'
  BY <1>1, <1>2, <1>3, <1>4 DEF TablesOK, RoleId
<1>6. SlotsOK'
  BY DEF Create, Inv, SlotsOK
<1> QED  BY <1>5, <1>6 DEF Inv

LEMMA NextInv == ASSUME Setting PROVE Inv /\ [Next]_vars => Inv'
<1> SUFFICES ASSUME Inv, [Next]_vars PROVE Inv'
  OBVIOUS
<1>1. CASE UNCHANGED vars
  BY <1>1, TablesSame DEF vars, tables, Inv, SlotsOK
<1> QED  BY <1>1, CreateInv, ProceedInv, ArriveInv DEF Next

\* Whatever requests overlap: every column holds a value of its type, every
\* assignment is of a member and of a role of this community that are there,
\* nothing outlives the community, and nobody has two memberships.
THEOREM Home == ASSUME Setting PROVE Spec => [](TypeOK /\ RolesAtHome /\ OneSeatEach)
<1>1. Init => Inv
  BY InitInv
<1>2. Inv /\ [Next]_vars => Inv'
  BY NextInv
<1>3. Inv => TypeOK /\ RolesAtHome /\ OneSeatEach
  BY InvMeans
<1> QED  BY <1>1, <1>2, <1>3, PTL DEF Spec

-----------------------------------------------------------------------------
(* The owner's seat.  Of what removes a membership, the cascades of a      *)
(* deletion take the owner with it; a removal that took his seat was sent  *)
(* when somebody else owned the community, by RequestOK.                   *)

LEMMA StepOwner ==
  ASSUME Setting, Inv, [Next]_vars
  PROVE OwnerStays
<1> SUFFICES ASSUME Exists, owner' = owner, IsMember(owner), RowsOf(owner)' = {}
             PROVE \E r \in Req : req[r].pc = "remove" /\ req[r].who = owner /\ req[r].saw # owner
  BY DEF OwnerStays
<1>1. PICK row \in member : row.user = owner
  BY DEF IsMember, RowsOf
<1>2. row \notin member'
  BY <1>1 DEF RowsOf
<1>3. CASE UNCHANGED member
  BY <1>1, <1>2, <1>3
<1>4. ASSUME NEW u \in User, Create(u) PROVE FALSE
  BY <1>4 DEF Create
<1>5. ASSUME NEW r \in Req, RemoveMember(r)
      PROVE req[r].pc = "remove" /\ req[r].who = owner /\ req[r].saw # owner
  <2>1. req[r].pc = "remove" /\ row.user = req[r].who
    BY <1>1, <1>2, <1>5 DEF RemoveMember, RowsOf
  <2> QED  BY <1>1, <2>1 DEF Inv, SlotsOK, RequestOK
<1>6. ASSUME DropAll PROVE FALSE
  BY <1>6 DEF DropAll, Exists
<1>7. ASSUME NEW r \in Req, JoinAdd(r) PROVE FALSE
  BY <1>1, <1>2, <1>7 DEF JoinAdd
<1>8. ASSUME NEW r \in Req, Proceed(r)
      PROVE UNCHANGED member \/ DropAll \/ RemoveMember(r) \/ JoinAdd(r)
  BY <1>8 DEF Proceed, JoinMember, DeleteCommunity, FindBoth, Assign, Unassign,
              CreateRole, DeleteRole, AccountCommit, tables
<1>9. ASSUME NEW r \in Req, NEW u \in User, Arrive(r, u) PROVE UNCHANGED member
  BY <1>9 DEF Arrive, JoinCheck, LeaveCheck, DeleteCheck, AccountPlan, KickCheck,
              RoleCheck, ManageCheck, tables
<1>10. CASE UNCHANGED vars
  BY <1>3, <1>10 DEF vars
<1> QED  BY <1>3, <1>4, <1>5, <1>6, <1>7, <1>8, <1>9, <1>10 DEF Next

\* By itself neither kickMember nor leave removes the owner: his membership goes
\* only to a request that read the community when somebody else owned it.
THEOREM Seat == ASSUME Setting PROVE Spec => OwnerKeepsSeat
<1>1. Init => Inv
  BY InitInv
<1>2. Inv /\ [Next]_vars => Inv'
  BY NextInv
<1>3. Inv /\ [Next]_vars => [OwnerStays]_vars
  BY StepOwner
<1> QED  BY <1>1, <1>2, <1>3, PTL DEF Spec, OwnerKeepsSeat

-----------------------------------------------------------------------------
(* Who manages.  A join assigns one role of the name Member only, and a    *)
(* new membership has no assignments of an earlier one, as these went with *)
(* it.                                                                     *)

LEMMA StepPower ==
  ASSUME Setting, Inv, [Next]_vars
  PROVE PowerGiven
<1> SUFFICES ASSUME NEW u \in User, Manages(u)', ~Manages(u),
                    ~(owner' = u /\ owner # u)
             PROVE \/ \E r \in Req : req[r].pc = "assign" /\ req[r].row.user = u
                   \/ /\ \E x \in CalledMember \cap Managing : FindRole(x)
                      /\ \E r \in Req : req[r].pc = "join.add" /\ req[r].who = u
  BY DEF PowerGiven
<1>1. HoldsPower(u)' /\ ~HoldsPower(u)
  BY DEF Manages, Exists
<1>2. PICK row \in member', x \in Managing : row.user = u /\ <<row, x>> \in assigned'
  BY <1>1 DEF HoldsPower, RowsOf
<1>3. <<row, x>> \notin assigned
  BY <1>1, <1>2 DEF HoldsPower, RowsOf, Inv, TablesOK, RolesAtHome
<1>4. ASSUME NEW v \in User, Create(v) PROVE FALSE
  <2>1. u = v /\ owner' = v
    BY <1>2, <1>4 DEF Create
  <2> QED  BY <1>4, <2>1 DEF Create, Exists, Setting
<1>5. ASSUME NEW r \in Req, JoinAdd(r)
      PROVE /\ x \in CalledMember \cap Managing /\ FindRole(x)
            /\ req[r].pc = "join.add" /\ req[r].who = u
  <2> DEFINE new == [user |-> req[r].who, at |-> joins + 1]
  <2>1. PICK given \in OneOf(DefaultRole) : assigned' = assigned \cup ({new} \X given)
    BY <1>2, <1>3, <1>5 DEF JoinAdd
  <2>2. row = new /\ x \in given
    BY <1>2, <1>3, <2>1
  <2>3. x \in DefaultRole
    BY <2>2 DEF OneOf
  <2>4. row.user = req[r].who
    BY <2>2
  <2> QED  BY <1>2, <1>5, <2>3, <2>4 DEF DefaultRole, JoinAdd
<1>6. ASSUME NEW r \in Req, Assign(r) PROVE req[r].pc = "assign" /\ req[r].row.user = u
  BY <1>2, <1>3, <1>6 DEF Assign
<1>7. ASSUME NEW r \in Req, Proceed(r)
      PROVE assigned' \subseteq assigned \/ JoinAdd(r) \/ Assign(r)
  BY <1>7 DEF Proceed, JoinMember, RemoveMember, DeleteCommunity, DropAll, FindBoth,
              Unassign, CreateRole, DeleteRole, AccountCommit, tables
<1>8. ASSUME NEW r \in Req, NEW v \in User, Arrive(r, v) PROVE UNCHANGED assigned
  BY <1>8 DEF Arrive, JoinCheck, LeaveCheck, DeleteCheck, AccountPlan, KickCheck,
              RoleCheck, ManageCheck, tables
<1>9. CASE UNCHANGED vars
  BY <1>2, <1>3, <1>9 DEF vars
<1> QED  BY <1>2, <1>3, <1>4, <1>5, <1>6, <1>7, <1>8, <1>9 DEF Next

\* Nobody comes to manage the community but by creating it, by inheriting it,
\* by an assignment addressed to him, or by joining while a role that manages is
\* called Member: never through a role that he held before he left.
THEOREM Power == ASSUME Setting PROVE Spec => PowerIsGiven
<1>1. Init => Inv
  BY InitInv
<1>2. Inv /\ [Next]_vars => Inv'
  BY NextInv
<1>3. Inv /\ [Next]_vars => [PowerGiven]_vars
  BY StepPower
<1> QED  BY <1>1, <1>2, <1>3, PTL DEF Spec, PowerIsGiven

-----------------------------------------------------------------------------
(* What the instances make of the lists.                                   *)

LEMMA LiveBounds ==
  PageSize \in Nat /\ MaxPosts \in Nat /\ MaxRooms \in Nat /\ MaxUsers \in Nat /\ MaxTokens \in Nat
  BY BoundsAssumption

\* Each instance has operators of its own for the lists.
LEMMA Same ==
  /\ \A S : Dm!Cardinality(S) = Cardinality(S)
  /\ \A S : Ch!InOrder(S) = InOrder(S) /\ Ms!InOrder(S) = InOrder(S)
  /\ \A list, id : Ms!Without(list, id) = Without(list, id)
  /\ \A s : (Ch!IsInjective(s) <=> IsInjective(s)) /\ (Ms!IsInjective(s) <=> IsInjective(s))
  <1>1. \A S : Ch!Cardinality(S) = Cardinality(S)
    BY DEF Ch!Cardinality, Cardinality
  <1>2. \A S : Ms!Cardinality(S) = Cardinality(S)
    BY DEF Ms!Cardinality, Cardinality
  <1>3. \A S : Ch!InOrder(S) = InOrder(S)
    BY <1>1 DEF Ch!InOrder, InOrder
  <1>4. \A S : Ms!InOrder(S) = InOrder(S)
    BY <1>2 DEF Ms!InOrder, InOrder
  <1>5. \A list, id : Ms!Without(list, id) = Without(list, id)
    BY <1>4 DEF Ms!Without, Without
  <1>6. \A s : Ch!IsInjective(s) <=> IsInjective(s)
    BY DEF Ch!IsInjective, IsInjective
  <1>7. \A s : Ms!IsInjective(s) <=> IsInjective(s)
    BY DEF Ms!IsInjective, IsInjective
  <1>8. \A S : Dm!Cardinality(S) = Cardinality(S)
    BY DEF Dm!Cardinality, Cardinality
  <1> QED
    BY <1>8, <1>3, <1>4, <1>5, <1>6, <1>7

LEMMA ChOrdered ==
  ASSUME NEW S \in SUBSET Nat, IsFiniteSet(S)
  PROVE  Ch!InOrder(S) \in Seq(S) /\ Ch!IsInjective(Ch!InOrder(S))
  BY Ordered, Same

LEMMA MsOrdered ==
  ASSUME NEW S \in SUBSET Nat, IsFiniteSet(S)
  PROVE  Ms!InOrder(S) \in Seq(S) /\ Ms!IsInjective(Ms!InOrder(S))
  BY Ordered, Same

LEMMA MsLacking ==
  ASSUME NEW M, NEW list \in Seq(M), NEW id
  PROVE  LET rest == Ms!Without(list, id) IN
         /\ rest \in Seq(M)
         /\ \A i \in DOMAIN rest : \E j \in DOMAIN list : list[j] # id /\ rest[i] = list[j]
         /\ \A j \in DOMAIN list : list[j] # id => \E i \in DOMAIN rest : rest[i] = list[j]
         /\ Ms!IsInjective(list) => Ms!IsInjective(rest)
  BY Lacking, Same

-----------------------------------------------------------------------------
(* Channels: a history replaces the list only before anything is due to the *)
(* panel.                                                                  *)

ChPanel == [chan : Spot \cup {Ch!NoChannel}, state : {"closed", "loading", "ready", "failed"},
          list : Seq(Ch!Message)]

\* Whatever names a message names one that is stored, of the channel it says.
ChOf(l, id, c) == id \in DOMAIN l /\ l[id] = c

\* The panel waits for one history, that of the channel it shows, and for none once
\* it is ready; what it is due was sent to this channel.
ChKnown ==
  /\ s10 \in ChPanel
  /\ \A i \in DOMAIN s10.list : s10.list[i] \in DOMAIN s8
  /\ \A i \in DOMAIN s5 : ChOf(s8, s5[i].id, s5[i].chan)
  /\ \A p \in Poster : s9[p].pc = "emit" => ChOf(s8, s9[p].id, s9[p].chan)
  /\ \A f \in s11 : f.chan = s10.chan /\ \A id \in f.items : ChOf(s8, id, f.chan)
  /\ \A f, g \in s11 : f = g
  /\ s10.state = "ready" => s11 = {}
  /\ s12 # {} => s10.state = "ready"
  /\ \A id \in s12 : ChOf(s8, id, s10.chan)

ChInv == Ch!TypeOK /\ Ch!ListedOnce /\ Ch!RightChannel /\ Ch!LiveOnceReady /\ ChKnown

ChAskRow == [what : {"join", "leave"}, room : Spot]

LEMMA ChKinds ==
  /\ Ch!Idle \in Ch!Posting /\ Ch!Idle.pc = "idle"
  /\ \A x \in Ch!Posting : x.pc \in {"idle", "create", "emit"}
  /\ \A x \in Ch!Posting : x.pc \in {"create", "emit"} => x.chan \in Spot
  /\ \A x \in Ch!Posting : x.pc = "emit" => x.id \in Ch!Message
  /\ \A c \in Spot : [pc |-> "create", chan |-> c] \in Ch!Posting
  /\ \A c \in Spot, i \in Ch!Message : [pc |-> "emit", chan |-> c, id |-> i] \in Ch!Posting
  <1>1. Ch!Idle \in Ch!Posting /\ Ch!Idle.pc = "idle"
    BY DEF Ch!Idle, Ch!Posting
  <1>2. \A c \in Spot : [pc |-> "create", chan |-> c] \in Ch!Posting
    BY DEF Ch!Posting
  <1>3. \A c \in Spot, i \in Ch!Message : [pc |-> "emit", chan |-> c, id |-> i] \in Ch!Posting
    BY DEF Ch!Posting
  <1>4. \A x \in [pc : {"create"}, chan : Spot] : x.pc = "create" /\ x.chan \in Spot
    OBVIOUS
  <1>5. \A x \in [pc : {"emit"}, chan : Spot, id : Ch!Message] :
          x.pc = "emit" /\ x.chan \in Spot /\ x.id \in Ch!Message
    OBVIOUS
  <1> QED
    BY <1>1, <1>2, <1>3, <1>4, <1>5 DEF Ch!Posting

LEMMA ChPanels ==
  ASSUME NEW x \in ChPanel, NEW st \in {"closed", "loading", "ready", "failed"}, NEW l \in Seq(Ch!Message)
  PROVE  /\ [x EXCEPT !.state = st, !.list = l] \in ChPanel
         /\ [x EXCEPT !.state = st, !.list = l].chan = x.chan
         /\ [x EXCEPT !.state = st, !.list = l].state = st
         /\ [x EXCEPT !.state = st, !.list = l].list = l
         /\ [x EXCEPT !.state = st] \in ChPanel
         /\ [x EXCEPT !.state = st].chan = x.chan
         /\ [x EXCEPT !.state = st].state = st
         /\ [x EXCEPT !.state = st].list = x.list
         /\ [x EXCEPT !.list = l] \in ChPanel
         /\ [x EXCEPT !.list = l].chan = x.chan
         /\ [x EXCEPT !.list = l].state = x.state
         /\ [x EXCEPT !.list = l].list = l
  <1>1. /\ [x EXCEPT !.state = st, !.list = l] \in ChPanel
        /\ [x EXCEPT !.state = st, !.list = l].chan = x.chan
        /\ [x EXCEPT !.state = st, !.list = l].state = st
        /\ [x EXCEPT !.state = st, !.list = l].list = l
    BY DEF ChPanel
  <1>2. /\ [x EXCEPT !.state = st] \in ChPanel
        /\ [x EXCEPT !.state = st].chan = x.chan
        /\ [x EXCEPT !.state = st].state = st
        /\ [x EXCEPT !.state = st].list = x.list
    BY DEF ChPanel
  <1>3. /\ [x EXCEPT !.list = l] \in ChPanel
        /\ [x EXCEPT !.list = l].chan = x.chan
        /\ [x EXCEPT !.list = l].state = x.state
        /\ [x EXCEPT !.list = l].list = l
    BY DEF ChPanel
  <1> QED
    BY <1>1, <1>2, <1>3

LEMMA ChFetched ==
  ASSUME NEW f \in Ch!Fetch, NEW ids \in SUBSET Ch!Message
  PROVE  /\ [f EXCEPT !.pc = "allowed"] \in Ch!Fetch
         /\ [f EXCEPT !.pc = "allowed"].chan = f.chan
         /\ [f EXCEPT !.pc = "allowed"].items = f.items
         /\ [f EXCEPT !.pc = "answered", !.items = ids] \in Ch!Fetch
         /\ [f EXCEPT !.pc = "answered", !.items = ids].chan = f.chan
         /\ [f EXCEPT !.pc = "answered", !.items = ids].items = ids
  <1>1. /\ [f EXCEPT !.pc = "allowed"] \in Ch!Fetch
        /\ [f EXCEPT !.pc = "allowed"].chan = f.chan
        /\ [f EXCEPT !.pc = "allowed"].items = f.items
    BY DEF Ch!Fetch
  <1>2. /\ [f EXCEPT !.pc = "answered", !.items = ids] \in Ch!Fetch
        /\ [f EXCEPT !.pc = "answered", !.items = ids].chan = f.chan
        /\ [f EXCEPT !.pc = "answered", !.items = ids].items = ids
    BY DEF Ch!Fetch
  <1> QED
    BY <1>1, <1>2

\* What the types say of the page comes from Known.
LEMMA ChTypings ==
  ASSUME s10 \in ChPanel
  PROVE  /\ s10.chan \in Spot \cup {Ch!NoChannel} /\ s10.list \in Seq(Ch!Message)
         /\ s10.state \in {"closed", "loading", "ready", "failed"}
         /\ DOMAIN s10.list = 1..Len(s10.list)
  BY DEF ChPanel

LEMMA ChTypingsNext ==
  ASSUME s10' \in ChPanel
  PROVE  /\ s10'.chan \in Spot \cup {Ch!NoChannel} /\ s10'.list \in Seq(Ch!Message)
         /\ s10'.state \in {"closed", "loading", "ready", "failed"}
         /\ DOMAIN s10'.list = 1..Len(s10'.list)
  BY DEF ChPanel

LEMMA ChInitInv == ASSUME Ch!Init PROVE ChInv
  <1>1. Ch!LinkTypeOK(Ch!Event) /\ s5 = <<>> /\ DOMAIN s5 = {}
    BY DEF Ch!Init, Ch!LinkInit, Ch!LinkTypeOK
  <1>2. s10 \in ChPanel /\ s10.list = <<>> /\ s10.state = "closed"
    BY DEF Ch!Init, ChPanel, Ch!Closed
  <1>3. \A p \in Poster : s9[p] = Ch!Idle
    BY DEF Ch!Init
  <1>4. s8 = <<>> /\ s11 = {} /\ s12 = {} /\ s6 = TRUE
    BY DEF Ch!Init
  <1>5. s8 \in Seq(Spot) /\ Len(s8) <= 1
    BY <1>4
  <1>6. s9 \in [Poster -> Ch!Posting] /\ s7 \in [Spot -> {"unmade", "here", "gone"}]
    BY ChKinds DEF Ch!Init
  <1>7. Ch!TypeOK
    BY <1>1, <1>2, <1>4, <1>5, <1>6, ChTypings DEF Ch!TypeOK
  <1>8. DOMAIN s10.list = {}
    BY <1>2
  <1>9. ChKnown
    BY <1>1, <1>2, <1>3, <1>4, <1>8, ChKinds DEF ChKnown
  <1> QED
    BY <1>2, <1>4, <1>7, <1>8, <1>9 DEF ChInv, Ch!ListedOnce, Ch!IsInjective,
       Ch!RightChannel, Ch!LiveOnceReady

\* A step of the community or of a request that nothing is sent by or stored.
LEMMA ChAside ==
  ASSUME ChInv, UNCHANGED <<Ch!link, s8, Ch!page>>, s6' \in BOOLEAN,
         s7' \in [Spot -> {"unmade", "here", "gone"}],
         s9' \in [Poster -> Ch!Posting],
         \A p \in Poster : s9'[p] = s9[p] \/ s9'[p].pc # "emit"
  PROVE  ChInv'
  <1>1. UNCHANGED <<s1, s2, s3, s4, s5, s8, s10, s11, s12>>
    BY DEF Ch!link, Ch!page
  <1>2. Ch!TypeOK'
    BY <1>1 DEF ChInv, Ch!TypeOK, Ch!LinkTypeOK
  <1>3. ChKnown'
    BY <1>1 DEF ChInv, ChKnown, ChOf
  <1> QED
    BY <1>1, <1>2, <1>3 DEF ChInv, Ch!ListedOnce, Ch!RightChannel, Ch!LiveOnceReady

\* The socket, whatever it does of its own, takes nothing from the page but what was
\* under way to it, and then the page is due nothing.
LEMMA ChWireKeeps ==
  ASSUME Ch!TypeOK, Ch!Wire
  PROVE  /\ Ch!LinkTypeOK(Ch!Event)'
         /\ (s5' = s5 /\ s12' = s12) \/ (s5' = <<>> /\ s12' = {})
  <1>0. Ch!LinkTypeOK(Ch!Event) /\ s2 \in Seq(ChAskRow)
    BY DEF Ch!TypeOK, Ch!LinkTypeOK, ChAskRow
  <1>1. CASE Ch!Handle /\ UNCHANGED s12
    <2>1. Head(s2) \in ChAskRow /\ Tail(s2) \in Seq(ChAskRow)
      BY <1>0, <1>1, Tailed DEF Ch!Handle
    <2> QED
      BY <1>0, <1>1, <2>1 DEF Ch!Handle, Ch!LinkTypeOK, ChAskRow
  <1>2. CASE (Ch!Reconnect \/ \E c \in Spot : Ch!AnswerJoin(c, Ch!MayRead(c))) /\ UNCHANGED s12
    BY <1>0, <1>2 DEF Ch!Reconnect, Ch!AnswerJoin, Ch!LinkTypeOK, ChAskRow
  <1>3. CASE Ch!Drop /\ s12' = {}
    <2>1. <<>> \in Seq(ChAskRow) /\ <<>> \in Seq(Ch!Event)
      BY Nothing
    <2> QED
      BY <1>3, <2>1 DEF Ch!Drop, Ch!LinkTypeOK, ChAskRow
  <1> QED
    BY <1>1, <1>2, <1>3 DEF Ch!Wire

\* What is said to the server by the panel.
LEMMA ChSaid ==
  ASSUME Ch!LinkTypeOK(Ch!Event), NEW asks \in Seq(ChAskRow), Ch!Say(asks)
  PROVE  Ch!LinkTypeOK(Ch!Event)' /\ s5' = s5
  <1>1. s2 \in Seq(ChAskRow)
    BY DEF Ch!LinkTypeOK, ChAskRow
  <1>2. s2' = s2 \o asks /\ s2' \in Seq(ChAskRow)
    BY <1>1, Concatenated DEF Ch!Say
  <1> QED
    BY <1>2 DEF Ch!Say, Ch!LinkTypeOK, ChAskRow

\* A history in order is a list of its messages, each of them once.
LEMMA ChHistories ==
  ASSUME NEW ids \in SUBSET Ch!Message
  PROVE  /\ Ch!InOrder(ids) \in Seq(Ch!Message) /\ Ch!IsInjective(Ch!InOrder(ids))
         /\ \A i \in DOMAIN Ch!InOrder(ids) : Ch!InOrder(ids)[i] \in ids
  <1>1. IsFiniteSet(Ch!Message) /\ Ch!Message \subseteq Nat
    <2>1. 1 \in Int /\ 1 \in Int
      OBVIOUS
    <2>2. IsFiniteSet(1..1)
      BY <2>1, FS_Interval
    <2> QED
      BY <2>2 DEF Ch!Message
  <1>2. IsFiniteSet(ids) /\ ids \in SUBSET Nat
    BY <1>1, FS_Subset
  <1>3. Ch!InOrder(ids) \in Seq(ids) /\ Ch!IsInjective(Ch!InOrder(ids))
    BY <1>2, ChOrdered
  <1> HIDE DEF Ch!InOrder
  <1> QED
    BY <1>3

LEMMA ChNextInv == ASSUME ChInv, Ch!Next PROVE ChInv'
  <1>0. /\ Ch!LinkTypeOK(Ch!Event) /\ s10 \in ChPanel /\ s8 \in Seq(Spot)
        /\ s9 \in [Poster -> Ch!Posting]
        /\ s5 \in Seq(Ch!Event) /\ s11 \in SUBSET Ch!Fetch /\ s12 \in SUBSET Ch!Message
        /\ Len(s8) <= 1 /\ Len(s8) \in Nat /\ DOMAIN s8 = 1..Len(s8)
        /\ s10.list \in Seq(Ch!Message) /\ DOMAIN s10.list = 1..Len(s10.list)
    BY ChTypings DEF ChInv, Ch!TypeOK, Ch!LinkTypeOK, ChKnown
  <1>1. ASSUME Ch!Membership \/ \E c \in Spot : Ch!CreateChannel(c) \/ Ch!DeleteChannel(c)
        PROVE  ChInv'
    <2>1. UNCHANGED <<Ch!link, s8, Ch!page, s9>> /\ s6' \in BOOLEAN
      BY <1>1 DEF Ch!Membership, Ch!CreateChannel, Ch!DeleteChannel, ChInv, Ch!TypeOK
    <2>2. s7' \in [Spot -> {"unmade", "here", "gone"}]
      BY <1>1 DEF Ch!Membership, Ch!CreateChannel, Ch!DeleteChannel, ChInv, Ch!TypeOK
    <2> QED
      BY <1>0, <2>1, <2>2, ChAside
  <1>2. ASSUME NEW p \in Poster, NEW c \in Spot, Ch!PostCheck(p, c)
        PROVE  ChInv'
    <2>1. /\ s9' = [s9 EXCEPT ![p] = [pc |-> "create", chan |-> c]]
          /\ UNCHANGED <<Ch!link, s8, Ch!page, s6, s7>>
      BY <1>2 DEF Ch!PostCheck, Ch!Go, Ch!server
    <2>2. s9' \in [Poster -> Ch!Posting]
      BY <1>0, <2>1, ChKinds
    <2>3. \A q \in Poster : s9'[q] = s9[q] \/ s9'[q].pc # "emit"
      BY <1>0, <2>1
    <2> QED
      BY <2>1, <2>2, <2>3, ChAside DEF ChInv, Ch!TypeOK
  <1>3. ASSUME NEW p \in Poster, Ch!PostCreate(p)
        PROVE  ChInv'
    <2> DEFINE c == s9[p].chan
    <2>1. s9[p].pc = "create" /\ c \in Spot /\ Len(s8) < 1
      BY <1>0, <1>3, ChKinds DEF Ch!PostCreate
    <2>2. UNCHANGED <<Ch!link, Ch!page, s6, s7>>
      BY <1>3 DEF Ch!PostCreate
    <2>3. CASE s7[c] # "here"
      <3>1. s9' = [s9 EXCEPT ![p] = Ch!Idle] /\ UNCHANGED s8
        BY <1>3, <2>3 DEF Ch!PostCreate, Ch!Done, Ch!Go
      <3>2. /\ s9' \in [Poster -> Ch!Posting]
            /\ \A q \in Poster : s9'[q] = s9[q] \/ s9'[q].pc # "emit"
        BY <1>0, <3>1, ChKinds
      <3> QED
        BY <2>2, <3>1, <3>2, ChAside DEF ChInv, Ch!TypeOK
    <2>4. CASE s7[c] = "here"
      <3> DEFINE n == Len(s8) + 1
                 row == [pc |-> "emit", chan |-> c, id |-> n]
      <3>1. s8' = Append(s8, c) /\ s9' = [s9 EXCEPT ![p] = row]
        BY <1>3, <2>4 DEF Ch!PostCreate, Ch!Go
      <3>2. /\ s8' \in Seq(Spot) /\ Len(s8') = n /\ DOMAIN s8' = DOMAIN s8 \cup {n}
            /\ \A i \in DOMAIN s8 : s8'[i] = s8[i]
            /\ s8'[n] = c
        BY <1>0, <2>1, <3>1, Longer
      <3>3. n \in Ch!Message /\ n <= 1
        BY <1>0, <2>1 DEF Ch!Message
      <3>4. row \in Ch!Posting /\ row.id = n /\ row.chan = c
        BY <2>1, <3>3, ChKinds
      <3>5. \A id, d : ChOf(s8, id, d) => ChOf(s8', id, d)
        BY <3>2 DEF ChOf
      <3>6. ChOf(s8', n, c)
        BY <3>2 DEF ChOf
      <3> HIDE DEF row, n
      <3>7. /\ s9' \in [Poster -> Ch!Posting] /\ s9'[p] = row
            /\ \A q \in Poster \ {p} : s9'[q] = s9[q]
        BY <1>0, <3>1, <3>4
      <3>8. UNCHANGED <<s1, s2, s3, s4, s5, s10, s11, s12>>
        BY <2>2 DEF Ch!link, Ch!page
      <3>9. Ch!TypeOK'
        BY <2>2, <3>2, <3>3, <3>7, <3>8 DEF ChInv, Ch!TypeOK, Ch!LinkTypeOK
      <3>10. \A q \in Poster : s9'[q].pc = "emit" => ChOf(s8', s9'[q].id, s9'[q].chan)
        BY <3>4, <3>5, <3>6, <3>7 DEF ChInv, ChKnown
      <3>11. ChKnown'
        BY <3>2, <3>5, <3>8, <3>10 DEF ChInv, ChKnown
      <3>12. Ch!ListedOnce' /\ Ch!LiveOnceReady'
        BY <3>8 DEF ChInv, Ch!ListedOnce, Ch!LiveOnceReady
      <3>13. Ch!RightChannel'
        BY <3>2, <3>8 DEF ChInv, ChKnown, Ch!RightChannel
      <3> QED
        BY <3>9, <3>11, <3>12, <3>13 DEF ChInv
    <2> QED
      BY <2>3, <2>4
  <1>4. ASSUME NEW p \in Poster, Ch!PostEmit(p)
        PROVE  ChInv'
    <2> DEFINE c == s9[p].chan
               id == s9[p].id
               e == [chan |-> c, id |-> id]
    <2>1. c \in Spot /\ id \in Ch!Message /\ ChOf(s8, id, c)
      BY <1>0, <1>4, ChKinds DEF Ch!PostEmit, ChInv, ChKnown
    <2>2. /\ s9' = [s9 EXCEPT ![p] = Ch!Idle]
          /\ s5' = IF c \in s4 THEN Append(s5, e) ELSE s5
          /\ s12' = IF Ch!Ready(c) THEN s12 \cup {id} ELSE s12
          /\ UNCHANGED <<s1, s2, s3, s4, s6, s7, s8, s10, s11>>
      BY <1>4 DEF Ch!PostEmit, Ch!Emit, Ch!Done, Ch!Go, Ch!server
    <2>3. e \in Ch!Event /\ e.chan = c /\ e.id = id
      BY <2>1 DEF Ch!Event
    <2> HIDE DEF e
    <2>4. /\ s5' \in Seq(Ch!Event)
          /\ \A i \in DOMAIN s5 : i \in DOMAIN s5' /\ s5'[i] = s5[i]
          /\ \A i \in DOMAIN s5' : s5'[i] = e \/ (i \in DOMAIN s5 /\ s5'[i] = s5[i])
          /\ c \in s4 => \E i \in DOMAIN s5' : s5'[i] = e
      <3>1. CASE c \in s4
        <4>1. s5' = Append(s5, e)
          BY <2>2, <3>1
        <4> QED
          BY <1>0, <2>3, <4>1, Longer
      <3>2. CASE c \notin s4
        BY <1>0, <2>2, <3>2
      <3> QED
        BY <3>1, <3>2
    <2>5. s12' = s12 \/ (s12' = s12 \cup {id} /\ Ch!Ready(c))
      BY <2>2
    <2> HIDE DEF c, id
    <2>6. s9' \in [Poster -> Ch!Posting] /\ \A q \in Poster : s9'[q] = s9[q] \/ s9'[q].pc # "emit"
      BY <1>0, <2>2, ChKinds
    <2>7. s12' \in SUBSET Ch!Message
      BY <1>0, <2>1, <2>5
    <2>8. Ch!TypeOK'
      BY <2>2, <2>4, <2>6, <2>7 DEF ChInv, Ch!TypeOK, Ch!LinkTypeOK
    <2>9. \A i \in DOMAIN s5' : ChOf(s8', s5'[i].id, s5'[i].chan)
      BY <2>1, <2>2, <2>3, <2>4 DEF ChInv, ChKnown
    <2>10. s12' # {} => s10'.state = "ready"
      BY <2>2, <2>5 DEF ChInv, ChKnown, Ch!Ready
    <2>11. \A d \in s12' : ChOf(s8', d, s10'.chan)
      BY <2>1, <2>2, <2>5 DEF ChInv, ChKnown, Ch!Ready
    <2>12. ChKnown'
      BY <2>2, <2>6, <2>9, <2>10, <2>11 DEF ChInv, ChKnown
    <2>13. Ch!LiveOnceReady'
      <3> SUFFICES ASSUME NEW d \in s12'
                   PROVE  Ch!Contains(s10.list, d) \/ \E i \in DOMAIN s5' : s5'[i].id = d
        BY <2>2 DEF Ch!LiveOnceReady
      <3>1. CASE d \in s12
        BY <2>4, <3>1 DEF ChInv, Ch!LiveOnceReady
      <3>2. CASE d = id /\ Ch!Ready(c)
        BY <2>3, <2>4, <3>2 DEF Ch!Ready
      <3> QED
        BY <2>5, <3>1, <3>2
    <2> QED
      BY <2>2, <2>8, <2>12, <2>13 DEF ChInv, Ch!ListedOnce, Ch!RightChannel
  <1>5. ASSUME NEW c \in Spot, Ch!Open(c)
        PROVE  ChInv'
    <2>1. /\ s10' = [chan |-> c, state |-> "loading", list |-> s10.list]
          /\ s11' = {Ch!Asked(c)} /\ s12' = {}
          /\ UNCHANGED <<s6, s7, s8, s9>>
      BY <1>5 DEF Ch!Open, Ch!SwitchState, Ch!Cancel, Ch!server
    <2>2. s10' \in ChPanel /\ s10'.chan = c /\ s10'.state = "loading" /\ s10'.list = s10.list
      BY <1>0, <2>1 DEF ChPanel
    <2>3. Ch!LinkTypeOK(Ch!Event)' /\ s5' = s5
      <3> DEFINE asks == (IF s10.chan = Ch!NoChannel THEN <<>> ELSE <<Ch!Ask("leave", s10.chan)>>)
                           \o <<Ch!Ask("join", c)>>
      <3>1. Ch!Say(asks)
        BY <1>5 DEF Ch!Open
      <3>2. s10.chan # Ch!NoChannel => <<Ch!Ask("leave", s10.chan)>> \in Seq(ChAskRow)
        BY <1>0 DEF Ch!Ask, ChAskRow, ChPanel
      <3>3. <<Ch!Ask("join", c)>> \in Seq(ChAskRow)
        BY DEF Ch!Ask, ChAskRow
      <3>4. (IF s10.chan = Ch!NoChannel THEN <<>> ELSE <<Ch!Ask("leave", s10.chan)>>) \in Seq(ChAskRow)
        BY <3>2, Nothing
      <3>5. asks \in Seq(ChAskRow)
        BY <3>3, <3>4, Concatenated
      <3> HIDE DEF asks
      <3> QED
        BY <1>0, <3>1, <3>5, ChSaid
    <2>4. /\ Ch!Asked(c) \in Ch!Fetch /\ Ch!Asked(c).chan = c /\ Ch!Asked(c).items = {}
      BY DEF Ch!Asked, Ch!Fetch
    <2>5. Ch!TypeOK'
      BY <2>1, <2>2, <2>3, <2>4, ChTypingsNext DEF ChInv, Ch!TypeOK
    <2>6. ChKnown'
      BY <2>1, <2>2, <2>3, <2>4 DEF ChInv, ChKnown
    <2> QED
      BY <2>1, <2>2, <2>5, <2>6 DEF ChInv, Ch!ListedOnce, Ch!RightChannel, Ch!LiveOnceReady
  <1>6. ASSUME Ch!Close
        PROVE  ChInv'
    <2>1. s10' = Ch!Closed /\ s11' = {} /\ s12' = {} /\ UNCHANGED <<s6, s7, s8, s9>>
      BY <1>6 DEF Ch!Close, Ch!server
    <2>2. s10' \in ChPanel /\ s10'.state = "closed" /\ s10'.list = <<>>
      BY <2>1, Nothing DEF ChPanel, Ch!Closed
    <2>3. Ch!LinkTypeOK(Ch!Event)' /\ s5' = s5
      <3>1. <<Ch!Ask("leave", s10.chan)>> \in Seq(ChAskRow)
        BY <1>0, <1>6 DEF Ch!Close, Ch!Ask, ChAskRow, ChPanel
      <3> QED
        BY <1>0, <1>6, <3>1, ChSaid DEF Ch!Close
    <2>4. Ch!TypeOK'
      BY <2>1, <2>2, <2>3, ChTypingsNext DEF ChInv, Ch!TypeOK
    <2>5. ChKnown'
      BY <2>1, <2>2, <2>3 DEF ChInv, ChKnown
    <2> QED
      BY <2>1, <2>2, <2>4, <2>5 DEF ChInv, Ch!ListedOnce, Ch!IsInjective, Ch!RightChannel,
         Ch!LiveOnceReady
  <1>7. ASSUME NEW f \in s11, Ch!FetchCheck(f) \/ Ch!FetchRead(f)
        PROVE  ChInv'
    <2>1. f \in Ch!Fetch /\ f.chan = s10.chan /\ \A id \in f.items : ChOf(s8, id, f.chan)
      BY <1>0 DEF ChInv, ChKnown
    <2>2. Ch!Stored(f.chan) \in SUBSET Ch!Message /\ \A id \in Ch!Stored(f.chan) : ChOf(s8, id, f.chan)
      <3>1. \A id \in 1..Len(s8) : id \in Ch!Message
        BY <1>0 DEF Ch!Message
      <3> QED
        BY <1>0, <3>1 DEF Ch!Stored, ChOf
    <2>3. PICK g \in Ch!Fetch : /\ s11' = (s11 \ {f}) \cup {g}
                                /\ g.chan = f.chan /\ \A id \in g.items : ChOf(s8, id, g.chan)
      <3>1. CASE Ch!FetchCheck(f)
        BY <2>1, <2>2, <3>1, ChFetched DEF Ch!FetchCheck
      <3>2. CASE Ch!FetchRead(f)
        <4> DEFINE g == [f EXCEPT !.pc = "answered", !.items = Ch!Stored(f.chan)]
        <4>1. g \in Ch!Fetch /\ g.chan = f.chan /\ g.items = Ch!Stored(f.chan)
          BY <2>1, <2>2, ChFetched
        <4>2. s11' = (s11 \ {f}) \cup {g}
          BY <3>2 DEF Ch!FetchRead
        <4> HIDE DEF g
        <4> QED
          BY <2>1, <2>2, <4>1, <4>2
      <3> QED
        BY <1>7, <3>1, <3>2
    <2>4. s11' = {g}
      BY <2>3 DEF ChInv, ChKnown
    <2>5. UNCHANGED <<Ch!link, s6, s7, s8, s9, s10, s12>>
      BY <1>7 DEF Ch!FetchCheck, Ch!FetchRead, Ch!server
    <2>6. Ch!TypeOK'
      BY <2>4, <2>5 DEF ChInv, Ch!TypeOK, Ch!LinkTypeOK, Ch!link
    <2>7. s10.state # "ready"
      BY DEF ChInv, ChKnown
    <2>8. ChKnown'
      BY <2>1, <2>3, <2>4, <2>5, <2>7 DEF ChInv, ChKnown, Ch!link
    <2> QED
      BY <2>5, <2>6, <2>8 DEF ChInv, Ch!ListedOnce, Ch!RightChannel, Ch!LiveOnceReady,
         Ch!link
  <1>8. ASSUME NEW f \in s11, Ch!Install(f)
        PROVE  ChInv'
    <2>1. f \in Ch!Fetch /\ f.chan = s10.chan /\ \A id \in f.items : ChOf(s8, id, f.chan)
      BY <1>0 DEF ChInv, ChKnown
    <2>2. f.items \in SUBSET Ch!Message
      BY <2>1 DEF Ch!Fetch
    <2>3. s11' = {} /\ s12 = {} /\ UNCHANGED <<Ch!link, s6, s7, s8, s9, s12>>
      BY <1>8 DEF Ch!Install, ChInv, ChKnown, Ch!server
    <2>4. s10' = [s10 EXCEPT !.state = "ready", !.list = Ch!InOrder(f.items)]
      BY <1>8 DEF Ch!Install
    <2>5. /\ Ch!InOrder(f.items) \in Seq(Ch!Message) /\ Ch!IsInjective(Ch!InOrder(f.items))
          /\ \A i \in DOMAIN Ch!InOrder(f.items) : Ch!InOrder(f.items)[i] \in f.items
      BY <2>2, ChHistories
    <2> DEFINE l == Ch!InOrder(f.items)
    <2>6. s10' \in ChPanel /\ s10'.chan = s10.chan /\ s10'.list = l
      <3> HIDE DEF l
      <3>1. l \in Seq(Ch!Message) /\ s10' = [s10 EXCEPT !.state = "ready", !.list = l]
        BY <2>4, <2>5 DEF l
      <3> QED
        BY <1>0, <3>1 DEF ChPanel
    <2>7. Ch!TypeOK'
      BY <2>3, <2>6, ChTypingsNext DEF ChInv, Ch!TypeOK, Ch!LinkTypeOK, Ch!link
    <2>8. \A i \in DOMAIN s10'.list : ChOf(s8', s10'.list[i], s10'.chan)
      BY <2>1, <2>3, <2>5, <2>6
    <2>9. ChKnown'
      BY <2>3, <2>6, <2>8 DEF ChInv, ChKnown, Ch!link, ChOf
    <2>10. Ch!ListedOnce' /\ Ch!RightChannel' /\ Ch!LiveOnceReady'
      BY <2>3, <2>5, <2>6, <2>8 DEF Ch!ListedOnce, Ch!RightChannel, Ch!LiveOnceReady, ChOf
    <2> QED
      BY <2>7, <2>9, <2>10 DEF ChInv
  <1>9. ASSUME NEW f \in s11, Ch!FetchFail(f)
        PROVE  ChInv'
    <2>1. s11' = {} /\ s12 = {} /\ UNCHANGED <<Ch!link, s6, s7, s8, s9, s12>>
      BY <1>9 DEF Ch!FetchFail, ChInv, ChKnown, Ch!server
    <2>2. s10' = [s10 EXCEPT !.state = "failed"]
      BY <1>9 DEF Ch!FetchFail
    <2>3. s10' \in ChPanel /\ s10'.chan = s10.chan /\ s10'.list = s10.list /\ s10'.state = "failed"
      BY <1>0, <2>2, ChPanels
    <2>4. Ch!TypeOK'
      BY <2>1, <2>3, ChTypingsNext DEF ChInv, Ch!TypeOK, Ch!LinkTypeOK, Ch!link
    <2>5. ChKnown'
      BY <2>1, <2>3 DEF ChInv, ChKnown, Ch!link
    <2> QED
      BY <2>1, <2>3, <2>4, <2>5 DEF ChInv, Ch!ListedOnce, Ch!RightChannel, Ch!LiveOnceReady
  <1>10. ASSUME Ch!Receive
         PROVE  ChInv'
    <2> DEFINE e == Head(s5)
    <2>1. /\ s5 # <<>> /\ s5' = Tail(s5)
          /\ s10' = IF e.chan = s10.chan THEN [s10 EXCEPT !.list = Ch!Appended(e)] ELSE s10
          /\ UNCHANGED <<s1, s2, s3, s4, s6, s7, s8, s9, s11, s12>>
      BY <1>10 DEF Ch!Receive, Ch!Take, Ch!server
    <2>2. /\ s5' \in Seq(Ch!Event) /\ e \in Ch!Event /\ 1 \in DOMAIN s5 /\ e = s5[1]
          /\ \A i \in DOMAIN s5' : \E j \in DOMAIN s5 : s5'[i] = s5[j]
      BY <1>0, <2>1, Tailed
    <2>3. \A i \in DOMAIN s5 : i # 1 => \E j \in DOMAIN s5' : s5'[j] = s5[i]
      BY <1>0, <2>1, Remains
    <2>4. e.id \in Ch!Message /\ ChOf(s8, e.id, e.chan)
      BY <2>2 DEF Ch!Event, ChInv, ChKnown
    <2> HIDE DEF e
    <2>5. /\ Ch!Appended(e) \in Seq(Ch!Message) /\ Ch!IsInjective(Ch!Appended(e))
          /\ Ch!Contains(Ch!Appended(e), e.id)
          /\ \A i \in DOMAIN Ch!Appended(e) : Ch!Appended(e)[i] = e.id \/ \E j \in DOMAIN s10.list : Ch!Appended(e)[i] = s10.list[j]
          /\ \A j \in DOMAIN s10.list : Ch!Contains(Ch!Appended(e), s10.list[j])
      <3>0. Ch!IsInjective(s10.list)
        BY DEF ChInv, Ch!ListedOnce
      <3>1. CASE Ch!Contains(s10.list, e.id)
        <4>1. Ch!Appended(e) = s10.list
          BY <3>1 DEF Ch!Appended
        <4> QED
          BY <1>0, <3>0, <3>1, <4>1 DEF Ch!Contains
      <3>2. CASE ~Ch!Contains(s10.list, e.id)
        <4>1. Ch!Appended(e) = Append(s10.list, e.id)
          BY <3>2 DEF Ch!Appended
        <4>2. /\ Append(s10.list, e.id) \in Seq(Ch!Message)
              /\ DOMAIN Append(s10.list, e.id) = DOMAIN s10.list \cup {Len(s10.list) + 1}
              /\ \A i \in DOMAIN s10.list : Append(s10.list, e.id)[i] = s10.list[i]
              /\ Append(s10.list, e.id)[Len(s10.list) + 1] = e.id
          BY <1>0, <2>4, Longer
        <4>3. \A i \in DOMAIN s10.list : s10.list[i] # e.id
          BY <1>0, <3>2 DEF Ch!Contains
        <4> DEFINE l == Append(s10.list, e.id)
                   n == Len(s10.list) + 1
        <4> HIDE DEF l, n
        <4>4. l \in Seq(Ch!Message) /\ DOMAIN l = DOMAIN s10.list \cup {n} /\ DOMAIN l = 1..Len(l)
          BY <4>2 DEF l, n
        <4>5. l[n] = e.id /\ \A i \in DOMAIN s10.list : l[i] = s10.list[i]
          BY <4>2 DEF l, n
        <4>6. Ch!IsInjective(l)
          BY <3>0, <4>3, <4>4, <4>5 DEF Ch!IsInjective
        <4>7. Ch!Contains(l, e.id) /\ \A j \in DOMAIN s10.list : Ch!Contains(l, s10.list[j])
          BY <4>4, <4>5 DEF Ch!Contains
        <4> QED
          BY <4>1, <4>4, <4>5, <4>6, <4>7 DEF l
      <3> QED
        BY <3>1, <3>2
    <2>6. /\ s10' \in ChPanel /\ s10'.chan = s10.chan /\ s10'.state = s10.state
          /\ s10'.list = IF e.chan = s10.chan THEN Ch!Appended(e) ELSE s10.list
      <3> DEFINE l == Ch!Appended(e)
      <3>1. l \in Seq(Ch!Message) /\ s10' = IF e.chan = s10.chan THEN [s10 EXCEPT !.list = l] ELSE s10
        BY <2>1, <2>5
      <3> HIDE DEF l
      <3>2. /\ s10' \in ChPanel /\ s10'.chan = s10.chan /\ s10'.state = s10.state
            /\ s10'.list = IF e.chan = s10.chan THEN l ELSE s10.list
        BY <1>0, <3>1 DEF ChPanel
      <3> QED
        BY <3>2 DEF l
    <2>7. Ch!TypeOK'
      BY <2>1, <2>2, <2>6, ChTypingsNext DEF ChInv, Ch!TypeOK, Ch!LinkTypeOK
    <2>8. \A i \in DOMAIN s10'.list : s10'.list[i] \in DOMAIN s8
      BY <2>4, <2>5, <2>6 DEF ChInv, ChKnown, ChOf
    <2>9. \A i \in DOMAIN s5' : ChOf(s8, s5'[i].id, s5'[i].chan)
      BY <2>2 DEF ChInv, ChKnown
    <2>10. ChKnown'
      BY <2>1, <2>6, <2>8, <2>9 DEF ChInv, ChKnown
    <2>11. Ch!ListedOnce'
      BY <2>5, <2>6 DEF ChInv, Ch!ListedOnce
    <2>12. Ch!RightChannel'
      BY <2>1, <2>4, <2>5, <2>6 DEF ChInv, Ch!RightChannel, ChOf
    <2>13. Ch!LiveOnceReady'
      <3> SUFFICES ASSUME NEW d \in s12
                   PROVE  Ch!Contains(s10'.list, d) \/ \E i \in DOMAIN s5' : s5'[i].id = d
        BY <2>1 DEF Ch!LiveOnceReady
      <3>1. CASE Ch!Contains(s10.list, d)
        BY <1>0, <2>5, <2>6, <3>1 DEF Ch!Contains
      <3>2. CASE \E i \in DOMAIN s5 : i # 1 /\ s5[i].id = d
        BY <2>3, <3>2
      <3>3. CASE s5[1].id = d
        <4>1. e.id = d /\ e.chan = s10.chan
          BY <2>2, <2>4, <3>3 DEF ChInv, ChKnown, ChOf
        <4> QED
          BY <2>5, <2>6, <4>1
      <3> QED
        BY <3>1, <3>2, <3>3 DEF ChInv, Ch!LiveOnceReady
    <2> QED
      BY <2>7, <2>10, <2>11, <2>12, <2>13 DEF ChInv
  <1>11. ASSUME Ch!Wire
         PROVE  ChInv'
    <2>1. UNCHANGED <<s6, s7, s8, s9, s10, s11>>
      BY <1>11 DEF Ch!Wire, Ch!server
    <2>2. Ch!LinkTypeOK(Ch!Event)' /\ ((s5' = s5 /\ s12' = s12) \/ (s5' = <<>> /\ s12' = {}))
      BY <1>11, ChWireKeeps DEF ChInv
    <2>3. Ch!TypeOK'
      BY <2>1, <2>2 DEF ChInv, Ch!TypeOK
    <2>4. ChKnown' /\ Ch!LiveOnceReady'
      BY <2>1, <2>2 DEF ChInv, ChKnown, Ch!LiveOnceReady
    <2> QED
      BY <2>1, <2>3, <2>4 DEF ChInv, Ch!ListedOnce, Ch!RightChannel
  <1> QED
    BY <1>1, <1>2, <1>3, <1>4, <1>5, <1>6, <1>7, <1>8, <1>9, <1>10, <1>11 DEF Ch!Next,
       Ch!Send, Ch!Load

LEMMA ChStillInv == ASSUME ChInv, UNCHANGED Ch!vars PROVE ChInv'
  BY DEF ChInv, Ch!vars, Ch!TypeOK, Ch!ListedOnce, Ch!RightChannel, Ch!LiveOnceReady,
     ChKnown, Ch!link,
         Ch!server, Ch!page, Ch!LinkTypeOK

-----------------------------------------------------------------------------
(* Messages: what the page has known since its history came is in its list. *)

\* Whatever names a message names one that is stored, of the conversation it says.
MsOf(l, id, c) == id \in DOMAIN l /\ l[id] = c

\* a message whose event has not been sent out yet
MsPending(s, id) == \E p \in Poster : s[p].pc = "emit" /\ s[p].id = id

MsRight(l, f) ==
  /\ f # Ms!Idle => f.page >= 1
  /\ f.pc = "answered" => /\ Ms!IsInjective(f.items)
                          /\ \A i \in DOMAIN f.items : MsOf(l, f.items[i], f.conv)

MsNamed ==
  /\ s10.known \subseteq DOMAIN s6
  /\ \A p \in Poster : s8[p] # Ms!Idle => MsOf(s6, s8[p].id, s8[p].conv)
  /\ \A p, q \in Poster : s8[p] # Ms!Idle /\ s8[q] # Ms!Idle /\ p # q => s8[p].id # s8[q].id
  /\ \A i \in DOMAIN s5 : MsOf(s6, s5[i].id, s5[i].conv) /\ ~MsPending(s8, s5[i].id)
  /\ MsRight(s6, s11) /\ MsRight(s6, s12)
  /\ \A id \in s13 : MsOf(s6, id, s10.conv)

\* The history that is awaited is that of the conversation, and until it has come the
\* page is due nothing.
MsAwaited ==
  /\ s11 # Ms!Idle => s11.conv = s10.conv /\ ~s10.loaded
  /\ s13 # {} => s10.loaded
  /\ s9 # Ms!Idle => s9.id \in s7

\* What the page has known since it had its history is in its list or deleted: all it
\* lists, what is not sent out yet, and what it is due.
MsKnown ==
  /\ s10.loaded => \A i \in DOMAIN s10.list : s10.list[i] \in s10.known
  /\ s10.loaded => \A id \in s10.known \ s10.ahead :
                      MsPending(s8, id) => Ms!Contains(s10.list, id) \/ id \in s7
  /\ ~s10.loaded => \A id \in s10.known \ s10.ahead : ~MsPending(s8, id)
  /\ \A id \in s13 \ s10.ahead : id \in s10.known => Ms!Contains(s10.list, id)

MsInv == Ms!TypeOK /\ Ms!ShownOnce /\ Ms!RightConversation /\ Ms!LiveOnceReady /\ MsNamed /\ MsAwaited /\ MsKnown

MsAskRow == [what : {"join", "leave"}, room : Spot]

LEMMA MsKinds ==
  /\ Ms!Idle \in Ms!Sending /\ Ms!Idle \in Ms!Deleting /\ Ms!Idle \in Ms!Fetch
  /\ Ms!Idle.pc = "idle"
  /\ \A x \in Ms!Sending : x # Ms!Idle => /\ x.pc \in {"emit", "answer"} /\ x.conv \in Spot
                                          /\ x.id \in Ms!Message /\ x.own \in BOOLEAN
  /\ \A c \in Spot, i \in Ms!Message, o \in BOOLEAN :
       [pc |-> "emit", conv |-> c, id |-> i, own |-> o] \in Ms!Sending
  /\ \A i \in Ms!Message : [pc |-> "answered", id |-> i] \in Ms!Deleting
  <1>1. /\ Ms!Idle \in Ms!Sending /\ Ms!Idle \in Ms!Deleting /\ Ms!Idle \in Ms!Fetch
        /\ Ms!Idle.pc = "idle"
    BY DEF Ms!Idle, Ms!Sending, Ms!Deleting, Ms!Fetch
  <1>2. \A c \in Spot, i \in Ms!Message, o \in BOOLEAN :
       [pc |-> "emit", conv |-> c, id |-> i, own |-> o] \in Ms!Sending
    BY DEF Ms!Sending
  <1>3. \A i \in Ms!Message : [pc |-> "answered", id |-> i] \in Ms!Deleting
    BY DEF Ms!Deleting
  <1>4. \A x \in [pc : {"emit", "answer"}, conv : Spot, id : Ms!Message, own : BOOLEAN] :
          x.pc \in {"emit", "answer"} /\ x.conv \in Spot /\ x.id \in Ms!Message /\ x.own \in BOOLEAN
    OBVIOUS
  <1> QED
    BY <1>1, <1>2, <1>3, <1>4 DEF Ms!Sending

\* A request that has been sent out goes on to its answer.
LEMMA MsSent ==
  ASSUME NEW x \in Ms!Sending, x # Ms!Idle
  PROVE  /\ [x EXCEPT !.pc = "answer"] \in Ms!Sending /\ [x EXCEPT !.pc = "answer"] # Ms!Idle
         /\ [x EXCEPT !.pc = "answer"].pc = "answer"
         /\ [x EXCEPT !.pc = "answer"].id = x.id /\ [x EXCEPT !.pc = "answer"].conv = x.conv
  <1>1. x \in [pc : {"emit", "answer"}, conv : Spot, id : Ms!Message, own : BOOLEAN]
    BY DEF Ms!Sending
  <1>2. /\ [x EXCEPT !.pc = "answer"] \in
             [pc : {"emit", "answer"}, conv : Spot, id : Ms!Message, own : BOOLEAN]
        /\ [x EXCEPT !.pc = "answer"].pc = "answer"
        /\ [x EXCEPT !.pc = "answer"].id = x.id /\ [x EXCEPT !.pc = "answer"].conv = x.conv
    BY <1>1
  <1> QED
    BY <1>2, MsKinds DEF Ms!Sending

LEMMA MsFetches ==
  /\ \A x \in Ms!Fetch : x # Ms!Idle => /\ x.pc \in {"asked", "answered"} /\ x.conv \in Spot
                                        /\ x.page \in Nat
  /\ \A x \in Ms!Fetch : x.pc = "answered" => x.items \in Seq(Ms!Message) /\ x.more \in BOOLEAN
  /\ \A c \in Spot, n \in Nat :
       /\ Ms!Asked(c, n) \in Ms!Fetch /\ Ms!Asked(c, n) # Ms!Idle /\ Ms!Asked(c, n).pc = "asked"
       /\ Ms!Asked(c, n).conv = c /\ Ms!Asked(c, n).page = n
  <1>1. \A x \in [pc : {"asked"}, conv : Spot, page : Nat] :
          x.pc = "asked" /\ x.conv \in Spot /\ x.page \in Nat
    OBVIOUS
  <1>2. \A x \in [pc : {"answered"}, conv : Spot, page : Nat,
                  items : Seq(Ms!Message), more : BOOLEAN] :
          /\ x.pc = "answered" /\ x.conv \in Spot /\ x.page \in Nat
          /\ x.items \in Seq(Ms!Message) /\ x.more \in BOOLEAN
    OBVIOUS
  <1>3. \A c \in Spot, n \in Nat :
          /\ Ms!Asked(c, n) \in [pc : {"asked"}, conv : Spot, page : Nat]
          /\ Ms!Asked(c, n).pc = "asked" /\ Ms!Asked(c, n).conv = c /\ Ms!Asked(c, n).page = n
    BY DEF Ms!Asked
  <1> QED
    BY <1>1, <1>2, <1>3, MsKinds DEF Ms!Fetch

\* A part of a sequence, and the sequence the other way round.
LEMMA MsPortion ==
  ASSUME NEW S, NEW s \in Seq(S), Ms!IsInjective(s), NEW m \in Nat, m >= 1, NEW n \in Nat, n <= Len(s)
  PROVE  /\ SubSeq(s, m, n) \in Seq(S) /\ Ms!IsInjective(SubSeq(s, m, n))
         /\ \A i \in DOMAIN SubSeq(s, m, n) : \E j \in DOMAIN s : SubSeq(s, m, n)[i] = s[j]
  <1> DEFINE t == SubSeq(s, m, n)
  <1>0. Len(s) \in Nat /\ DOMAIN s = 1..Len(s)
    OBVIOUS
  <1>1. \A i \in m..n : s[i] \in S
    BY <1>0
  <1>2. t \in Seq(S) /\ DOMAIN t = 1..Len(t) /\ Len(t) = IF m <= n THEN n - m + 1 ELSE 0
    BY <1>0, <1>1
  <1>3. \A i \in DOMAIN t : t[i] = s[i + m - 1] /\ i + m - 1 \in DOMAIN s
    BY <1>0, <1>2
  <1>4. Ms!IsInjective(t)
    <2> SUFFICES ASSUME NEW a \in DOMAIN t, NEW b \in DOMAIN t, t[a] = t[b] PROVE a = b
      BY DEF Ms!IsInjective
    <2> HIDE DEF t
    <2>1. a + m - 1 = b + m - 1
      BY <1>3 DEF Ms!IsInjective
    <2> QED
      BY <1>2, <2>1
  <1> HIDE DEF t
  <1>5. t \in Seq(S) /\ Ms!IsInjective(t) /\ \A i \in DOMAIN t : \E j \in DOMAIN s : t[i] = s[j]
    BY <1>2, <1>3, <1>4
  <1> QED
    BY <1>5 DEF t

LEMMA MsTurned ==
  ASSUME NEW S, NEW s \in Seq(S), Ms!IsInjective(s)
  PROVE  /\ Ms!Reverse(s) \in Seq(S) /\ Ms!IsInjective(Ms!Reverse(s))
         /\ \A i \in DOMAIN Ms!Reverse(s) : \E j \in DOMAIN s : Ms!Reverse(s)[i] = s[j]
  <1>0. Len(s) \in Nat /\ DOMAIN s = 1..Len(s)
    OBVIOUS
  <1>1. \A i \in 1..Len(s) : Len(s) - i + 1 \in DOMAIN s /\ s[Len(s) - i + 1] \in S
    BY <1>0
  <1>2. /\ Ms!Reverse(s) \in [1..Len(s) -> S]
        /\ \A i \in DOMAIN Ms!Reverse(s) : Ms!Reverse(s)[i] = s[Len(s) - i + 1]
    BY <1>1 DEF Ms!Reverse
  <1>3. Ms!Reverse(s) \in Seq(S)
    BY <1>0, <1>2
  <1>4. Ms!IsInjective(Ms!Reverse(s))
    <2> SUFFICES ASSUME NEW a \in 1..Len(s), NEW b \in 1..Len(s), Ms!Reverse(s)[a] = Ms!Reverse(s)[b] PROVE a = b
      BY <1>2 DEF Ms!IsInjective
    <2>1. Len(s) - a + 1 = Len(s) - b + 1
      BY <1>1, <1>2 DEF Ms!IsInjective
    <2> QED
      BY <1>0, <2>1
  <1> QED
    BY <1>0, <1>1, <1>2, <1>3, <1>4

\* A page of messages is of the conversation, and each is there once.
LEMMA MsAnswers ==
  ASSUME Ms!TypeOK, NEW f \in Ms!Fetch, f.pc = "asked", f.page >= 1
  PROVE  /\ Ms!Answer(f) \in Ms!Fetch /\ Ms!Answer(f) # Ms!Idle /\ Ms!Answer(f).pc = "answered"
         /\ Ms!Answer(f).conv = f.conv /\ MsRight(s6, Ms!Answer(f))
  <1>0. f.conv \in Spot /\ f.page \in Nat
    BY MsFetches, MsKinds
  <1> DEFINE ids == Ms!Stored(f.conv)
             new == Ms!Newest(f.conv)
             items == Ms!PageOf(f.conv, f.page)
             more == Ms!MoreAfter(f.conv, f.page)
  <1>1. s6 \in Seq(Spot) /\ Len(s6) \in Nat /\ Len(s6) <= MaxPosts /\ DOMAIN s6 = 1..Len(s6)
    BY DEF Ms!TypeOK
  <1>2. ids \in SUBSET Ms!Message /\ ids \in SUBSET Nat /\ \A id \in ids : MsOf(s6, id, f.conv)
    <2>1. \A id \in 1..Len(s6) : id \in Ms!Message /\ id \in Nat
      BY <1>1, LiveBounds DEF Ms!Message
    <2> QED
      BY <1>1, <2>1 DEF Ms!Stored, MsOf
  <1>3. IsFiniteSet(ids)
    <2>1. IsFiniteSet(Ms!Message)
      BY LiveBounds, FS_Interval DEF Ms!Message
    <2> QED
      BY <1>2, <2>1, FS_Subset
  <1>4. Ms!InOrder(ids) \in Seq(ids) /\ Ms!IsInjective(Ms!InOrder(ids))
    <2> HIDE DEF ids
    <2> QED
      BY <1>2, <1>3, MsOrdered
  <1>5. new \in Seq(ids) /\ Ms!IsInjective(new)
    <2> HIDE DEF ids
    <2> QED
      BY <1>4, MsTurned DEF Ms!Newest, ids
  <1> HIDE DEF new, ids
  <1>6. Len(new) \in Nat
    BY <1>5
  <1> DEFINE first == (f.page - 1) * PageSize + 1
             last == IF f.page * PageSize < Len(new) THEN f.page * PageSize ELSE Len(new)
  <1>7. first \in Nat /\ first >= 1 /\ last \in Nat /\ last <= Len(new)
    <2>1. f.page - 1 \in Nat
      BY <1>0
    <2>2. (f.page - 1) * PageSize \in Nat /\ f.page * PageSize \in Nat
      BY <1>0, <2>1, LiveBounds
    <2> QED
      BY <1>6, <2>2
  <1>8. items = SubSeq(new, first, last)
    BY DEF Ms!PageOf, new
  <1> HIDE DEF first, last
  <1>9. items \in Seq(ids) /\ Ms!IsInjective(items)
    BY <1>5, <1>7, <1>8, MsPortion
  <1>10. more \in BOOLEAN
    <2>1. f.page * PageSize \in Nat
      BY <1>0, LiveBounds
    <2> QED
      BY <1>6, <2>1 DEF Ms!MoreAfter, new
  <1> HIDE DEF items, more
  <1>11. items \in Seq(Ms!Message) /\ \A i \in DOMAIN items : MsOf(s6, items[i], f.conv)
    <2>1. \A i \in DOMAIN items : items[i] \in ids
      BY <1>9
    <2>2. items \in Seq(Ms!Message)
      <3>1. Len(items) \in Nat /\ DOMAIN items = 1..Len(items) /\ items = [i \in 1..Len(items) |-> items[i]]
        BY <1>9
      <3>2. \A i \in 1..Len(items) : items[i] \in Ms!Message
        BY <1>2, <2>1, <3>1
      <3> QED
        BY <3>1, <3>2
    <2> QED
      BY <1>2, <2>1, <2>2
  <1>12. Ms!Answer(f) = [pc |-> "answered", conv |-> f.conv, page |-> f.page, items |-> items, more |-> more]
    BY DEF Ms!Answer, items, more
  <1>13. /\ Ms!Answer(f) \in Ms!Fetch /\ Ms!Answer(f).pc = "answered"
         /\ Ms!Answer(f).conv = f.conv
         /\ Ms!Answer(f).page = f.page /\ Ms!Answer(f).items = items
    BY <1>0, <1>10, <1>11, <1>12 DEF Ms!Fetch
  <1> QED
    BY <1>9, <1>11, <1>13, MsKinds DEF MsRight

LEMMA MsLists ==
  ASSUME NEW l \in Seq(Ms!Message), NEW id
  PROVE  DOMAIN l = 1..Len(l) /\ (Ms!Contains(l, id) <=> \E i \in DOMAIN l : l[i] = id)
  BY DEF Ms!Contains

\* What is said to the server by the page.
LEMMA MsSaid ==
  ASSUME Ms!LinkTypeOK(Ms!Event), NEW asks \in Seq(MsAskRow), Ms!Say(asks)
  PROVE  Ms!LinkTypeOK(Ms!Event)' /\ s5' = s5
  <1>1. s2 \in Seq(MsAskRow)
    BY DEF Ms!LinkTypeOK, MsAskRow
  <1>2. s2' = s2 \o asks /\ s2' \in Seq(MsAskRow)
    BY <1>1, Concatenated DEF Ms!Say
  <1> QED
    BY <1>2 DEF Ms!Say, Ms!LinkTypeOK, MsAskRow

\* The socket, whatever it does of its own, takes nothing from the page but what was
\* under way to it, and then the page is due nothing.
LEMMA MsWireKeeps ==
  ASSUME Ms!TypeOK, Ms!Wire
  PROVE  /\ Ms!LinkTypeOK(Ms!Event)'
         /\ (s5' = s5 /\ s13' = s13) \/ (s5' = <<>> /\ s13' = {})
  <1>0. Ms!LinkTypeOK(Ms!Event) /\ s2 \in Seq(MsAskRow)
    BY DEF Ms!TypeOK, Ms!LinkTypeOK, MsAskRow
  <1>1. CASE Ms!Handle /\ UNCHANGED s13
    <2>1. Head(s2) \in MsAskRow /\ Tail(s2) \in Seq(MsAskRow)
      BY <1>0, <1>1, Tailed DEF Ms!Handle
    <2> QED
      BY <1>0, <1>1, <2>1 DEF Ms!Handle, Ms!LinkTypeOK, MsAskRow
  <1>2. CASE (Ms!Reconnect \/ \E c \in Spot : Ms!AnswerJoin(c, TRUE)) /\ UNCHANGED s13
    BY <1>0, <1>2 DEF Ms!Reconnect, Ms!AnswerJoin, Ms!LinkTypeOK, MsAskRow
  <1>3. CASE Ms!Drop /\ s13' = {}
    <2>1. <<>> \in Seq(MsAskRow) /\ <<>> \in Seq(Ms!Event)
      BY Nothing
    <2> QED
      BY <1>3, <2>1 DEF Ms!Drop, Ms!LinkTypeOK, MsAskRow
  <1> QED
    BY <1>1, <1>2, <1>3 DEF Ms!Wire

LEMMA MsInitInv == ASSUME Ms!Init PROVE MsInv
  <1>1. Ms!LinkTypeOK(Ms!Event) /\ s5 = <<>> /\ DOMAIN s5 = {}
    BY DEF Ms!Init, Ms!LinkInit, Ms!LinkTypeOK
  <1>2. /\ s10 \in Ms!View /\ s10.list = <<>> /\ s10.known = {} /\ ~s10.loaded
    BY Nothing DEF Ms!Init, Ms!View
  <1>3. /\ s6 = <<>> /\ s7 = {} /\ s11 = Ms!Idle /\ s12 = Ms!Idle /\ s13 = {} /\ s9 = Ms!Idle
        /\ s8 = [p \in Poster |-> Ms!Idle]
    BY DEF Ms!Init
  <1>4. s6 \in Seq(Spot) /\ Len(s6) <= MaxPosts
    BY <1>3, LiveBounds
  <1>5. s8 \in [Poster -> Ms!Sending] /\ \A p \in Poster : s8[p] = Ms!Idle
    BY <1>3, MsKinds
  <1>6. Ms!TypeOK
    BY <1>1, <1>2, <1>3, <1>4, <1>5, MsKinds DEF Ms!TypeOK
  <1>7. MsNamed
    BY <1>1, <1>2, <1>3, <1>5, MsKinds DEF MsNamed, MsRight
  <1>8. MsAwaited /\ MsKnown /\ Ms!ShownOnce /\ Ms!RightConversation /\ Ms!LiveOnceReady
    BY <1>2, <1>3 DEF MsAwaited, MsKnown, Ms!ShownOnce, Ms!RightConversation,
       Ms!LiveOnceReady
  <1> QED
    BY <1>6, <1>7, <1>8 DEF MsInv

LEMMA MsCreateInv ==
  ASSUME MsInv, NEW p \in Poster, NEW c \in Spot, NEW own \in BOOLEAN, Ms!SendCreate(p, c, own)
  PROVE  MsInv'
  <1> DEFINE n == Len(s6) + 1
             row == [pc |-> "emit", conv |-> c, id |-> n, own |-> own]
  <1>0. /\ s6 \in Seq(Spot) /\ Len(s6) \in Nat /\ Len(s6) <= MaxPosts /\ DOMAIN s6 = 1..Len(s6)
        /\ s8 \in [Poster -> Ms!Sending] /\ s8[p] = Ms!Idle
        /\ s10 \in Ms!View /\ s10.list \in Seq(Ms!Message)
    BY DEF MsInv, Ms!TypeOK, Ms!SendCreate, Ms!View
  <1>1. /\ Len(s6) < MaxPosts /\ s6' = Append(s6, c) /\ s8' = [s8 EXCEPT ![p] = row]
        /\ UNCHANGED <<s1, s2, s3, s4, s5, s7, s9, s10, s11, s12, s13>>
    BY DEF Ms!SendCreate, Ms!Go, Ms!link
  <1>2. /\ s6' \in Seq(Spot) /\ Len(s6') = n /\ DOMAIN s6' = DOMAIN s6 \cup {n}
        /\ \A i \in DOMAIN s6 : s6'[i] = s6[i]
        /\ s6'[n] = c
    BY <1>0, <1>1, Longer
  <1>3. n \in Ms!Message /\ n <= MaxPosts /\ n \notin DOMAIN s6
    BY <1>0, <1>1, LiveBounds DEF Ms!Message
  <1>4. row \in Ms!Sending /\ row.id = n /\ row.conv = c /\ row.pc = "emit" /\ row # Ms!Idle
    BY <1>3, MsKinds
  <1>5. \A id, d : MsOf(s6, id, d) => MsOf(s6', id, d)
    BY <1>2 DEF MsOf
  <1>6. MsOf(s6', n, c)
    BY <1>2 DEF MsOf
  <1> HIDE DEF row, n
  <1>7. /\ s8' \in [Poster -> Ms!Sending] /\ s8'[p] = row
        /\ \A q \in Poster \ {p} : s8'[q] = s8[q]
    BY <1>0, <1>1, <1>4
  <1>8. \A id \in DOMAIN s6 : MsPending(s8', id) => MsPending(s8, id)
    BY <1>3, <1>4, <1>7 DEF MsPending
  <1>9. Ms!TypeOK'
    BY <1>1, <1>2, <1>3, <1>7 DEF MsInv, Ms!TypeOK, Ms!LinkTypeOK
  <1>10. MsNamed'
    <2>1. s10'.known \subseteq DOMAIN s6'
      BY <1>1, <1>2 DEF MsInv, MsNamed
    <2>2. \A q \in Poster : s8'[q] # Ms!Idle => MsOf(s6', s8'[q].id, s8'[q].conv)
      BY <1>4, <1>5, <1>6, <1>7 DEF MsInv, MsNamed
    <2>3. \A q \in Poster \ {p} : s8[q] # Ms!Idle => s8[q].id \in DOMAIN s6
      BY DEF MsInv, MsNamed, MsOf
    <2>4. \A q, r \in Poster : s8'[q] # Ms!Idle /\ s8'[r] # Ms!Idle /\ q # r => s8'[q].id # s8'[r].id
      BY <1>3, <1>4, <1>7, <2>3 DEF MsInv, MsNamed
    <2>5. \A i \in DOMAIN s5 : MsOf(s6', s5[i].id, s5[i].conv) /\ ~MsPending(s8', s5[i].id)
      BY <1>5, <1>8 DEF MsInv, MsNamed, MsOf
    <2>6. MsRight(s6', s11) /\ MsRight(s6', s12)
      BY <1>5 DEF MsInv, MsNamed, MsRight
    <2>7. \A id \in s13 : MsOf(s6', id, s10.conv)
      BY <1>5 DEF MsInv, MsNamed
    <2> QED
      BY <1>1, <2>1, <2>2, <2>4, <2>5, <2>6, <2>7 DEF MsNamed
  <1>11. MsAwaited'
    BY <1>1 DEF MsInv, MsAwaited
  <1>12. MsKnown'
    <2>1. \A id \in s10.known : MsPending(s8', id) => MsPending(s8, id)
      BY <1>8 DEF MsInv, MsNamed
    <2> QED
      BY <1>1, <2>1 DEF MsInv, MsKnown
  <1>13. Ms!RightConversation'
    <2>1. s10.loaded => \A i \in DOMAIN s10.list : s10.list[i] \in DOMAIN s6
      BY DEF MsInv, MsKnown, MsNamed
    <2> QED
      BY <1>1, <1>2, <2>1 DEF MsInv, Ms!RightConversation
  <1> QED
    BY <1>1, <1>9, <1>10, <1>11, <1>12, <1>13 DEF MsInv, Ms!ShownOnce, Ms!LiveOnceReady

LEMMA MsEmitInv == ASSUME MsInv, NEW p \in Poster, Ms!SendEmit(p) PROVE MsInv'
  <1> DEFINE s == s8[p]
             e == [conv |-> s.conv, id |-> s.id]
             next == IF s.own THEN [s EXCEPT !.pc = "answer"] ELSE Ms!Idle
  <1>0. /\ Ms!LinkTypeOK(Ms!Event) /\ s5 \in Seq(Ms!Event) /\ s13 \in SUBSET Ms!Message
        /\ s8 \in [Poster -> Ms!Sending] /\ s10.list \in Seq(Ms!Message)
    BY DEF MsInv, Ms!TypeOK, Ms!LinkTypeOK, Ms!View
  <1>1. /\ s \in Ms!Sending /\ s # Ms!Idle /\ s.pc = "emit" /\ s.id \in Ms!Message
        /\ s.conv \in Spot
        /\ MsOf(s6, s.id, s.conv) /\ MsPending(s8, s.id)
    BY <1>0, MsKinds DEF Ms!SendEmit, MsInv, MsNamed, MsPending
  <1>2. /\ s8' = [s8 EXCEPT ![p] = next]
        /\ s5' = IF s.conv \in s4 THEN Append(s5, e) ELSE s5
        /\ s13' = IF Ms!Ready(s.conv) /\ s.id \notin s7 THEN s13 \cup {s.id} ELSE s13
        /\ UNCHANGED <<s1, s2, s3, s4, s6, s7, s9, s10, s11, s12>>
    BY DEF Ms!SendEmit, Ms!Emit, Ms!Go
  <1>3. e \in Ms!Event /\ e.conv = s.conv /\ e.id = s.id
    BY <1>1 DEF Ms!Event
  <1>4. next \in Ms!Sending /\ next.pc # "emit" /\ (next # Ms!Idle => next.id = s.id /\ next.conv = s.conv)
    BY <1>1, MsSent, MsKinds
  <1> HIDE DEF e, next
  <1>5. /\ s5' \in Seq(Ms!Event)
        /\ \A i \in DOMAIN s5 : i \in DOMAIN s5' /\ s5'[i] = s5[i]
        /\ \A i \in DOMAIN s5' : s5'[i] = e \/ (i \in DOMAIN s5 /\ s5'[i] = s5[i])
        /\ s.conv \in s4 => \E i \in DOMAIN s5' : s5'[i] = e
    <2>1. CASE s.conv \in s4
      <3>1. s5' = Append(s5, e)
        BY <1>2, <2>1
      <3> QED
        BY <1>0, <1>3, <3>1, Longer
    <2>2. CASE s.conv \notin s4
      BY <1>0, <1>2, <2>2
    <2> QED
      BY <2>1, <2>2
  <1>6. s13' = s13 \/ (s13' = s13 \cup {s.id} /\ Ms!Ready(s.conv) /\ s.id \notin s7)
    BY <1>2
  <1>7. /\ s8' \in [Poster -> Ms!Sending] /\ s8'[p] = next
        /\ \A q \in Poster \ {p} : s8'[q] = s8[q]
    BY <1>0, <1>2, <1>4
  <1> HIDE DEF s
  <1>8. s13' \in SUBSET Ms!Message
    BY <1>0, <1>1, <1>6
  <1>9. Ms!TypeOK'
    BY <1>2, <1>5, <1>7, <1>8 DEF MsInv, Ms!TypeOK, Ms!LinkTypeOK
  <1>10. /\ \A q \in Poster : s8'[q] # Ms!Idle =>
              s8[q] # Ms!Idle /\ s8'[q].id = s8[q].id /\ s8'[q].conv = s8[q].conv
         /\ \A q \in Poster : s8'[q].pc = "emit" => q # p /\ s8[q].pc = "emit"
    BY <1>1, <1>4, <1>7 DEF s
  <1>11. (\A id : MsPending(s8', id) => MsPending(s8, id)) /\ ~MsPending(s8', s.id)
    <2>1. \A q \in Poster : q # p /\ s8[q].pc = "emit" => s8[q].id # s.id
      BY <1>1, MsKinds DEF MsInv, MsNamed, s
    <2> QED
      BY <1>7, <1>10, <2>1 DEF MsPending
  <1>12. MsNamed'
    <2>1. \A i \in DOMAIN s5' : MsOf(s6, s5'[i].id, s5'[i].conv) /\ ~MsPending(s8', s5'[i].id)
      BY <1>1, <1>3, <1>5, <1>11 DEF MsInv, MsNamed
    <2>2. \A id \in s13' : MsOf(s6, id, s10.conv)
      BY <1>1, <1>6 DEF MsInv, MsNamed, Ms!Ready
    <2>3. /\ \A q \in Poster : s8'[q] # Ms!Idle => MsOf(s6, s8'[q].id, s8'[q].conv)
          /\ \A q, r \in Poster : s8'[q] # Ms!Idle /\ s8'[r] # Ms!Idle /\ q # r => s8'[q].id # s8'[r].id
      BY <1>10 DEF MsInv, MsNamed
    <2> QED
      BY <1>2, <2>1, <2>2, <2>3 DEF MsInv, MsNamed
  <1>13. MsAwaited'
    BY <1>2, <1>6 DEF MsInv, MsAwaited, Ms!Ready
  <1>14. MsKnown'
    <2>1. \A d \in s13' \ s10.ahead : d \in s10.known => Ms!Contains(s10.list, d)
      BY <1>1, <1>6 DEF MsInv, MsKnown, Ms!Ready
    <2> QED
      BY <1>2, <1>11, <2>1 DEF MsInv, MsKnown
  <1>15. Ms!LiveOnceReady'
    <2> SUFFICES ASSUME NEW d \in s13' \ s10.ahead
                 PROVE  Ms!Contains(s10.list, d) \/ \E i \in DOMAIN s5' : s5'[i].id = d
      BY <1>2 DEF Ms!LiveOnceReady
    <2>1. CASE d \in s13
      BY <1>5, <2>1 DEF MsInv, Ms!LiveOnceReady
    <2>2. CASE d = s.id /\ Ms!Ready(s.conv)
      BY <1>3, <1>5, <2>2 DEF Ms!Ready
    <2> QED
      BY <1>6, <2>1, <2>2
  <1> QED
    BY <1>2, <1>9, <1>12, <1>13, <1>14, <1>15 DEF MsInv, Ms!ShownOnce, Ms!RightConversation

\* A request that is over names nothing more.
LEMMA MsOver ==
  ASSUME MsInv, NEW p \in Poster, Ms!Go(p, Ms!Idle)
  PROVE  /\ s8' \in [Poster -> Ms!Sending]
         /\ \A q \in Poster : s8'[q] # Ms!Idle => s8'[q] = s8[q]
         /\ \A q \in Poster : s8'[q].pc = "emit" => q # p /\ s8'[q] = s8[q]
         /\ \A id : MsPending(s8', id) => MsPending(s8, id)
  <1>1. s8 \in [Poster -> Ms!Sending] /\ s8' = [s8 EXCEPT ![p] = Ms!Idle]
    BY DEF MsInv, Ms!TypeOK, Ms!Go
  <1>2. s8' \in [Poster -> Ms!Sending] /\ s8'[p] = Ms!Idle /\ \A q \in Poster \ {p} : s8'[q] = s8[q]
    BY <1>1, MsKinds
  <1>3. \A q \in Poster : s8'[q].pc = "emit" => q # p /\ s8'[q] = s8[q]
    BY <1>2, MsKinds
  <1> QED
    BY <1>2, <1>3 DEF MsPending

\* A list with one more at its end that was not known.
LEMMA MsAdded ==
  ASSUME MsInv, NEW id \in Ms!Message, id \notin s10.known,
         NEW w \in Ms!View, w.list = Append(s10.list, id), w.known = s10.known \cup {id},
         w.loaded = s10.loaded
  PROVE  /\ Ms!Contains(w.list, id)
         /\ \A d : Ms!Contains(s10.list, d) => Ms!Contains(w.list, d)
         /\ \A i \in DOMAIN w.list : w.list[i] = id \/ \E j \in DOMAIN s10.list : w.list[i] = s10.list[j]
         /\ s10.loaded => \A i \in DOMAIN w.list : w.list[i] \in w.known
         /\ s10.loaded /\ Ms!IsInjective(s10.list) => Ms!IsInjective(w.list)
  <1>0. s10.list \in Seq(Ms!Message) /\ w.list \in Seq(Ms!Message)
    BY DEF MsInv, Ms!TypeOK, Ms!View
  <1> DEFINE n == Len(s10.list) + 1
  <1>1. /\ DOMAIN w.list = DOMAIN s10.list \cup {n} /\ w.list[n] = id
        /\ \A i \in DOMAIN s10.list : w.list[i] = s10.list[i]
    BY <1>0, Longer
  <1> HIDE DEF n
  <1>2. Ms!Contains(w.list, id) /\ \A d : Ms!Contains(s10.list, d) => Ms!Contains(w.list, d)
    <2>1. \A d : Ms!Contains(w.list, d) <=> \E i \in DOMAIN w.list : w.list[i] = d
      BY <1>0, MsLists
    <2>2. \A d : Ms!Contains(s10.list, d) <=> \E i \in DOMAIN s10.list : s10.list[i] = d
      BY <1>0, MsLists
    <2> QED
      BY <1>1, <2>1, <2>2
  <1>3. s10.loaded => \A i \in DOMAIN s10.list : s10.list[i] \in s10.known
    BY DEF MsInv, MsKnown
  <1>4. s10.loaded /\ Ms!IsInjective(s10.list) => Ms!IsInjective(w.list)
    BY <1>1, <1>3 DEF Ms!IsInjective
  <1> QED
    BY <1>1, <1>2, <1>3, <1>4

LEMMA MsFailInv == ASSUME MsInv, NEW p \in Poster, Ms!SendFail(p) PROVE MsInv'
  <1>1. Ms!Go(p, Ms!Idle) /\ UNCHANGED <<s1, s2, s3, s4, s5, s6, s7, s9, s10, s11, s12, s13>>
    BY DEF Ms!SendFail, Ms!link
  <1>2. Ms!TypeOK'
    BY <1>1, MsOver DEF MsInv, Ms!TypeOK, Ms!LinkTypeOK
  <1>3. MsNamed'
    BY <1>1, MsOver DEF MsInv, MsNamed
  <1>4. MsAwaited' /\ MsKnown'
    BY <1>1, MsOver DEF MsInv, MsAwaited, MsKnown
  <1> QED
    BY <1>1, <1>2, <1>3, <1>4 DEF MsInv, Ms!ShownOnce, Ms!RightConversation,
       Ms!LiveOnceReady

LEMMA MsAnsweredInv == ASSUME MsInv, NEW p \in Poster, Ms!SendAnswered(p) PROVE MsInv'
  <1> DEFINE s == s8[p]
  <1>1. /\ Ms!Go(p, Ms!Idle)
        /\ UNCHANGED <<s1, s2, s3, s4, s5, s6, s7, s9, s11, s12, s13>>
    BY DEF Ms!SendAnswered, Ms!link
  <1>2. /\ s \in Ms!Sending /\ s # Ms!Idle /\ s.pc = "answer" /\ s.id \in Ms!Message
        /\ MsOf(s6, s.id, s.conv)
    BY MsKinds DEF Ms!SendAnswered, MsInv, MsNamed, Ms!TypeOK
  <1>3. s10 \in Ms!View /\ s10.list \in Seq(Ms!Message)
    BY DEF MsInv, Ms!TypeOK, Ms!View
  <1>4. CASE s.id \in s10.known
    <2>1. s10' = s10
      BY <1>4 DEF Ms!SendAnswered, Ms!IsNew
    <2>2. Ms!TypeOK'
      BY <1>1, <2>1, MsOver DEF MsInv, Ms!TypeOK, Ms!LinkTypeOK
    <2>3. MsNamed'
      BY <1>1, <2>1, MsOver DEF MsInv, MsNamed
    <2>4. MsAwaited' /\ MsKnown'
      BY <1>1, <2>1, MsOver DEF MsInv, MsAwaited, MsKnown
    <2> QED
      BY <1>1, <2>1, <2>2, <2>3, <2>4 DEF MsInv, Ms!ShownOnce, Ms!RightConversation,
         Ms!LiveOnceReady
  <1>5. CASE s.id \notin s10.known
    <2> DEFINE st == s10.strayed \/ s10.conv # s.conv
               l == Append(s10.list, s.id)
    <2>1. s10' = [s10 EXCEPT !.list = l, !.known = s10.known \cup {s.id}, !.strayed = st]
      BY <1>5 DEF Ms!SendAnswered, Ms!IsNew
    <2>2. l \in Seq(Ms!Message)
      BY <1>2, <1>3, Longer
    <2>3. st \in BOOLEAN
      BY <1>3 DEF Ms!View
    <2> HIDE DEF l, st, s
    <2>4. /\ s10' \in Ms!View /\ s10'.list = l /\ s10'.known = s10.known \cup {s.id}
          /\ s10'.strayed = st
          /\ s10'.conv = s10.conv /\ s10'.loaded = s10.loaded /\ s10'.further = s10.further
          /\ s10'.ahead = s10.ahead
      BY <1>2, <1>3, <2>1, <2>2, <2>3 DEF Ms!View
    <2>5. Ms!TypeOK'
      BY <1>1, <2>4, MsOver DEF MsInv, Ms!TypeOK, Ms!LinkTypeOK
    <2>6. MsNamed'
      BY <1>1, <1>2, <2>4, MsOver DEF MsInv, MsNamed, MsOf
    <2>7. MsAwaited'
      BY <1>1, <2>4 DEF MsInv, MsAwaited
    <2>8. /\ Ms!Contains(s10'.list, s.id)
          /\ \A d : Ms!Contains(s10.list, d) => Ms!Contains(s10'.list, d)
          /\ \A i \in DOMAIN s10'.list : s10'.list[i] = s.id \/ \E j \in DOMAIN s10.list : s10'.list[i] = s10.list[j]
          /\ s10.loaded => \A i \in DOMAIN s10'.list : s10'.list[i] \in s10'.known
          /\ s10.loaded /\ Ms!IsInjective(s10.list) => Ms!IsInjective(s10'.list)
      BY <1>2, <1>5, <2>4, MsAdded DEF l
    <2>9. ~MsPending(s8', s.id)
      <3>1. \A q \in Poster : q # p /\ s8[q].pc = "emit" => s8[q].id # s.id
        BY <1>2, MsKinds DEF MsInv, MsNamed, s
      <3> QED
        BY <1>1, <3>1, MsOver DEF MsPending
    <2>10. MsKnown'
      BY <1>1, <2>4, <2>8, <2>9, MsOver DEF MsInv, MsKnown
    <2>11. Ms!ShownOnce' /\ Ms!LiveOnceReady'
      BY <1>1, <2>4, <2>8 DEF MsInv, Ms!ShownOnce, Ms!LiveOnceReady
    <2>12. Ms!RightConversation'
      BY <1>1, <1>2, <2>4, <2>8 DEF MsInv, Ms!RightConversation, MsOf, st
    <2> QED
      BY <2>5, <2>6, <2>7, <2>10, <2>11, <2>12 DEF MsInv
  <1> QED
    BY <1>4, <1>5

LEMMA MsDeleteInv ==
  ASSUME MsInv, NEW id \in 1..Len(s6), Ms!DeleteByOther(id) \/ Ms!DeleteUpdate(id)
  PROVE  MsInv'
  <1>1. /\ s7' = s7 \cup {id}
        /\ UNCHANGED <<s1, s2, s3, s4, s5, s6, s8, s10, s11, s12, s13>>
        /\ s9' = s9 \/ s9' = [pc |-> "answered", id |-> id]
    BY DEF Ms!DeleteByOther, Ms!DeleteUpdate, Ms!link
  <1>2. id \in Ms!Message
    BY LiveBounds DEF MsInv, Ms!TypeOK, Ms!Message
  <1>3. s7' \in SUBSET Ms!Message
    BY <1>1, <1>2 DEF MsInv, Ms!TypeOK
  <1>4. s9' \in Ms!Deleting /\ (s9' # Ms!Idle => s9'.id \in s7')
    BY <1>1, <1>2, MsKinds DEF MsInv, Ms!TypeOK, MsAwaited
  <1>5. Ms!TypeOK'
    BY <1>1, <1>3, <1>4 DEF MsInv, Ms!TypeOK, Ms!LinkTypeOK
  <1>6. MsNamed' /\ MsAwaited' /\ MsKnown'
    BY <1>1, <1>4 DEF MsInv, MsNamed, MsAwaited, MsKnown
  <1> QED
    BY <1>1, <1>5, <1>6 DEF MsInv, Ms!ShownOnce, Ms!RightConversation, Ms!LiveOnceReady

LEMMA MsGoneInv == ASSUME MsInv, Ms!DeleteAnswered PROVE MsInv'
  <1> DEFINE id == s9.id
             l == Ms!Without(s10.list, id)
  <1>0. s10 \in Ms!View /\ s10.list \in Seq(Ms!Message)
    BY DEF MsInv, Ms!TypeOK, Ms!View
  <1>1. /\ s10' = [s10 EXCEPT !.list = l] /\ s13' = s13 \ {id} /\ s9' = Ms!Idle
        /\ UNCHANGED <<s1, s2, s3, s4, s5, s6, s7, s8, s11, s12>>
    BY DEF Ms!DeleteAnswered, Ms!link
  <1>2. /\ l \in Seq(Ms!Message)
        /\ \A i \in DOMAIN l : \E j \in DOMAIN s10.list : l[i] = s10.list[j]
        /\ \A j \in DOMAIN s10.list : s10.list[j] # id => \E i \in DOMAIN l : l[i] = s10.list[j]
        /\ Ms!IsInjective(s10.list) => Ms!IsInjective(l)
    <2> HIDE DEF id
    <2>1. /\ l \in Seq(Ms!Message)
          /\ \A i \in DOMAIN l : \E j \in DOMAIN s10.list : s10.list[j] # id /\ l[i] = s10.list[j]
          /\ \A j \in DOMAIN s10.list : s10.list[j] # id => \E i \in DOMAIN l : l[i] = s10.list[j]
          /\ Ms!IsInjective(s10.list) => Ms!IsInjective(l)
      BY <1>0, MsLacking
    <2> HIDE DEF l
    <2> QED
      BY <2>1
  <1>3. id \in s7
    BY DEF Ms!DeleteAnswered, MsInv, MsAwaited
  <1> HIDE DEF l, id
  <1>4. /\ s10' \in Ms!View /\ s10'.list = l /\ s10'.known = s10.known
        /\ s10'.strayed = s10.strayed
        /\ s10'.conv = s10.conv /\ s10'.loaded = s10.loaded /\ s10'.further = s10.further
        /\ s10'.ahead = s10.ahead
    BY <1>0, <1>1, <1>2 DEF Ms!View
  <1>5. \A d : d # id /\ Ms!Contains(s10.list, d) => Ms!Contains(l, d)
    BY <1>0, <1>2, MsLists
  <1>6. Ms!TypeOK'
    BY <1>1, <1>4, MsKinds DEF MsInv, Ms!TypeOK, Ms!LinkTypeOK
  <1>7. MsNamed' /\ MsAwaited'
    BY <1>1, <1>4 DEF MsInv, MsNamed, MsAwaited
  <1>8. MsKnown'
    BY <1>1, <1>2, <1>3, <1>4, <1>5 DEF MsInv, MsKnown
  <1>9. Ms!ShownOnce' /\ Ms!RightConversation' /\ Ms!LiveOnceReady'
    BY <1>1, <1>2, <1>4, <1>5 DEF MsInv, Ms!ShownOnce, Ms!RightConversation,
       Ms!LiveOnceReady
  <1> QED
    BY <1>6, <1>7, <1>8, <1>9 DEF MsInv

LEMMA MsSelectInv == ASSUME MsInv, NEW c \in Spot, Ms!Select(c) PROVE MsInv'
  <1>0. s10 \in Ms!View /\ Ms!LinkTypeOK(Ms!Event)
    BY DEF MsInv, Ms!TypeOK
  <1>1. /\ s10' = [s10 EXCEPT !.conv = c, !.known = {}, !.loading = TRUE,
                                !.loaded = FALSE, !.further = FALSE, !.strayed = FALSE,
                                !.ahead = {}]
        /\ s11' = Ms!Asked(c, 1) /\ s13' = {}
        /\ UNCHANGED <<s6, s7, s8, s9, s12>>
    BY DEF Ms!Select, Ms!HistoryOf
  <1>2. /\ s10' \in Ms!View /\ s10'.conv = c /\ s10'.known = {} /\ ~s10'.loaded
    BY <1>0, <1>1 DEF Ms!View
  <1>3. Ms!LinkTypeOK(Ms!Event)' /\ s5' = s5
    <2> DEFINE asks == (IF s10.conv = Ms!Nowhere THEN <<>> ELSE <<Ms!Ask("leave", s10.conv)>>)
                         \o <<Ms!Ask("join", c)>>
    <2>1. Ms!Say(asks)
      BY DEF Ms!Select
    <2>2. s10.conv # Ms!Nowhere => <<Ms!Ask("leave", s10.conv)>> \in Seq(MsAskRow)
      BY <1>0 DEF Ms!Ask, MsAskRow, Ms!View
    <2>3. <<Ms!Ask("join", c)>> \in Seq(MsAskRow)
      BY DEF Ms!Ask, MsAskRow
    <2>4. (IF s10.conv = Ms!Nowhere THEN <<>> ELSE <<Ms!Ask("leave", s10.conv)>>) \in Seq(MsAskRow)
      BY <2>2, Nothing
    <2>5. asks \in Seq(MsAskRow)
      BY <2>3, <2>4, Concatenated
    <2> HIDE DEF asks
    <2> QED
      BY <1>0, <2>1, <2>5, MsSaid
  <1>4. s11' \in Ms!Fetch /\ s11' # Ms!Idle /\ s11'.pc = "asked" /\ s11'.conv = c /\ s11'.page = 1
    BY <1>1, MsFetches
  <1>5. Ms!TypeOK'
    BY <1>1, <1>2, <1>3, <1>4 DEF MsInv, Ms!TypeOK
  <1>6. MsNamed'
    BY <1>1, <1>2, <1>3, <1>4 DEF MsInv, MsNamed, MsRight
  <1>7. MsAwaited' /\ MsKnown'
    BY <1>1, <1>2, <1>4 DEF MsInv, MsAwaited, MsKnown
  <1> QED
    BY <1>1, <1>2, <1>5, <1>6, <1>7 DEF MsInv, Ms!ShownOnce, Ms!RightConversation,
       Ms!LiveOnceReady

\* A fetch that is asked, answered or given up changes nothing of the page but whether
\* it says that it is loading.
LEMMA MsFetchInv ==
  ASSUME MsInv,
         s10' \in Ms!View, s10'.list = s10.list, s10'.known = s10.known,
         s10'.strayed = s10.strayed, s10'.conv = s10.conv, s10'.loaded = s10.loaded,
         s10'.further = s10.further, s10'.ahead = s10.ahead,
         s11' \in Ms!Fetch, MsRight(s6, s11'),
         s11' # Ms!Idle => s11 # Ms!Idle /\ s11'.conv = s11.conv,
         s12' \in Ms!Fetch, MsRight(s6, s12'),
         UNCHANGED <<Ms!link, s6, s7, s8, s9, s13>>
  PROVE  MsInv'
  <1>1. UNCHANGED <<s1, s2, s3, s4, s5, s6, s7, s8, s9, s13>>
    BY DEF Ms!link
  <1>2. Ms!TypeOK'
    BY <1>1 DEF MsInv, Ms!TypeOK, Ms!LinkTypeOK
  <1>3. MsNamed' /\ MsAwaited' /\ MsKnown'
    BY <1>1 DEF MsInv, MsNamed, MsAwaited, MsKnown
  <1> QED
    BY <1>1, <1>2, <1>3 DEF MsInv, Ms!ShownOnce, Ms!RightConversation, Ms!LiveOnceReady

LEMMA MsLoadingSet ==
  ASSUME NEW v \in Ms!View, NEW b \in BOOLEAN
  PROVE  LET w == [v EXCEPT !.loading = b] IN
         /\ w \in Ms!View /\ w.list = v.list /\ w.known = v.known /\ w.strayed = v.strayed
         /\ w.conv = v.conv /\ w.loaded = v.loaded /\ w.further = v.further /\ w.ahead = v.ahead
  BY DEF Ms!View

LEMMA MsAskedInv ==
  ASSUME MsInv, Ms!HistoryRead \/ Ms!HistoryFail \/ Ms!LoadOlder \/ Ms!OlderRead \/ Ms!OlderFail
  PROVE  MsInv'
  <1>0. Ms!TypeOK /\ s10 \in Ms!View /\ s11 \in Ms!Fetch /\ s12 \in Ms!Fetch /\ MsRight(s6, s11) /\ MsRight(s6, s12)
    BY DEF MsInv, Ms!TypeOK, MsNamed
  <1>1. Ms!Idle \in Ms!Fetch /\ Ms!Idle.pc = "idle" /\ MsRight(s6, Ms!Idle)
    BY MsKinds DEF MsRight
  <1>2. ASSUME Ms!HistoryRead PROVE MsInv'
    <2>1. s11 # Ms!Idle /\ s11.pc = "asked" /\ s11.page >= 1
      BY <1>0, <1>1, <1>2 DEF Ms!HistoryRead, MsRight
    <2>2. /\ s11' = Ms!Answer(s11)
          /\ UNCHANGED <<Ms!link, s6, s7, s8, s9, s10, s12, s13>>
      BY <1>2 DEF Ms!HistoryRead
    <2>3. s11' \in Ms!Fetch /\ s11'.conv = s11.conv /\ MsRight(s6, s11')
      BY <1>0, <2>1, <2>2, MsAnswers
    <2> QED
      BY <1>0, <2>1, <2>2, <2>3, MsFetchInv
  <1>3. ASSUME Ms!HistoryFail PROVE MsInv'
    <2>1. /\ s11' = Ms!Idle /\ s10' = [s10 EXCEPT !.loading = FALSE]
          /\ UNCHANGED <<Ms!link, s6, s7, s8, s9, s12, s13>>
      BY <1>3 DEF Ms!HistoryFail
    <2>2. /\ s10' \in Ms!View /\ s10'.list = s10.list /\ s10'.known = s10.known
          /\ s10'.strayed = s10.strayed
          /\ s10'.conv = s10.conv /\ s10'.loaded = s10.loaded /\ s10'.further = s10.further
          /\ s10'.ahead = s10.ahead
      BY <1>0, <2>1, MsLoadingSet
    <2> QED
      BY <1>0, <1>1, <2>1, <2>2, MsFetchInv
  <1>4. ASSUME Ms!LoadOlder PROVE MsInv'
    <2>1. /\ s12' = Ms!Asked(s10.conv, s10.page + 1) /\ s10' = [s10 EXCEPT !.loading = TRUE]
          /\ UNCHANGED <<Ms!link, s6, s7, s8, s9, s11, s13>>
      BY <1>4 DEF Ms!LoadOlder
    <2>2. /\ s10' \in Ms!View /\ s10'.list = s10.list /\ s10'.known = s10.known
          /\ s10'.strayed = s10.strayed
          /\ s10'.conv = s10.conv /\ s10'.loaded = s10.loaded /\ s10'.further = s10.further
          /\ s10'.ahead = s10.ahead
      BY <1>0, <2>1, MsLoadingSet
    <2>3. s10.conv \in Spot /\ s10.page \in Nat
      BY <1>0, <1>4 DEF Ms!LoadOlder, Ms!View
    <2>4. s12' \in Ms!Fetch /\ s12'.pc = "asked" /\ s12'.page = s10.page + 1
      BY <2>1, <2>3, MsFetches
    <2>5. MsRight(s6, s12')
      BY <2>3, <2>4 DEF MsRight
    <2> QED
      BY <1>0, <2>1, <2>2, <2>4, <2>5, MsFetchInv
  <1>5. ASSUME Ms!OlderRead PROVE MsInv'
    <2>1. s12 # Ms!Idle /\ s12.pc = "asked" /\ s12.page >= 1
      BY <1>0, <1>1, <1>5 DEF Ms!OlderRead, MsRight
    <2>2. /\ s12' = Ms!Answer(s12)
          /\ UNCHANGED <<Ms!link, s6, s7, s8, s9, s10, s11, s13>>
      BY <1>5 DEF Ms!OlderRead
    <2>3. s12' \in Ms!Fetch /\ MsRight(s6, s12')
      BY <1>0, <2>1, <2>2, MsAnswers
    <2> QED
      BY <1>0, <2>2, <2>3, MsFetchInv
  <1>6. ASSUME Ms!OlderFail PROVE MsInv'
    <2>1. /\ s12' = Ms!Idle /\ s10' = [s10 EXCEPT !.loading = FALSE]
          /\ UNCHANGED <<Ms!link, s6, s7, s8, s9, s11, s13>>
      BY <1>6 DEF Ms!OlderFail
    <2>2. /\ s10' \in Ms!View /\ s10'.list = s10.list /\ s10'.known = s10.known
          /\ s10'.strayed = s10.strayed
          /\ s10'.conv = s10.conv /\ s10'.loaded = s10.loaded /\ s10'.further = s10.further
          /\ s10'.ahead = s10.ahead
      BY <1>0, <2>1, MsLoadingSet
    <2> QED
      BY <1>0, <1>1, <2>1, <2>2, MsFetchInv
  <1> QED
    BY <1>2, <1>3, <1>4, <1>5, <1>6

LEMMA MsInstallInv == ASSUME MsInv, Ms!Install PROVE MsInv'
  <1> DEFINE l == s11.items
             k == s10.known \cup Ms!ToSet(s11.items)
             m == s11.more
  <1>0. /\ s10 \in Ms!View /\ s11 \in Ms!Fetch /\ s11 # Ms!Idle /\ s11.pc = "answered"
        /\ s11.conv = s10.conv /\ ~s10.loaded /\ s13 = {}
    BY MsKinds DEF MsInv, Ms!TypeOK, Ms!Install, MsAwaited
  <1>1. /\ s10' = [s10 EXCEPT !.list = l, !.known = k, !.page = 1, !.hasMore = m, !.loading = FALSE,
                                !.loaded = TRUE, !.further = FALSE, !.strayed = FALSE]
        /\ s11' = Ms!Idle
        /\ UNCHANGED <<s1, s2, s3, s4, s5, s6, s7, s8, s9, s12, s13>>
    BY DEF Ms!Install, Ms!link
  <1>2. /\ l \in Seq(Ms!Message) /\ m \in BOOLEAN /\ Ms!IsInjective(l)
        /\ \A i \in DOMAIN l : MsOf(s6, l[i], s10.conv)
    BY <1>0, MsFetches DEF MsInv, MsNamed, MsRight
  <1>3. \A id : id \in k <=> id \in s10.known \/ \E i \in DOMAIN l : l[i] = id
    BY DEF Ms!ToSet
  <1> HIDE DEF l, m, k
  <1>4. k \in SUBSET Ms!Message /\ k \subseteq DOMAIN s6
    <2>1. \A i \in DOMAIN l : l[i] \in Ms!Message
      BY <1>2
    <2>2. s10.known \in SUBSET Ms!Message /\ s10.known \subseteq DOMAIN s6
      BY <1>0 DEF Ms!View, MsInv, MsNamed
    <2> QED
      BY <1>2, <1>3, <2>1, <2>2 DEF MsOf
  <1>5. /\ s10' \in Ms!View /\ s10'.list = l /\ s10'.known = k /\ s10'.strayed = FALSE
        /\ s10'.conv = s10.conv /\ s10'.loaded = TRUE /\ s10'.further = FALSE
        /\ s10'.ahead = s10.ahead
    BY <1>0, <1>1, <1>2, <1>4 DEF Ms!View
  <1>6. Ms!TypeOK'
    BY <1>1, <1>5, MsKinds DEF MsInv, Ms!TypeOK, Ms!LinkTypeOK
  <1>7. MsNamed'
    BY <1>1, <1>4, <1>5, MsKinds DEF MsInv, MsNamed, MsRight
  <1>8. MsAwaited'
    BY <1>1, <1>5 DEF MsInv, MsAwaited
  <1>9. \A id : Ms!Contains(l, id) <=> \E i \in DOMAIN l : l[i] = id
    BY <1>2, MsLists
  <1>10. MsKnown'
    BY <1>0, <1>1, <1>3, <1>5, <1>9 DEF MsInv, MsKnown
  <1>11. Ms!ShownOnce' /\ Ms!RightConversation' /\ Ms!LiveOnceReady'
    BY <1>0, <1>1, <1>2, <1>5 DEF Ms!ShownOnce, Ms!RightConversation, Ms!LiveOnceReady, MsOf
  <1> QED
    BY <1>6, <1>7, <1>8, <1>10, <1>11 DEF MsInv

LEMMA MsOlderInv == ASSUME MsInv, Ms!OlderAnswered PROVE MsInv'
  <1> DEFINE t == s12.items
             l == t \o s10.list
             k == s10.known \cup Ms!ToSet(t)
             st == s10.strayed \/ s10.conv # s12.conv
             ah == IF s10.loaded THEN s10.ahead ELSE s10.ahead \cup Ms!ToSet(t)
  <1>0. /\ s10 \in Ms!View /\ s10.list \in Seq(Ms!Message) /\ s12 \in Ms!Fetch /\ s12 # Ms!Idle
        /\ s12.pc = "answered"
    BY MsKinds DEF MsInv, Ms!TypeOK, Ms!OlderAnswered, Ms!View
  <1>1. /\ s10' = [s10 EXCEPT !.list = l, !.known = k, !.page = s12.page, !.hasMore = s12.more,
                                !.loading = FALSE, !.further = TRUE, !.strayed = st, !.ahead = ah]
        /\ s12' = Ms!Idle
        /\ UNCHANGED <<s1, s2, s3, s4, s5, s6, s7, s8, s9, s11, s13>>
    BY DEF Ms!OlderAnswered, Ms!OlderList, Ms!link
  <1>2. /\ t \in Seq(Ms!Message) /\ s12.more \in BOOLEAN /\ s12.page \in Nat
        /\ \A i \in DOMAIN t : MsOf(s6, t[i], s12.conv)
    BY <1>0, MsFetches DEF MsInv, MsNamed, MsRight
  <1>3. \A id : id \in Ms!ToSet(t) <=> \E i \in DOMAIN t : t[i] = id
    BY DEF Ms!ToSet
  <1> HIDE DEF t
  <1>4. /\ l \in Seq(Ms!Message)
        /\ \A i \in DOMAIN t : i \in DOMAIN l /\ l[i] = t[i]
        /\ \A i \in DOMAIN s10.list : Len(t) + i \in DOMAIN l /\ l[Len(t) + i] = s10.list[i]
        /\ \A i \in DOMAIN l : (\E j \in DOMAIN t : l[i] = t[j]) \/ (\E j \in DOMAIN s10.list : l[i] = s10.list[j])
    <2>1. Len(t) \in Nat
      BY <1>2
    <2> QED
      BY <1>0, <1>2, <2>1, Concatenated
  <1>5. k \in SUBSET Ms!Message /\ k \subseteq DOMAIN s6 /\ ah \in SUBSET Ms!Message
    <2>1. \A i \in DOMAIN t : t[i] \in Ms!Message
      BY <1>2
    <2>2. s10.known \in SUBSET Ms!Message /\ s10.known \subseteq DOMAIN s6 /\ s10.ahead \in SUBSET Ms!Message
      BY <1>0 DEF Ms!View, MsInv, MsNamed
    <2> QED
      BY <1>2, <1>3, <2>1, <2>2 DEF MsOf
  <1>6. st \in BOOLEAN
    BY <1>0 DEF Ms!View
  <1> HIDE DEF l, k, st, ah
  <1>7. /\ s10' \in Ms!View /\ s10'.list = l /\ s10'.known = k /\ s10'.strayed = st
        /\ s10'.conv = s10.conv /\ s10'.loaded = s10.loaded /\ s10'.further = TRUE
        /\ s10'.ahead = ah
    BY <1>0, <1>1, <1>2, <1>4, <1>5, <1>6 DEF Ms!View
  <1>8. Ms!TypeOK'
    BY <1>1, <1>7, MsKinds DEF MsInv, Ms!TypeOK, Ms!LinkTypeOK
  <1>9. MsNamed'
    BY <1>1, <1>5, <1>7, MsKinds DEF MsInv, MsNamed, MsRight
  <1>10. MsAwaited'
    BY <1>1, <1>7 DEF MsInv, MsAwaited
  <1>11. /\ \A id : Ms!Contains(l, id) <=> \E i \in DOMAIN l : l[i] = id
         /\ \A id : Ms!Contains(s10.list, id) <=> \E i \in DOMAIN s10.list : s10.list[i] = id
    BY <1>0, <1>4, MsLists
  <1>12. /\ \A id : Ms!Contains(s10.list, id) => Ms!Contains(l, id)
         /\ \A id \in Ms!ToSet(t) : Ms!Contains(l, id)
    BY <1>3, <1>4, <1>11
  <1>13. MsKnown'
    <2>1. s10.loaded => \A i \in DOMAIN l : l[i] \in k
      BY <1>3, <1>4 DEF MsInv, MsKnown, k
    <2>2. s10.loaded => \A id \in k \ ah : MsPending(s8, id) => Ms!Contains(l, id) \/ id \in s7
      BY <1>12 DEF MsInv, MsKnown, k, ah
    <2>3. ~s10.loaded => \A id \in k \ ah : ~MsPending(s8, id)
      BY DEF MsInv, MsKnown, k, ah
    <2>4. \A id \in s13 \ ah : id \in k => Ms!Contains(l, id)
      BY <1>12 DEF MsInv, MsKnown, k, ah
    <2> QED
      BY <1>1, <1>7, <2>1, <2>2, <2>3, <2>4 DEF MsKnown
  <1>14. Ms!LiveOnceReady'
    BY <1>1, <1>7, <1>12 DEF MsInv, Ms!LiveOnceReady, ah
  <1>15. Ms!RightConversation'
    <2> SUFFICES ASSUME s10.loaded, ~st, NEW i \in DOMAIN l
                 PROVE  s6[l[i]] = s10.conv
      BY <1>1, <1>7 DEF Ms!RightConversation
    <2>1. ~s10.strayed /\ s10.conv = s12.conv
      BY DEF st
    <2>2. CASE \E j \in DOMAIN t : l[i] = t[j]
      BY <1>2, <2>1, <2>2 DEF MsOf
    <2>3. CASE \E j \in DOMAIN s10.list : l[i] = s10.list[j]
      BY <2>1, <2>3 DEF MsInv, Ms!RightConversation
    <2> QED
      BY <1>4, <2>2, <2>3
  <1> QED
    BY <1>7, <1>8, <1>9, <1>10, <1>13, <1>14, <1>15 DEF MsInv, Ms!ShownOnce

LEMMA MsReceiveInv == ASSUME MsInv, Ms!Receive PROVE MsInv'
  <1> DEFINE e == Head(s5)
  <1>0. s5 \in Seq(Ms!Event) /\ s10 \in Ms!View /\ s10.list \in Seq(Ms!Message)
    BY DEF MsInv, Ms!TypeOK, Ms!LinkTypeOK, Ms!View
  <1>1. /\ s5 # <<>> /\ s5' = Tail(s5)
        /\ s10' = IF e.conv = s10.conv /\ e.id \notin s10.known
                     THEN [s10 EXCEPT !.list = Append(@, e.id), !.known = @ \cup {e.id}] ELSE s10
        /\ UNCHANGED <<s1, s2, s3, s4, s6, s7, s8, s9, s11, s12, s13>>
    BY DEF Ms!Receive, Ms!Take
  <1>2. /\ s5' \in Seq(Ms!Event) /\ e \in Ms!Event /\ 1 \in DOMAIN s5 /\ e = s5[1]
        /\ \A i \in DOMAIN s5' : \E j \in DOMAIN s5 : s5'[i] = s5[j]
    BY <1>0, <1>1, Tailed
  <1>3. \A i \in DOMAIN s5 : i # 1 => \E j \in DOMAIN s5' : s5'[j] = s5[i]
    BY <1>0, <1>1, Remains
  <1>4. e.id \in Ms!Message /\ MsOf(s6, e.id, e.conv) /\ ~MsPending(s8, e.id)
    BY <1>2 DEF Ms!Event, MsInv, MsNamed
  <1> HIDE DEF e
  <1>5. \A d \in s13 : d = e.id => e.conv = s10.conv
    BY <1>4 DEF MsInv, MsNamed, MsOf
  <1>6. \A i \in DOMAIN s5' : MsOf(s6, s5'[i].id, s5'[i].conv) /\ ~MsPending(s8, s5'[i].id)
    BY <1>2 DEF MsInv, MsNamed
  <1>7. \A d \in s13 \ s10.ahead :
          Ms!Contains(s10.list, d) \/ d = e.id \/ \E j \in DOMAIN s5' : s5'[j].id = d
    <2> TAKE d \in s13 \ s10.ahead
    <2>1. CASE \E i \in DOMAIN s5 : i # 1 /\ s5[i].id = d
      BY <1>3, <2>1
    <2>2. CASE s5[1].id = d
      BY <1>2, <2>2
    <2> QED
      BY <2>1, <2>2 DEF MsInv, Ms!LiveOnceReady
  <1>8. CASE e.conv = s10.conv /\ e.id \notin s10.known
    <2> DEFINE l == Append(s10.list, e.id)
    <2>1. s10' = [s10 EXCEPT !.list = l, !.known = s10.known \cup {e.id}]
      BY <1>1, <1>8
    <2>2. l \in Seq(Ms!Message)
      BY <1>0, <1>4, Longer
    <2> HIDE DEF l
    <2>3. /\ s10' \in Ms!View /\ s10'.list = l /\ s10'.known = s10.known \cup {e.id}
          /\ s10'.strayed = s10.strayed
          /\ s10'.conv = s10.conv /\ s10'.loaded = s10.loaded /\ s10'.further = s10.further
          /\ s10'.ahead = s10.ahead
      BY <1>0, <1>4, <2>1, <2>2 DEF Ms!View
    <2>4. Ms!TypeOK'
      BY <1>1, <1>2, <2>3 DEF MsInv, Ms!TypeOK, Ms!LinkTypeOK
    <2>5. MsNamed'
      BY <1>1, <1>4, <1>6, <2>3 DEF MsInv, MsNamed, MsOf
    <2>6. MsAwaited'
      BY <1>1, <2>3 DEF MsInv, MsAwaited
    <2>7. /\ Ms!Contains(s10'.list, e.id)
          /\ \A d : Ms!Contains(s10.list, d) => Ms!Contains(s10'.list, d)
          /\ \A i \in DOMAIN s10'.list : s10'.list[i] = e.id \/ \E j \in DOMAIN s10.list : s10'.list[i] = s10.list[j]
          /\ s10.loaded => \A i \in DOMAIN s10'.list : s10'.list[i] \in s10'.known
          /\ s10.loaded /\ Ms!IsInjective(s10.list) => Ms!IsInjective(s10'.list)
      BY <1>4, <1>8, <2>3, MsAdded DEF l
    <2>8. MsKnown'
      BY <1>1, <1>4, <2>3, <2>7 DEF MsInv, MsKnown
    <2>9. Ms!ShownOnce' /\ Ms!LiveOnceReady'
      BY <1>1, <1>7, <2>3, <2>7 DEF MsInv, Ms!ShownOnce, Ms!LiveOnceReady
    <2>10. Ms!RightConversation'
      BY <1>1, <1>4, <1>8, <2>3, <2>7 DEF MsInv, Ms!RightConversation, MsOf
    <2> QED
      BY <2>4, <2>5, <2>6, <2>8, <2>9, <2>10 DEF MsInv
  <1>9. CASE e.conv # s10.conv \/ e.id \in s10.known
    <2>1. s10' = s10
      BY <1>1, <1>9
    <2>2. Ms!TypeOK'
      BY <1>1, <1>2, <2>1 DEF MsInv, Ms!TypeOK, Ms!LinkTypeOK
    <2>3. MsNamed' /\ MsAwaited' /\ MsKnown'
      BY <1>1, <1>6, <2>1 DEF MsInv, MsNamed, MsAwaited, MsKnown
    <2>4. Ms!LiveOnceReady'
      BY <1>1, <1>5, <1>7, <1>9, <2>1 DEF MsInv, MsKnown, Ms!LiveOnceReady
    <2> QED
      BY <1>1, <2>1, <2>2, <2>3, <2>4 DEF MsInv, Ms!ShownOnce, Ms!RightConversation
  <1> QED
    BY <1>8, <1>9

LEMMA MsWireInv == ASSUME MsInv, Ms!Wire PROVE MsInv'
  <1>1. UNCHANGED <<s6, s7, s8, s9, s10, s11, s12>>
    BY DEF Ms!Wire
  <1>2. Ms!LinkTypeOK(Ms!Event)' /\ ((s5' = s5 /\ s13' = s13) \/ (s5' = <<>> /\ s13' = {}))
    BY MsWireKeeps DEF MsInv
  <1>3. Ms!TypeOK'
    BY <1>1, <1>2 DEF MsInv, Ms!TypeOK
  <1>4. MsNamed'
    BY <1>1, <1>2 DEF MsInv, MsNamed
  <1>5. MsAwaited' /\ MsKnown' /\ Ms!LiveOnceReady'
    BY <1>1, <1>2 DEF MsInv, MsAwaited, MsKnown, Ms!LiveOnceReady
  <1> QED
    BY <1>1, <1>3, <1>4, <1>5 DEF MsInv, Ms!ShownOnce, Ms!RightConversation

LEMMA MsNextInv == ASSUME MsInv, Ms!Next PROVE MsInv'
  BY MsCreateInv, MsEmitInv, MsFailInv, MsAnsweredInv, MsDeleteInv, MsGoneInv, MsSelectInv,
     MsAskedInv,
     MsInstallInv, MsOlderInv, MsReceiveInv, MsWireInv DEF Ms!Next

LEMMA MsStillInv == ASSUME MsInv, UNCHANGED Ms!vars PROVE MsInv'
  BY DEF MsInv, Ms!vars, Ms!TypeOK, Ms!ShownOnce, Ms!RightConversation, Ms!LiveOnceReady,
     MsNamed, MsAwaited,
         MsKnown, Ms!link, Ms!LinkTypeOK

-----------------------------------------------------------------------------
(* PartyFeed: a party shown is one the user is in, or word of it is on its *)
(* way.                                                                    *)

PfInv == Pf!TypeOK /\ Pf!NoStaleParty

PfAskRow == [what : {"join", "leave"}, room : Spot]


LEMMA PfKinds ==
  /\ Pf!Idle \in Pf!Fetching /\ Pf!Asked \in Pf!Fetching /\ Pf!Idle # Pf!Asked
  /\ Pf!Idle.pc = "idle" /\ Pf!Asked.pc = "asked"
  /\ \A p \in Pf!Shown : [pc |-> "answered", got |-> p] \in Pf!Fetching
  /\ \A x \in Pf!Fetching : x.pc = "answered" => x.got \in Pf!Shown
  /\ \A x \in Pf!Fetching : x.pc = "asked" => x = Pf!Asked
  BY DEF Pf!Idle, Pf!Asked, Pf!Fetching

LEMMA PfAskRows ==
  ASSUME NEW p \in Pf!Shown, s10 \in Pf!Shown
  PROVE  Pf!Rooms(p) \in Seq(PfAskRow) /\ Pf!Asks(Pf!NoParty, s10) \in Seq(PfAskRow)
  <1>1. \A x, y \in Pf!Shown : Pf!Asks(x, y) \in Seq(PfAskRow)
    <2> TAKE x, y \in Pf!Shown
    <2>1. x # Pf!NoParty => <<Pf!Ask("leave", x)>> \in Seq(PfAskRow)
      BY DEF Pf!Ask, PfAskRow, Pf!Shown
    <2>2. y # Pf!NoParty => <<Pf!Ask("join", y)>> \in Seq(PfAskRow)
      BY DEF Pf!Ask, PfAskRow, Pf!Shown
    <2>3. <<>> \in Seq(PfAskRow)
      OBVIOUS
    <2> DEFINE a == IF x = Pf!NoParty THEN <<>> ELSE <<Pf!Ask("leave", x)>>
               b == IF y = Pf!NoParty THEN <<>> ELSE <<Pf!Ask("join", y)>>
    <2>4. a \in Seq(PfAskRow) /\ b \in Seq(PfAskRow)
      BY <2>1, <2>2, <2>3
    <2>5. Pf!Asks(x, y) = a \o b
      BY DEF Pf!Asks
    <2> HIDE DEF a, b
    <2> QED
      BY <2>4, <2>5, Concatenated
  <1>2. <<>> \in Seq(PfAskRow) /\ Pf!NoParty \in Pf!Shown
    BY DEF Pf!Shown
  <1> QED
    BY <1>1, <1>2 DEF Pf!Rooms

LEMMA PfInitInv == ASSUME Pf!Init PROVE PfInv
  <1>1. Pf!LinkTypeOK(Pf!Event)
    BY DEF Pf!Init, Pf!LinkInit, Pf!LinkTypeOK
  <1>2. Pf!TypeOK
    BY <1>1, PfKinds DEF Pf!Init, Pf!TypeOK, Pf!Shown
  <1> QED
    BY <1>2 DEF Pf!Init, PfInv, Pf!NoStaleParty, Pf!Stale

\* The socket, whatever it does of its own.
LEMMA PfWireKeeps == ASSUME Pf!TypeOK, Pf!Wire PROVE Pf!LinkTypeOK(Pf!Event)' /\ s5' = s5
  <1>0. Pf!LinkTypeOK(Pf!Event) /\ s2 \in Seq(PfAskRow)
    BY DEF Pf!TypeOK, Pf!LinkTypeOK, PfAskRow
  <1>1. CASE Pf!Handle
    <2>1. Head(s2) \in PfAskRow /\ Tail(s2) \in Seq(PfAskRow)
      BY <1>0, <1>1, Tailed DEF Pf!Handle
    <2> QED
      BY <1>0, <1>1, <2>1 DEF Pf!Handle, Pf!LinkTypeOK, PfAskRow
  <1>2. CASE Pf!Reconnect \/ \E p \in Spot : Pf!AnswerJoin(p, p \in s6)
    BY <1>0, <1>2 DEF Pf!Reconnect, Pf!AnswerJoin, Pf!LinkTypeOK, PfAskRow
  <1> QED
    BY <1>1, <1>2 DEF Pf!Wire

\* A word from a party, which reaches a socket in its room.
LEMMA PfTold ==
  ASSUME Pf!TypeOK, NEW p \in Spot, NEW e \in Pf!Event, e.party = p, Pf!Emit(p, e)
  PROVE  /\ Pf!LinkTypeOK(Pf!Event)'
         /\ \A i \in DOMAIN s5 : i \in DOMAIN s5' /\ s5'[i] = s5[i]
         /\ p \in s4 => \E i \in DOMAIN s5' : s5'[i].party = p
  <1>0. Pf!LinkTypeOK(Pf!Event) /\ s5 \in Seq(Pf!Event)
    BY DEF Pf!TypeOK, Pf!LinkTypeOK
  <1>1. CASE p \in s4
    <2>1. /\ s5' \in Seq(Pf!Event) /\ DOMAIN s5' = DOMAIN s5 \cup {Len(s5) + 1}
          /\ \A i \in DOMAIN s5 : s5'[i] = s5[i]
          /\ s5'[Len(s5) + 1] = e
      BY <1>0, <1>1, Longer DEF Pf!Emit
    <2> QED
      BY <1>0, <1>1, <2>1 DEF Pf!Emit, Pf!LinkTypeOK
  <1>2. CASE p \notin s4
    BY <1>0, <1>2 DEF Pf!Emit, Pf!LinkTypeOK
  <1> QED
    BY <1>1, <1>2

\* One more call of the feed, which will still bring word.
LEMMA PfRefetched ==
  ASSUME Pf!TypeOK, NEW f \in Req, Pf!Refetch(f)
  PROVE  s11' \in [Req -> Pf!Fetching] /\ \E g \in Req : s11'[g] = Pf!Asked
  <1>1. s11' = [s11 EXCEPT ![f] = Pf!Asked] /\ s11 \in [Req -> Pf!Fetching]
    BY DEF Pf!Refetch, Pf!TypeOK
  <1>2. s11'[f] = Pf!Asked
    BY <1>1
  <1> QED
    BY <1>1, <1>2, PfKinds

\* An answer that is in makes the page show what it names, and what was under way
\* to the server before goes on.
LEMMA PfInstalled ==
  ASSUME Pf!TypeOK, NEW f \in Req, NEW p \in Pf!Shown, s10' = p, Pf!Say(Pf!Rooms(p)),
         s11' = [s11 EXCEPT ![f] = Pf!Idle], UNCHANGED <<Pf!tables, s9>>,
         s12' \in BOOLEAN
  PROVE  Pf!TypeOK'
  <1>0. Pf!LinkTypeOK(Pf!Event) /\ s2 \in Seq(PfAskRow) /\ s11 \in [Req -> Pf!Fetching]
    BY DEF Pf!TypeOK, Pf!LinkTypeOK, PfAskRow
  <1>1. s2' \in Seq(PfAskRow)
    <2>1. Pf!Rooms(p) \in Seq(PfAskRow)
      BY PfAskRows DEF Pf!TypeOK
    <2>2. s2' = s2 \o Pf!Rooms(p)
      BY DEF Pf!Say
    <2> QED
      BY <1>0, <2>1, <2>2, Concatenated
  <1>2. Pf!LinkTypeOK(Pf!Event)'
    BY <1>0, <1>1 DEF Pf!Say, Pf!LinkTypeOK, PfAskRow
  <1>3. s11' \in [Req -> Pf!Fetching]
    BY <1>0, PfKinds
  <1> QED
    BY <1>2, <1>3 DEF Pf!TypeOK, Pf!tables

LEMMA PfNextInv == ASSUME PfInv, Pf!Next PROVE PfInv'
  <1> USE DEF PfInv
  <1>0. /\ Pf!LinkTypeOK(Pf!Event) /\ s2 \in Seq(PfAskRow) /\ s5 \in Seq(Pf!Event)
        /\ s11 \in [Req -> Pf!Fetching] /\ s12 \in BOOLEAN
        /\ s6 \in SUBSET Spot /\ s10 \in Pf!Shown
    BY DEF Pf!TypeOK, Pf!LinkTypeOK, PfAskRow
  <1>1. ASSUME NEW p \in Spot, Pf!TakeIn(p)
        PROVE  PfInv'
    <2>1. Pf!TypeOK'
      BY <1>1 DEF Pf!TypeOK, Pf!TakeIn, Pf!link, Pf!page, Pf!LinkTypeOK
    <2>2. Pf!NoStaleParty'
      BY <1>1 DEF Pf!NoStaleParty, Pf!Stale, Pf!Coming, Pf!TakeIn, Pf!link, Pf!page
    <2> QED
      BY <2>1, <2>2
  <1>2. ASSUME NEW p \in Spot, Pf!LetGo(p)
        PROVE  PfInv'
    <2>1. Pf!TypeOK'
      BY <1>2 DEF Pf!TypeOK, Pf!LetGo, Pf!link, Pf!page, Pf!LinkTypeOK
    <2>2. Pf!NoStaleParty'
      BY <1>2 DEF Pf!NoStaleParty, Pf!Stale, Pf!Coming, Pf!LetGo, Pf!link, Pf!page
    <2> QED
      BY <2>1, <2>2
  <1>3. ASSUME NEW p \in Spot, Pf!Updated(p)
        PROVE  PfInv'
    <2> DEFINE e == [what |-> "updated", party |-> p]
    <2>1. e \in Pf!Event /\ e.party = p /\ Pf!Emit(p, e)
      BY <1>3 DEF Pf!Event, Pf!Updated
    <2>2. /\ Pf!LinkTypeOK(Pf!Event)'
          /\ \A i \in DOMAIN s5 : i \in DOMAIN s5' /\ s5'[i] = s5[i]
          /\ p \in s4 => \E i \in DOMAIN s5' : s5'[i].party = p
      BY <2>1, PfTold
    <2>3. /\ s8' = s8 \ {p} /\ UNCHANGED <<s6, s7, s9, s10, s11>>
          /\ s12' = (s12 \/ (s10 = p /\ Pf!Stale(p) /\ p \notin s4))
      BY <1>3 DEF Pf!Updated
    <2>4. Pf!TypeOK'
      BY <2>2, <2>3 DEF Pf!TypeOK
    <2>5. Pf!NoStaleParty'
      <3> SUFFICES ASSUME Pf!Stale(s10)', ~s12'
                   PROVE  Pf!Coming(s10)'
        BY DEF Pf!NoStaleParty
      <3>1. Pf!Stale(s10) /\ ~s12 /\ (s10 = p => p \in s4)
        BY <2>3 DEF Pf!Stale
      <3>2. Pf!Coming(s10)
        BY <3>1 DEF Pf!NoStaleParty
      <3>3. CASE s10 = p
        BY <2>2, <2>3, <3>1, <3>3 DEF Pf!Coming
      <3>4. CASE s10 # p
        BY <2>2, <2>3, <3>2, <3>4 DEF Pf!Coming
      <3> QED
        BY <3>3, <3>4
    <2> QED
      BY <2>4, <2>5
  <1>4. ASSUME NEW p \in Spot, Pf!End(p)
        PROVE  PfInv'
    <2> DEFINE e == [what |-> "ended", party |-> p]
    <2>1. e \in Pf!Event /\ e.party = p /\ Pf!Emit(p, e)
      BY <1>4 DEF Pf!Event, Pf!End
    <2>2. /\ Pf!LinkTypeOK(Pf!Event)'
          /\ \A i \in DOMAIN s5 : i \in DOMAIN s5' /\ s5'[i] = s5[i]
          /\ p \in s4 => \E i \in DOMAIN s5' : s5'[i].party = p
      BY <2>1, PfTold
    <2>3. /\ s7' = s7 \cup {p} /\ s6' = s6 \ {p} /\ s8' = s8 \ {p}
          /\ s12' = (s12 \/ (s10 = p /\ p \notin s4))
          /\ UNCHANGED <<s9, s10, s11>>
      BY <1>4 DEF Pf!End
    <2>4. Pf!TypeOK'
      BY <2>2, <2>3 DEF Pf!TypeOK
    <2>5. Pf!NoStaleParty'
      <3> SUFFICES ASSUME Pf!Stale(s10)', ~s12'
                   PROVE  Pf!Coming(s10)'
        BY DEF Pf!NoStaleParty
      <3>1. ~s12 /\ (s10 = p => p \in s4)
        BY <2>3
      <3>2. CASE s10 = p
        BY <2>2, <2>3, <3>1, <3>2 DEF Pf!Coming
      <3>3. CASE s10 # p
        <4>1. Pf!Coming(s10)
          BY <2>3, <3>1, <3>3 DEF Pf!NoStaleParty, Pf!Stale
        <4> QED
          BY <2>2, <2>3, <3>3, <4>1 DEF Pf!Coming
      <3> QED
        BY <3>2, <3>3
    <2> QED
      BY <2>4, <2>5
  <1>5. ASSUME NEW f \in Req, Pf!Refresh(f)
        PROVE  PfInv'
    <2>1. s11' \in [Req -> Pf!Fetching] /\ \E g \in Req : s11'[g] = Pf!Asked
      BY <1>5, PfRefetched DEF Pf!Refresh
    <2>2. UNCHANGED <<Pf!link, Pf!tables, s9, s10, s12>>
      BY <1>5 DEF Pf!Refresh
    <2>3. Pf!TypeOK'
      BY <1>0, <2>1, <2>2 DEF Pf!TypeOK, Pf!LinkTypeOK, Pf!link, Pf!tables
    <2>4. Pf!NoStaleParty'
      BY <2>1 DEF Pf!NoStaleParty, Pf!Coming
    <2> QED
      BY <2>3, <2>4
  <1>6. ASSUME NEW f \in Req, Pf!FetchRead(f)
        PROVE  PfInv'
    <2>1. PICK p \in Pf!Actives : s11' = [s11 EXCEPT ![f] = [pc |-> "answered", got |-> p]]
      BY <1>6 DEF Pf!FetchRead
    <2>2. UNCHANGED <<Pf!link, Pf!tables, s9, s10, s12>>
      BY <1>6 DEF Pf!FetchRead
    <2>3. p \in Pf!Shown /\ (p = Pf!NoParty \/ p \in s6)
      BY <1>0 DEF Pf!Actives, Pf!Shown
    <2>4. /\ s11'[f] = [pc |-> "answered", got |-> p]
          /\ \A g \in Req \ {f} : s11'[g] = s11[g]
          /\ s11' \in [Req -> Pf!Fetching]
      BY <1>0, <2>1, <2>3, PfKinds
    <2>5. Pf!TypeOK'
      BY <2>2, <2>4 DEF Pf!TypeOK, Pf!LinkTypeOK, Pf!link, Pf!tables
    <2>6. Pf!NoStaleParty'
      <3> SUFFICES ASSUME Pf!Stale(s10)
                   PROVE  Pf!Coming(s10)'
        BY <2>2 DEF Pf!NoStaleParty, Pf!Stale, Pf!tables
      <3>1. s11'[f].pc = "answered" /\ s11'[f].got # s10
        BY <2>3, <2>4 DEF Pf!Stale
      <3> QED
        BY <2>2, <3>1 DEF Pf!Coming
    <2> QED
      BY <2>5, <2>6
  <1>7. ASSUME NEW f \in Req, Pf!Install(f)
        PROVE  PfInv'
    <2> DEFINE p == s11[f].got
    <2>1. p \in Pf!Shown
      BY <1>0, <1>7, PfKinds DEF Pf!Install
    <2>2. /\ s10' = p /\ Pf!Say(Pf!Rooms(p)) /\ s12' = Pf!Stale(p)
          /\ s11' = [s11 EXCEPT ![f] = Pf!Idle] /\ UNCHANGED <<Pf!tables, s9>>
      BY <1>7 DEF Pf!Install, Pf!Show
    <2>3. s12' \in BOOLEAN
      BY <2>2 DEF Pf!Stale
    <2> HIDE DEF p
    <2>4. Pf!TypeOK'
      BY <2>1, <2>2, <2>3, PfInstalled
    <2>5. Pf!NoStaleParty'
      BY <2>2 DEF Pf!NoStaleParty, Pf!Stale, Pf!tables
    <2> QED
      BY <2>4, <2>5
  <1>8. ASSUME NEW f \in Req, Pf!FetchFail(f)
        PROVE  PfInv'
    <2>1. /\ s10' = Pf!NoParty /\ Pf!Say(Pf!Rooms(Pf!NoParty)) /\ s12' = FALSE
          /\ Pf!NoParty \in Pf!Shown
          /\ s11' = [s11 EXCEPT ![f] = Pf!Idle] /\ UNCHANGED <<Pf!tables, s9>>
      BY <1>8 DEF Pf!FetchFail, Pf!Show, Pf!Shown
    <2>2. Pf!TypeOK'
      BY <2>1, PfInstalled
    <2>3. Pf!NoStaleParty'
      BY <2>1 DEF Pf!NoStaleParty, Pf!Stale
    <2> QED
      BY <2>2, <2>3
  <1>9. ASSUME NEW f \in Req, Pf!ReceiveUpdated(f)
        PROVE  PfInv'
    <2>1. s11' \in [Req -> Pf!Fetching] /\ \E g \in Req : s11'[g] = Pf!Asked
      BY <1>9, PfRefetched DEF Pf!ReceiveUpdated, Pf!AskAgain
    <2>2. /\ s5' = Tail(s5) /\ UNCHANGED <<s1, s2, s3, s4>> /\ s5 # <<>>
          /\ UNCHANGED <<Pf!tables, s9, s10, s12>>
      BY <1>9 DEF Pf!ReceiveUpdated, Pf!Take
    <2>3. s5' \in Seq(Pf!Event)
      BY <1>0, <2>2, Tailed
    <2>4. Pf!TypeOK'
      BY <1>0, <2>1, <2>2, <2>3 DEF Pf!TypeOK, Pf!LinkTypeOK, Pf!tables
    <2>5. Pf!NoStaleParty'
      BY <2>1 DEF Pf!NoStaleParty, Pf!Coming
    <2> QED
      BY <2>4, <2>5
  <1>10. ASSUME Pf!ReceiveEnded
         PROVE  PfInv'
    <2> DEFINE p == Head(s5).party
               next == IF s10 = p THEN Pf!NoParty ELSE s10
    <2>1. /\ s5 # <<>> /\ s5' = Tail(s5) /\ s10' = next
          /\ s2' = s2 \o Pf!Rooms(next) /\ s12' = (s12 /\ s10 # p)
          /\ UNCHANGED <<s1, s3, s4, Pf!tables, s9, s11>>
      BY <1>10 DEF Pf!ReceiveEnded, Pf!Show
    <2>2. next \in Pf!Shown
      BY <1>0 DEF Pf!Shown
    <2>3. s2' \in Seq(PfAskRow) /\ s5' \in Seq(Pf!Event)
      <3>1. Pf!Rooms(next) \in Seq(PfAskRow)
        BY <1>0, <2>2, PfAskRows
      <3> HIDE DEF next
      <3> QED
        BY <1>0, <2>1, <3>1, Concatenated, Tailed
    <2>4. Pf!TypeOK'
      BY <1>0, <2>1, <2>2, <2>3 DEF Pf!TypeOK, Pf!LinkTypeOK, Pf!tables, PfAskRow
    <2>5. Pf!NoStaleParty'
      <3> SUFFICES ASSUME Pf!Stale(s10)', ~s12'
                   PROVE  Pf!Coming(s10)'
        BY DEF Pf!NoStaleParty
      <3>1. s10 # p /\ s10' = s10 /\ Pf!Stale(s10) /\ ~s12
        BY <2>1 DEF Pf!Stale, Pf!tables
      <3>2. Pf!Coming(s10)
        BY <3>1 DEF Pf!NoStaleParty
      <3>3. \A i \in DOMAIN s5 : s5[i].party = s10 =>
              \E j \in DOMAIN s5' : s5'[j].party = s10
        <4>1. s5[1].party # s10
          BY <1>0, <2>1, <3>1, Tailed
        <4> SUFFICES ASSUME NEW i \in DOMAIN s5, s5[i].party = s10
                     PROVE  \E j \in DOMAIN s5' : s5'[j].party = s10
          OBVIOUS
        <4>2. PICK j \in DOMAIN Tail(s5) : Tail(s5)[j] = s5[i]
          BY <1>0, <4>1, Remains
        <4> QED
          BY <2>1, <4>2
      <3> QED
        BY <2>1, <3>1, <3>2, <3>3 DEF Pf!Coming, Pf!tables
    <2> QED
      BY <2>4, <2>5
  <1>11. ASSUME Pf!SignOut
         PROVE  PfInv'
    <2>1. Pf!LinkTypeOK(Pf!Event)'
      BY <1>11, Nothing DEF Pf!SignOut, Pf!LinkTypeOK
    <2>2. Pf!TypeOK'
      BY <1>11, <2>1 DEF Pf!SignOut, Pf!TypeOK, Pf!Shown, Pf!tables
    <2> QED
      BY <1>11, <2>2 DEF Pf!SignOut, Pf!NoStaleParty, Pf!Stale
  <1>12. ASSUME NEW f \in Req, Pf!SignIn(f)
         PROVE  PfInv'
    <2>1. s11' \in [Req -> Pf!Fetching] /\ \E g \in Req : s11'[g] = Pf!Asked
      BY <1>12, PfRefetched DEF Pf!SignIn
    <2>2. /\ s9' = "authenticated" /\ Pf!Say(Pf!Asks(Pf!NoParty, s10))
          /\ UNCHANGED <<Pf!tables, s10, s12>>
      BY <1>12 DEF Pf!SignIn
    <2>3. s2' \in Seq(PfAskRow)
      <3>1. Pf!Asks(Pf!NoParty, s10) \in Seq(PfAskRow)
        BY <1>0, PfAskRows
      <3> QED
        BY <1>0, <2>2, <3>1, Concatenated DEF Pf!Say
    <2>4. Pf!TypeOK'
      BY <1>0, <2>1, <2>2, <2>3 DEF Pf!TypeOK, Pf!LinkTypeOK, Pf!tables, PfAskRow, Pf!Say
    <2>5. Pf!NoStaleParty'
      BY <2>1 DEF Pf!NoStaleParty, Pf!Coming
    <2> QED
      BY <2>4, <2>5
  <1>13. ASSUME Pf!Lose
         PROVE  PfInv'
    <2>1. Pf!LinkTypeOK(Pf!Event)'
      BY <1>13, Nothing DEF Pf!Lose, Pf!Drop, Pf!LinkTypeOK
    <2>2. s12' \in BOOLEAN
      BY <1>13 DEF Pf!Lose, Pf!Stale
    <2>3. Pf!TypeOK'
      BY <1>13, <2>1, <2>2 DEF Pf!Lose, Pf!TypeOK, Pf!tables
    <2> QED
      BY <1>13, <2>3 DEF Pf!Lose, Pf!NoStaleParty, Pf!Stale, Pf!tables
  <1>14. ASSUME Pf!Wire
         PROVE  PfInv'
    <2>1. Pf!LinkTypeOK(Pf!Event)' /\ s5' = s5 /\ UNCHANGED <<Pf!tables, Pf!page>>
      BY <1>14, PfWireKeeps DEF Pf!Wire
    <2>2. Pf!TypeOK'
      BY <2>1 DEF Pf!TypeOK, Pf!tables, Pf!page
    <2>3. Pf!NoStaleParty'
      BY <2>1 DEF Pf!NoStaleParty, Pf!Stale, Pf!Coming, Pf!tables, Pf!page
    <2> QED
      BY <2>2, <2>3
  <1> QED
    BY <1>1, <1>2, <1>3, <1>4, <1>5, <1>6, <1>7, <1>8, <1>9, <1>10, <1>11, <1>12, <1>13,
       <1>14
       DEF Pf!Next

LEMMA PfStillInv == ASSUME PfInv, UNCHANGED Pf!vars PROVE PfInv'
  BY DEF PfInv, Pf!vars, Pf!TypeOK, Pf!NoStaleParty, Pf!link, Pf!tables, Pf!page,
     Pf!LinkTypeOK, Pf!Stale, Pf!Coming

-----------------------------------------------------------------------------
(* PageSocket: there is a socket for who is signed in and for nobody else. *)

PsInv == Ps!TypeOK /\ Ps!Silent /\ Ps!Heard

LEMMA PsInitInv == ASSUME Ps!Init PROVE PsInv
  BY DEF Ps!Init, PsInv, Ps!TypeOK, Ps!Silent, Ps!Heard, Ps!Open

LEMMA PsNextInv == ASSUME PsInv, Ps!Next PROVE PsInv'
  <1> USE DEF PsInv, Ps!TypeOK, Ps!Open
  <1>1. ASSUME NEW s \in Task, Ps!Apply(s)
        PROVE  PsInv'
    <2>1. /\ s4' \in [Task -> {"none", "dialling", "up", "closed"}]
          /\ s4'[s] = "dialling" /\ \A t \in Task \ {s} : s4'[t] = s4[t]
      BY <1>1 DEF Ps!Apply
    <2>2. Ps!TypeOK'
      BY <1>1, <2>1 DEF Ps!Apply, Ps!Dialling, Ps!Subscribed
    <2>3. Ps!Silent'
      <3> SUFFICES ASSUME NEW t \in Task, t # s, s4'[t] \in {"dialling", "up"}
                   PROVE  t \in s6'
        BY <1>1, <2>1 DEF Ps!Apply, Ps!Silent
      <3>1. t \in s6 \/ (t = s3 /\ s4[t] = "dialling")
        BY <1>1, <2>1 DEF Ps!Apply, Ps!Silent, Ps!Connected
      <3> QED
        BY <1>1, <3>1 DEF Ps!Apply, Ps!Dialling
    <2>4. Ps!Heard'
      BY <1>1, <2>1 DEF Ps!Apply, Ps!Heard, Ps!Subscribed
    <2> QED
      BY <2>2, <2>3, <2>4
  <1>2. ASSUME NEW s \in Task, Ps!Accept(s) \/ Ps!Refuse(s) \/ Ps!Drop(s)
        PROVE  PsInv'
    <2>1. /\ s4' \in [Task -> {"none", "dialling", "up", "closed"}]
          /\ \A t \in Task \ {s} : s4'[t] = s4[t]
          /\ s4[s] \in {"dialling", "up"}
          /\ s4'[s] \in {"dialling", "up"} \/ (s4'[s] = "closed" /\ s7' = (s7 \/ s = s5))
          /\ UNCHANGED <<s1, s2, s3, s5, s6>>
          /\ s7' \in BOOLEAN /\ (s7 => s7')
      BY <1>2 DEF Ps!Accept, Ps!Refuse, Ps!Drop
    <2>2. Ps!TypeOK'
      BY <2>1
    <2>3. Ps!Silent'
      BY <2>1 DEF Ps!Silent
    <2>4. Ps!Heard'
      BY <2>1 DEF Ps!Heard
    <2> QED
      BY <2>2, <2>3, <2>4
  <1>3. CASE Ps!ApplyKept
    <2>1. Ps!TypeOK'
      BY <1>3 DEF Ps!ApplyKept, Ps!Subscribed
    <2>2. Ps!Silent'
      BY <1>3 DEF Ps!ApplyKept, Ps!Silent
    <2>3. Ps!Heard'
      BY <1>3 DEF Ps!ApplyKept, Ps!Heard, Ps!Subscribed, Ps!Connected
    <2> QED
      BY <2>1, <2>2, <2>3
  <1>4. CASE Ps!Expire
    BY <1>4 DEF Ps!Expire, Ps!Silent, Ps!Heard
  <1>5. CASE Ps!SignOut \/ Ps!ClearUnderLogin
    <2>1. /\ s4' \in [Task -> {"none", "dialling", "up", "closed"}]
          /\ \A t \in Task : s4'[t] \in {"dialling", "up"} => t # s3 /\ s4'[t] = s4[t]
          /\ UNCHANGED s6 /\ s3' = Nobody /\ s2' = "none"
          /\ ~s1' \/ s7'
      BY <1>5 DEF Ps!SignOut, Ps!ClearUnderLogin, Ps!Clear, Ps!Disconnected
    <2>2. Ps!TypeOK'
      BY <1>5, <2>1 DEF Ps!SignOut, Ps!ClearUnderLogin
    <2>3. Ps!Silent'
      BY <2>1 DEF Ps!Silent
    <2>4. Ps!Heard'
      BY <2>1 DEF Ps!Heard
    <2> QED
      BY <2>2, <2>3, <2>4
  <1> QED
    BY <1>1, <1>2, <1>3, <1>4, <1>5 DEF Ps!Next

LEMMA PsStillInv == ASSUME PsInv, UNCHANGED Ps!vars PROVE PsInv'
  BY DEF PsInv, Ps!vars, Ps!TypeOK, Ps!Silent, Ps!Heard, Ps!Open

-----------------------------------------------------------------------------
(* Accounts: every session that stands was given for what still holds.     *)

AcByPassword(q) == q.pc = "mail" \/ (q.pc = "session" /\ q.by = "password")

\* A request speaks of a user and of a token there are, proved itself no later than
\* now, and by a password only to an account not deleted by then.
AcSound(q) ==
  /\ q.pc \in {"link", "mail", "change", "session"} => q.user \in 1..Len(s1)
  /\ q.pc \in {"link", "mail", "session"} => q.since <= s5[q.user]
  /\ AcByPassword(q) /\ s1[q.user].deleted => q.since # s5[q.user]
  /\ q.pc = "use" => q.token \in 1..Len(s3)

AcKnown == \A r \in Req : AcSound(s6[r])

AcRows ==
  /\ \A u \in Ac!UserId : u > Len(s1) => s5[u] = 0
  /\ \A u \in DOMAIN s1 : s1[u].deleted => s1[u].email = Ac!Tombstone
  /\ Len(s3) <= MaxTokens

AcUse(t) == [pc |-> "use", token |-> t]

\* Two requests that hold a token have raced for it, and so has one that holds it
\* used.
AcGuarded == \A r \in Req, t \in DOMAIN s3 : s6[r] = AcUse(t) =>
  /\ s3[t].uses > 0 => s3[t].raced
  /\ \A s \in Req \ {r} : s6[s] = AcUse(t) => s3[t].raced

AcWarranted == Ac!DeletedStaysOut /\ Ac!SingleUse

AcInv == Ac!TypeOK /\ AcKnown /\ AcRows /\ AcGuarded /\ AcWarranted

LEMMA AcShapes ==
  /\ Ac!Idle \in Ac!Request /\ Ac!Idle.pc = "idle"
  /\ \A e \in Email : [pc |-> "register", email |-> e] \in Ac!Request
  /\ \A pc \in {"email", "create"}, i \in Identity, e \in Email :
       [pc |-> pc, id |-> i, email |-> e] \in Ac!Request
  /\ \A i \in Identity, u \in Ac!UserId, n \in Nat :
       [pc |-> "link", id |-> i, user |-> u, since |-> n] \in Ac!Request
  /\ \A u \in Ac!UserId, n \in Nat : [pc |-> "mail", user |-> u, since |-> n] \in Ac!Request
  /\ \A u \in Ac!UserId : [pc |-> "change", user |-> u] \in Ac!Request
  /\ \A u \in Ac!UserId, by \in {"password", "identity"}, n \in Nat :
       [pc |-> "session", user |-> u, by |-> by, since |-> n] \in Ac!Request
  /\ \A t \in 1..MaxTokens : AcUse(t) \in Ac!Request /\ AcUse(t).pc = "use" /\ AcUse(t).token = t
  BY DEF Ac!Request, Ac!Idle, AcUse

LEMMA AcFields == ASSUME NEW q \in Ac!Request
  PROVE /\ q.pc = "idle" <=> q = Ac!Idle
        /\ q.pc = "register" => q.email \in Email
        /\ q.pc \in {"email", "create"} => q.id \in Identity /\ q.email \in Email
        /\ q.pc = "link" => q.id \in Identity /\ q.user \in Ac!UserId /\ q.since \in Nat
        /\ q.pc = "mail" => q.user \in Ac!UserId /\ q.since \in Nat
        /\ q.pc = "change" => q.user \in Ac!UserId
        /\ q.pc = "session" => /\ q.user \in Ac!UserId /\ q.since \in Nat
                               /\ q.by \in {"password", "identity"}
        /\ q.pc = "use" => q.token \in 1..MaxTokens /\ q = AcUse(q.token)
  <1>1. q.pc = "idle" <=> q = Ac!Idle
    BY DEF Ac!Request, Ac!Idle
  <1>2. q.pc = "register" => q.email \in Email
    BY DEF Ac!Request, Ac!Idle
  <1>3. q.pc \in {"email", "create"} => q.id \in Identity /\ q.email \in Email
    BY DEF Ac!Request, Ac!Idle
  <1>4. q.pc = "link" => q.id \in Identity /\ q.user \in Ac!UserId /\ q.since \in Nat
    BY DEF Ac!Request, Ac!Idle
  <1>5. q.pc = "mail" => q.user \in Ac!UserId /\ q.since \in Nat
    BY DEF Ac!Request, Ac!Idle
  <1>6. q.pc = "change" => q.user \in Ac!UserId
    BY DEF Ac!Request, Ac!Idle
  <1>7. q.pc = "session" => /\ q.user \in Ac!UserId /\ q.since \in Nat
                            /\ q.by \in {"password", "identity"}
    BY DEF Ac!Request, Ac!Idle
  <1>8. q.pc = "use" => q.token \in 1..MaxTokens /\ q = AcUse(q.token)
    BY DEF Ac!Request, Ac!Idle, AcUse
  <1> QED
    BY <1>1, <1>2, <1>3, <1>4, <1>5, <1>6, <1>7, <1>8

LEMMA AcInitInv == ASSUME Ac!Init PROVE AcInv
  <1>1. Ac!TypeOK
    BY LiveBounds, AcShapes DEF Ac!Init, Ac!TypeOK
  <1>2. AcKnown /\ AcGuarded
    BY AcShapes DEF Ac!Init, AcKnown, AcSound, AcByPassword, AcGuarded, AcUse, Ac!Idle
  <1>3. AcRows
    BY LiveBounds DEF Ac!Init, AcRows
  <1> QED
    BY <1>1, <1>2, <1>3 DEF Ac!Init, AcInv, AcWarranted, Ac!DeletedStaysOut,
       Ac!SingleUse

\* A request that goes on without touching the tables.
LEMMA AcGoesOn ==
  ASSUME AcInv, NEW r \in Req, NEW q \in Ac!Request, Ac!Go(r, q), AcSound(q), q.pc # "use",
         UNCHANGED <<Ac!tables, s5>>
  PROVE  AcInv'
  <1> USE DEF AcInv, Ac!tables
  <1>1. /\ s6' = [s6 EXCEPT ![r] = q] /\ s6 \in [Req -> Ac!Request]
        /\ s6'[r] = q /\ \A s \in Req \ {r} : s6'[s] = s6[s]
    BY DEF Ac!Go, Ac!TypeOK
  <1>2. Ac!TypeOK'
    BY <1>1 DEF Ac!TypeOK
  <1>3. AcKnown'
    BY <1>1 DEF AcKnown, AcSound
  <1>4. AcGuarded'
    BY <1>1, AcShapes DEF AcGuarded, AcUse
  <1> QED
    BY <1>2, <1>3, <1>4 DEF AcRows, AcWarranted, Ac!DeletedStaysOut,
       Ac!SingleUse

\* The account an address leads to is there, and is not deleted.
LEMMA AcFound ==
  ASSUME AcInv, NEW e \in Email, Ac!Taken(e)
  PROVE  /\ Ac!FindByEmail(e) \in DOMAIN s1 /\ Ac!FindByEmail(e) \in 1..Len(s1)
         /\ Ac!FindByEmail(e) \in Ac!UserId /\ ~s1[Ac!FindByEmail(e)].deleted
  <1> USE DEF AcInv
  <1>1. Ac!FindByEmail(e) \in DOMAIN s1 /\ s1[Ac!FindByEmail(e)].email = e
    BY DEF Ac!Taken, Ac!FindByEmail
  <1>2. s1 \in Seq(Ac!UserRow) /\ Len(s1) <= MaxUsers
    BY DEF Ac!TypeOK
  <1> QED
    BY <1>1, <1>2, EmailAssumption, LiveBounds DEF AcRows, Ac!UserRow, Ac!UserId,
       Ac!Tombstone

LEMMA AcArriveInv == ASSUME AcInv, NEW r \in Req, Ac!Arrive(r) PROVE AcInv'
  <1> USE DEF AcInv
  <1>0. /\ s1 \in Seq(Ac!UserRow) /\ Len(s1) <= MaxUsers /\ s5 \in [Ac!UserId -> Nat]
        /\ s3 \in Seq(Ac!TokenRow) /\ s2 \in [Identity -> 0..Len(s1)]
        /\ s6 \in [Req -> Ac!Request]
    BY DEF Ac!TypeOK
  <1>1. ASSUME NEW e \in Email, Ac!Register(r, e)
        PROVE  AcInv'
    BY <1>1, AcGoesOn, AcShapes DEF Ac!Register, AcSound, AcByPassword
  <1>2. ASSUME NEW e \in Email, Ac!Login(r, e)
        PROVE  AcInv'
    <2> DEFINE u == Ac!FindByEmail(e)
               q == Ac!Signing(u, "password")
    <2>1. u \in 1..Len(s1) /\ u \in Ac!UserId /\ ~s1[u].deleted
      BY <1>2, AcFound DEF Ac!Login
    <2>2. q \in Ac!Request /\ AcSound(q) /\ q.pc # "use"
      <3> HIDE DEF u
      <3> QED
        BY <1>0, <2>1, AcShapes DEF Ac!Signing, AcSound, AcByPassword
    <2> QED
      BY <1>2, <2>2, AcGoesOn DEF Ac!Login
  <1>3. ASSUME NEW e \in Email, NEW i \in Identity, Ac!FindIdentity(r, i, e)
        PROVE  AcInv'
    <2>1. CASE s2[i] # 0
      <3> DEFINE q == Ac!Signing(s2[i], "identity")
      <3>1. s2[i] \in Ac!UserId /\ s2[i] \in 1..Len(s1)
        BY <1>0, <2>1, LiveBounds DEF Ac!UserId
      <3>2. q \in Ac!Request /\ AcSound(q) /\ q.pc # "use"
        BY <1>0, <3>1, AcShapes DEF Ac!Signing, AcSound, AcByPassword
      <3> QED
        BY <1>3, <2>1, <3>2, AcGoesOn DEF Ac!FindIdentity
    <2>2. CASE s2[i] = 0
      <3> DEFINE q == [pc |-> "email", id |-> i, email |-> e]
      <3>1. q \in Ac!Request /\ AcSound(q) /\ q.pc # "use"
        BY AcShapes DEF AcSound, AcByPassword
      <3> QED
        BY <1>3, <2>2, <3>1, AcGoesOn DEF Ac!FindIdentity
    <2> QED
      BY <2>1, <2>2
  <1>4. ASSUME NEW t \in DOMAIN s3, Ac!FindToken(r, t)
        PROVE  AcInv'
    <2>1. /\ s6'[r] = AcUse(t) /\ \A s \in Req \ {r} : s6'[s] = s6[s]
          /\ t \in 1..MaxTokens /\ t \in 1..Len(s3) /\ s6[r] = Ac!Idle
      BY <1>0, <1>4, LiveBounds DEF Ac!FindToken, Ac!Go, AcUse, AcRows
    <2>2. s6' \in [Req -> Ac!Request]
      BY <1>0, <1>4, <2>1, AcShapes DEF Ac!FindToken, Ac!Go, AcUse
    <2> DEFINE held == \E s \in Req : s6[s] = AcUse(t)
    <2>3. /\ s3' \in Seq(Ac!TokenRow) /\ Len(s3') = Len(s3)
          /\ DOMAIN s3' = DOMAIN s3
          /\ \A x \in DOMAIN s3 \ {t} : s3'[x] = s3[x]
          /\ s3'[t] = [s3[t] EXCEPT !.raced = @ \/ held]
          /\ s3[t] \in Ac!TokenRow
      <3> DEFINE row == [s3[t] EXCEPT !.raced = @ \/ held]
      <3>1. s3[t] \in Ac!TokenRow
        BY <1>0
      <3>2. (s3[t].raced \/ held) \in BOOLEAN
        BY Zenon
      <3>3. row \in Ac!TokenRow
        <4>1. row = [s3[t] EXCEPT !.raced = row.raced] /\ row.raced \in BOOLEAN
          BY <3>1, <3>2 DEF Ac!TokenRow
        <4> HIDE DEF row
        <4> QED
          BY <3>1, <4>1 DEF Ac!TokenRow
      <3>4. s3' = [s3 EXCEPT ![t] = row]
        BY <1>4 DEF Ac!FindToken, AcUse
      <3> HIDE DEF row
      <3>5. /\ s3' \in Seq(Ac!TokenRow) /\ Len(s3') = Len(s3)
            /\ DOMAIN s3' = DOMAIN s3 /\ s3'[t] = row
            /\ \A x \in DOMAIN s3 \ {t} : s3'[x] = s3[x]
        BY <1>0, <3>3, <3>4, Rewritten
      <3> QED
        BY <3>1, <3>5 DEF row
    <2>4. /\ s3'[t].user = s3[t].user /\ s3'[t].uses = s3[t].uses
          /\ s3'[t].kind = s3[t].kind
          /\ s3[t].raced \/ held => s3'[t].raced
          /\ s3[t].uses = 0
      BY <1>4, <2>3 DEF Ac!TokenRow, Ac!FindToken, Ac!Unused
    <2>5. Ac!TypeOK'
      BY <1>4, <2>2, <2>3, <2>4 DEF Ac!TypeOK, Ac!FindToken
    <2>6. AcKnown'
      BY <1>4, <2>1, <2>3, AcShapes DEF AcKnown, AcSound, AcByPassword, Ac!FindToken
    <2>7. AcRows'
      BY <1>4, <2>3 DEF AcRows, Ac!FindToken
    <2>8. AcGuarded'
      <3> SUFFICES ASSUME NEW s \in Req, NEW x \in DOMAIN s3, s6'[s] = AcUse(x)
                   PROVE  /\ s3'[x].uses > 0 => s3'[x].raced
                          /\ \A o \in Req \ {s} : s6'[o] = AcUse(x) => s3'[x].raced
        BY <2>3 DEF AcGuarded
      <3>1. CASE x = t
        <4>1. ASSUME NEW o \in Req \ {s}, s6'[o] = AcUse(x)
              PROVE  held
          BY <2>1, <3>1, <4>1
        <4> QED
          BY <2>4, <3>1, <4>1
      <3>2. CASE x # t
        <4>1. s # r /\ \A o \in Req : s6'[o] = AcUse(x) => o # r
          BY <2>1, <3>2 DEF AcUse
        <4> QED
          BY <2>1, <2>3, <3>2, <4>1 DEF AcGuarded
      <3> QED
        BY <3>1, <3>2
    <2>9. AcWarranted'
      BY <1>4, <2>3, <2>4 DEF AcWarranted, Ac!DeletedStaysOut,
         Ac!SingleUse, Ac!FindToken
    <2> QED
      BY <2>5, <2>6, <2>7, <2>8, <2>9
  <1>5. ASSUME NEW u \in DOMAIN s1, Ac!CheckPassword(r, u)
        PROVE  AcInv'
    <2>1. u \in 1..Len(s1) /\ u \in Ac!UserId
      BY <1>0, LiveBounds DEF Ac!UserId
    <2> QED
      BY <1>5, <2>1, AcGoesOn, AcShapes DEF Ac!CheckPassword, AcSound, AcByPassword
  <1> QED
    BY <1>1, <1>2, <1>3, <1>4, <1>5 DEF Ac!Arrive

\* Rows that change and name the users they named.
LEMMA AcStillTyped ==
  ASSUME Ac!TypeOK, s1' \in Seq(Ac!UserRow), Len(s1') = Len(s1), UNCHANGED s2,
         s3' \in Seq(Ac!TokenRow), Len(s3') = Len(s3),
         \A t \in DOMAIN s3 : s3'[t].user = s3[t].user,
         s4' \in SUBSET Ac!SessionRow, \A s \in s4' : s.user <= Len(s1),
         s5' \in [Ac!UserId -> Nat], s6' \in [Req -> Ac!Request]
  PROVE  Ac!TypeOK'
  <1>1. s3 \in Seq(Ac!TokenRow)
    BY DEF Ac!TypeOK
  <1>2. DOMAIN s3' = DOMAIN s3
    BY <1>1
  <1> QED
    BY <1>1, <1>2 DEF Ac!TypeOK

\* A new token, of a user there is.
LEMMA AcMailed ==
  ASSUME AcInv, NEW kind \in {"verify", "reset"}, NEW u \in 1..Len(s1),
         Len(s3) < MaxTokens, s3' = Append(s3, Ac!Token(kind, u)),
         UNCHANGED <<s1, s2, s4, s5>>, s6' \in [Req -> Ac!Request],
         \A r \in Req : s6'[r] = s6[r] \/ (AcSound(s6'[r]) /\ s6'[r].pc # "use")
  PROVE  AcInv'
  <1> USE DEF AcInv
  <1>0. /\ s1 \in Seq(Ac!UserRow) /\ Len(s1) <= MaxUsers
        /\ s3 \in Seq(Ac!TokenRow) /\ s6 \in [Req -> Ac!Request] /\ Len(s3) \in Nat
    BY DEF Ac!TypeOK
  <1>1. Ac!Token(kind, u) \in Ac!TokenRow /\ Ac!Token(kind, u).uses = 0 /\ Ac!Token(kind, u).user = u
    BY <1>0, LiveBounds DEF Ac!Token, Ac!TokenRow, Ac!UserId
  <1>2. /\ s3' \in Seq(Ac!TokenRow) /\ Len(s3') = Len(s3) + 1
        /\ DOMAIN s3' = DOMAIN s3 \cup {Len(s3) + 1}
        /\ s3'[Len(s3) + 1] = Ac!Token(kind, u)
        /\ \A t \in DOMAIN s3 : s3'[t] = s3[t]
    BY <1>0, <1>1
  <1>3. Ac!TypeOK'
    BY <1>1, <1>2 DEF Ac!TypeOK
  <1>4. \A r \in Req : s6'[r].pc = "use" => s6'[r] = s6[r] /\ s6[r].token \in 1..Len(s3)
    BY DEF AcKnown, AcSound
  <1>5. AcKnown'
    <2> SUFFICES ASSUME NEW r \in Req PROVE AcSound(s6[r])'
      BY DEF AcKnown
    <2> QED
      BY <1>0, <1>2 DEF AcKnown, AcSound, AcByPassword
  <1>6. AcRows'
    BY <1>0, <1>2, LiveBounds DEF AcRows
  <1>7. AcGuarded'
    <2> SUFFICES ASSUME NEW s \in Req, NEW x \in DOMAIN s3', s6'[s] = AcUse(x)
                 PROVE  /\ s3'[x].uses > 0 => s3'[x].raced
                        /\ \A o \in Req \ {s} : s6'[o] = AcUse(x) => s3'[x].raced
      BY DEF AcGuarded
    <2>1. \A o \in Req : s6'[o] = AcUse(x) => s6[o] = AcUse(x) /\ x \in 1..Len(s3)
      BY <1>4 DEF AcUse
    <2> QED
      BY <1>0, <1>2, <2>1 DEF AcGuarded
  <1>8. AcWarranted'
    BY <1>1, <1>2 DEF AcWarranted, Ac!DeletedStaysOut, Ac!SingleUse
  <1> QED
    BY <1>3, <1>5, <1>6, <1>7, <1>8

\* A new account, and what its request goes on with.
LEMMA AcInserted ==
  ASSUME AcInv, NEW r \in Req, NEW e \in Email, NEW password \in BOOLEAN, Ac!Insert(e, password),
         NEW q \in Ac!Request, Ac!Go(r, q), q.pc \in {"mail", "link"}, q.user = Len(s1) + 1,
         q.since = 0, UNCHANGED <<s2, s3, s4, s5>>
  PROVE  AcInv'
  <1> USE DEF AcInv
  <1>0. /\ s1 \in Seq(Ac!UserRow) /\ Len(s1) <= MaxUsers /\ Len(s1) \in Nat
        /\ s2 \in [Identity -> 0..Len(s1)] /\ s5 \in [Ac!UserId -> Nat]
        /\ s6' = [s6 EXCEPT ![r] = q] /\ s6 \in [Req -> Ac!Request]
        /\ s6'[r] = q /\ \A s \in Req \ {r} : s6'[s] = s6[s]
    BY DEF Ac!Go, Ac!TypeOK
  <1> DEFINE row == [email |-> e, password |-> password, deleted |-> FALSE]
  <1>1. row \in Ac!UserRow /\ ~row.deleted
    BY DEF Ac!UserRow
  <1>2. s1' = Append(s1, row) /\ Len(s1) < MaxUsers
    BY DEF Ac!Insert
  <1> HIDE DEF row
  <1>3. /\ s1' \in Seq(Ac!UserRow) /\ Len(s1') = Len(s1) + 1
        /\ DOMAIN s1' = DOMAIN s1 \cup {Len(s1) + 1}
        /\ s1'[Len(s1) + 1] = row
        /\ \A u \in 1..Len(s1) : s1'[u] = s1[u]
        /\ 1..Len(s1) \subseteq 1..Len(s1')
        /\ Len(s1') <= MaxUsers /\ Len(s1') \in Ac!UserId
    BY <1>0, <1>1, <1>2, LiveBounds DEF Ac!UserId
  <1>4. Ac!TypeOK'
    <2>1. s2' \in [Identity -> 0..Len(s1')]
      BY <1>0, <1>3
    <2>2. s3' \in Seq(Ac!TokenRow) /\ \A t \in DOMAIN s3' : s3'[t].user <= Len(s1')
      <3>1. \A t \in DOMAIN s3 : s3[t].user \in Nat /\ s3[t].user <= Len(s1)
        <4> TAKE t \in DOMAIN s3
        <4>1. s3[t] \in Ac!TokenRow /\ s3[t].user <= Len(s1)
          BY DEF Ac!TypeOK
        <4> QED
          BY <4>1, LiveBounds DEF Ac!TokenRow, Ac!UserId
      <3> QED
        BY <1>0, <1>3, <3>1 DEF Ac!TypeOK
    <2>3. s4' \in SUBSET Ac!SessionRow /\ \A s \in s4' : s.user <= Len(s1')
      <3>1. \A s \in s4 : s.user \in Nat /\ s.user <= Len(s1)
        BY DEF Ac!TypeOK, Ac!SessionRow, Ac!UserId
      <3> QED
        BY <1>0, <1>3, <3>1 DEF Ac!TypeOK
    <2>4. s6' \in [Req -> Ac!Request]
      BY <1>0
    <2> QED
      BY <1>3, <2>1, <2>2, <2>3, <2>4 DEF Ac!TypeOK
  <1>5. AcKnown'
    <2> SUFFICES ASSUME NEW s \in Req PROVE AcSound(s6[s])'
      BY DEF AcKnown
    <2>1. CASE s = r
      BY <1>0, <1>1, <1>3, <2>1 DEF AcSound, AcByPassword, AcRows
    <2>2. CASE s # r
      BY <1>0, <1>3, <2>2 DEF AcKnown, AcSound, AcByPassword
    <2> QED
      BY <2>1, <2>2
  <1>6. AcRows'
    <2>1. \A u \in Ac!UserId : u > Len(s1') => s5'[u] = 0
      BY <1>0, <1>3 DEF AcRows, Ac!UserId
    <2>2. \A u \in DOMAIN s1' : s1'[u].deleted => s1'[u].email = Ac!Tombstone
      <3> SUFFICES ASSUME NEW u \in DOMAIN s1', s1'[u].deleted
                   PROVE  s1'[u].email = Ac!Tombstone
        OBVIOUS
      <3>1. u # Len(s1) + 1
        BY <1>1, <1>3
      <3>2. u \in DOMAIN s1 /\ u \in 1..Len(s1)
        BY <1>0, <1>3, <3>1
      <3>3. s1'[u] = s1[u]
        BY <1>3, <3>2
      <3> QED
        BY <3>2, <3>3 DEF AcRows
    <2>3. Len(s3') <= MaxTokens
      BY DEF AcRows
    <2> QED
      BY <2>1, <2>2, <2>3 DEF AcRows
  <1>7. AcGuarded'
    BY <1>0 DEF AcGuarded, AcUse
  <1>8. AcWarranted'
    <2>1. \A s \in s4 : s1'[s.user] = s1[s.user]
      BY <1>0, <1>3 DEF Ac!TypeOK, Ac!SessionRow, Ac!UserId
    <2> QED
      BY <2>1 DEF AcWarranted, Ac!DeletedStaysOut, Ac!SingleUse
  <1> QED
    BY <1>4, <1>5, <1>6, <1>7, <1>8

\* A user whose row changes and who keeps his address and his deletion.
LEMMA AcPasswordSet ==
  ASSUME AcInv, NEW u \in DOMAIN s1, s1' = [s1 EXCEPT ![u].password = TRUE]
  PROVE  /\ s1' \in Seq(Ac!UserRow) /\ Len(s1') = Len(s1) /\ DOMAIN s1' = DOMAIN s1
         /\ \A v \in DOMAIN s1 : /\ s1'[v].email = s1[v].email
                                 /\ s1'[v].deleted = s1[v].deleted
  <1>0. s1 \in Seq(Ac!UserRow) /\ s1[u] \in Ac!UserRow
    BY DEF AcInv, Ac!TypeOK
  <1> DEFINE row == [s1[u] EXCEPT !.password = TRUE]
  <1>1. row \in Ac!UserRow /\ row.email = s1[u].email /\ row.deleted = s1[u].deleted
    BY <1>0 DEF Ac!UserRow
  <1>2. s1' = [s1 EXCEPT ![u] = row]
    OBVIOUS
  <1> HIDE DEF row
  <1> DEFINE new == [s1 EXCEPT ![u] = row]
  <1>3. /\ new \in Seq(Ac!UserRow) /\ Len(new) = Len(s1) /\ DOMAIN new = DOMAIN s1
        /\ new[u] = row /\ \A v \in DOMAIN s1 \ {u} : new[v] = s1[v]
    BY <1>0, <1>1, Rewritten
  <1>4. s1' = new
    BY <1>2
  <1> HIDE DEF new
  <1> QED
    BY <1>1, <1>3, <1>4

\* A token used once more by the request that holds it.
LEMMA AcUsedInv ==
  ASSUME AcInv, NEW r \in Req, NEW t \in 1..Len(s3), s6[r] = AcUse(t), s3' = Ac!Used(t), Ac!Done(r)
  PROVE  /\ s3' \in Seq(Ac!TokenRow) /\ Len(s3') = Len(s3)
         /\ \A x \in DOMAIN s3 : s3'[x].user = s3[x].user
         /\ AcGuarded' /\ Ac!SingleUse' /\ s6' \in [Req -> Ac!Request]
         /\ s6'[r] = Ac!Idle /\ \A s \in Req \ {r} : s6'[s] = s6[s]
  <1> USE DEF AcInv
  <1>0. /\ s3 \in Seq(Ac!TokenRow) /\ s3[t] \in Ac!TokenRow /\ t \in DOMAIN s3
        /\ s6' = [s6 EXCEPT ![r] = Ac!Idle] /\ s6 \in [Req -> Ac!Request]
        /\ s6'[r] = Ac!Idle /\ \A s \in Req \ {r} : s6'[s] = s6[s]
    BY DEF Ac!TypeOK, Ac!Done, Ac!Go
  <1> DEFINE row == [s3[t] EXCEPT !.uses = IF @ = 2 THEN 2 ELSE @ + 1]
  <1>1. /\ row \in Ac!TokenRow /\ row.user = s3[t].user /\ row.raced = s3[t].raced
        /\ row.uses > 1 => s3[t].uses > 0
    <2>1. /\ row = [s3[t] EXCEPT !.uses = row.uses] /\ row.uses \in 0..2
          /\ row.uses > 1 => s3[t].uses > 0
      BY <1>0 DEF Ac!TokenRow
    <2> HIDE DEF row
    <2> QED
      BY <1>0, <2>1 DEF Ac!TokenRow
  <1>2. s3' = [s3 EXCEPT ![t] = row]
    BY DEF Ac!Used
  <1> HIDE DEF row
  <1>3. /\ s3' \in Seq(Ac!TokenRow) /\ Len(s3') = Len(s3)
        /\ DOMAIN s3' = DOMAIN s3 /\ s3'[t] = row
        /\ \A x \in DOMAIN s3 \ {t} : s3'[x] = s3[x]
    BY <1>0, <1>1, <1>2, Rewritten
  <1>4. AcGuarded'
    <2> SUFFICES ASSUME NEW s \in Req, NEW x \in DOMAIN s3, s6'[s] = AcUse(x)
                 PROVE  /\ s3'[x].uses > 0 => s3'[x].raced
                        /\ \A o \in Req \ {s} : s6'[o] = AcUse(x) => s3'[x].raced
      BY <1>3 DEF AcGuarded
    <2>1. \A o \in Req : s6'[o] = AcUse(x) => s6[o] = AcUse(x) /\ o # r
      BY <1>0 DEF AcUse, Ac!Idle
    <2>2. s3'[x].raced = s3[x].raced
      BY <1>1, <1>3
    <2>3. CASE x = t
      BY <2>1, <2>2, <2>3 DEF AcGuarded
    <2>4. CASE x # t
      BY <1>3, <2>1, <2>4 DEF AcGuarded
    <2> QED
      BY <2>3, <2>4
  <1>5. Ac!SingleUse'
    BY <1>0, <1>1, <1>3 DEF Ac!SingleUse, AcGuarded, AcWarranted
  <1>6. s6' \in [Req -> Ac!Request]
    BY <1>0, AcShapes
  <1> QED
    BY <1>0, <1>1, <1>3, <1>4, <1>5, <1>6

\* The sessions of a user closed: those that are left are of others.
LEMMA AcClosed ==
  ASSUME AcInv, NEW u \in Ac!UserId, Ac!Close(u)
  PROVE  /\ s4' \in SUBSET Ac!SessionRow /\ s4' \subseteq s4
         /\ s5' \in [Ac!UserId -> Nat]
         /\ s5'[u] = s5[u] + 1 /\ \A v \in Ac!UserId \ {u} : s5'[v] = s5[v]
         /\ \A s \in s4' : s.user # u /\ s.user \in Ac!UserId
  <1>0. s5 \in [Ac!UserId -> Nat] /\ s4 \in SUBSET Ac!SessionRow
    BY DEF AcInv, Ac!TypeOK
  <1>1. /\ s5' \in [Ac!UserId -> Nat]
        /\ s5'[u] = s5[u] + 1 /\ \A v \in Ac!UserId \ {u} : s5'[v] = s5[v]
    BY <1>0 DEF Ac!Close
  <1>2. \A s \in s4' : s \in s4 /\ s.user # u /\ s.user \in Ac!UserId
    BY <1>0 DEF Ac!Close, Ac!SessionRow
  <1> QED
    BY <1>0, <1>1, <1>2

\* And where only that user's row is deleted, or none.
LEMMA AcClosedRows ==
  ASSUME AcInv, NEW u \in DOMAIN s1, Ac!Close(u), Len(s1') = Len(s1),
         DOMAIN s1' = DOMAIN s1,
         \A w \in DOMAIN s1 \ {u} : s1'[w].deleted = s1[w].deleted
  PROVE  /\ \A w \in Ac!UserId : w > Len(s1') => s5'[w] = 0
         /\ Ac!DeletedStaysOut'
  <1>0. /\ s1 \in Seq(Ac!UserRow) /\ Len(s1) <= MaxUsers /\ Len(s1) \in Nat
        /\ DOMAIN s1 = 1..Len(s1) /\ u \in Ac!UserId
    BY LiveBounds DEF AcInv, Ac!TypeOK, Ac!UserId
  <1>1. /\ s4' \subseteq s4
        /\ \A w \in Ac!UserId \ {u} : s5'[w] = s5[w]
        /\ \A s \in s4' : s.user # u /\ s.user \in Ac!UserId
    BY <1>0, AcClosed
  <1>2. \A s \in s4' : s.user \in DOMAIN s1
    BY <1>0, <1>1 DEF AcInv, Ac!TypeOK, Ac!UserId
  <1>3. Ac!DeletedStaysOut'
    BY <1>1, <1>2 DEF AcInv, AcWarranted, Ac!DeletedStaysOut
  <1>4. ASSUME NEW w \in Ac!UserId, w > Len(s1')
        PROVE  s5'[w] = 0
    BY <1>0, <1>1, <1>4 DEF AcInv, AcRows
  <1> QED
    BY <1>3, <1>4

LEMMA AcClosedSound ==
  ASSUME AcInv, NEW u \in DOMAIN s1, Ac!Close(u), Len(s1') = Len(s1),
         Len(s3') = Len(s3),
         \A w \in DOMAIN s1 \ {u} : s1'[w].deleted = s1[w].deleted,
         NEW q \in Ac!Request, AcSound(q)
  PROVE  AcSound(q)'
  <1>0. /\ s1 \in Seq(Ac!UserRow) /\ Len(s1) <= MaxUsers /\ Len(s1) \in Nat
        /\ DOMAIN s1 = 1..Len(s1) /\ u \in Ac!UserId /\ DOMAIN s1 \subseteq Ac!UserId
        /\ s5 \in [Ac!UserId -> Nat]
    BY LiveBounds DEF AcInv, Ac!TypeOK, Ac!UserId
  <1>1. /\ s5' \in [Ac!UserId -> Nat]
        /\ s5'[u] = s5[u] + 1 /\ \A w \in Ac!UserId \ {u} : s5'[w] = s5[w]
    BY <1>0, AcClosed
  <1>2. q.pc \in {"link", "mail", "session"} => q.since \in Nat
    BY AcFields
  <1>3. q.pc \in {"link", "mail", "change", "session"} => q.user \in DOMAIN s1
    BY <1>0 DEF AcSound
  <1>4. q.pc \in {"link", "mail", "session"} => /\ q.since <= s5'[q.user]
                                                /\ q.user = u => q.since # s5'[q.user]
    <2>1. q.pc \in {"link", "mail", "session"} => q.since <= s5[q.user]
      BY DEF AcSound
    <2> QED
      BY <1>0, <1>1, <1>2, <1>3, <2>1
  <1>5. AcByPassword(q) /\ s1'[q.user].deleted => q.since # s5'[q.user]
    <2>1. AcByPassword(q) => q.pc \in {"link", "mail", "session"} /\ q.user \in DOMAIN s1
      BY <1>3 DEF AcByPassword
    <2> QED
      BY <1>0, <1>1, <1>4, <2>1 DEF AcSound
  <1> QED
    BY <1>3, <1>4, <1>5, <1>0 DEF AcSound, AcByPassword

LEMMA AcProceedInv == ASSUME AcInv, NEW r \in Req, Ac!Proceed(r) PROVE AcInv'
  <1> USE DEF AcInv
  <1>0. /\ s1 \in Seq(Ac!UserRow) /\ Len(s1) <= MaxUsers /\ Len(s1) \in Nat
        /\ s5 \in [Ac!UserId -> Nat]
        /\ s3 \in Seq(Ac!TokenRow) /\ s2 \in [Identity -> 0..Len(s1)]
        /\ s6 \in [Req -> Ac!Request] /\ s6[r] \in Ac!Request /\ AcSound(s6[r])
        /\ DOMAIN s1 = 1..Len(s1) /\ 1..Len(s1) \subseteq Ac!UserId
    BY LiveBounds DEF Ac!TypeOK, AcKnown, Ac!UserId
  <1> DEFINE u == s6[r].user
  <1>1. CASE Ac!CreateLocal(r) /\ ~Ac!Taken(s6[r].email)
    <2> DEFINE q == [pc |-> "mail", user |-> Len(s1) + 1, since |-> 0]
    <2>1. s6[r].email \in Email
      BY <1>0, <1>1, AcFields DEF Ac!CreateLocal
    <2>2. Ac!Insert(s6[r].email, TRUE) /\ Ac!Go(r, q) /\ UNCHANGED <<s2, s3, s4, s5>>
      BY <1>1 DEF Ac!CreateLocal
    <2>3. Len(s1) + 1 \in Ac!UserId
      BY <1>0, <2>2, LiveBounds DEF Ac!Insert, Ac!UserId
    <2>4. q \in Ac!Request
      BY <2>3, AcShapes
    <2> QED
      BY <2>1, <2>2, <2>4, AcInserted
  <1>2. CASE Ac!CreateOAuth(r) /\ ~Ac!Taken(s6[r].email)
    <2> DEFINE q == [pc |-> "link", id |-> s6[r].id, user |-> Len(s1) + 1, since |-> 0]
    <2>1. s6[r].email \in Email /\ s6[r].id \in Identity
      BY <1>0, <1>2, AcFields DEF Ac!CreateOAuth
    <2>2. Ac!Insert(s6[r].email, FALSE) /\ Ac!Go(r, q) /\ UNCHANGED <<s2, s3, s4, s5>>
      BY <1>2 DEF Ac!CreateOAuth
    <2>3. Len(s1) + 1 \in Ac!UserId
      BY <1>0, <2>2, LiveBounds DEF Ac!Insert, Ac!UserId
    <2>4. q \in Ac!Request
      BY <2>1, <2>3, AcShapes
    <2> QED
      BY <2>1, <2>2, <2>4, AcInserted
  <1>3. CASE \/ Ac!CreateLocal(r) /\ Ac!Taken(s6[r].email)
             \/ Ac!CreateOAuth(r) /\ Ac!Taken(s6[r].email)
             \/ Ac!Fail(r)
    BY <1>3, AcGoesOn, AcShapes
       DEF Ac!CreateLocal, Ac!CreateOAuth, Ac!Fail, Ac!Done, AcSound, AcByPassword, Ac!tables
  <1>4. CASE Ac!MailToken(r)
    <2> DEFINE q == [pc |-> "session", user |-> u, by |-> "password", since |-> s6[r].since]
    <2>1. /\ u \in 1..Len(s1) /\ u \in Ac!UserId /\ s6[r].since \in Nat
          /\ s6[r].since <= s5[u]
          /\ s1[u].deleted => s6[r].since # s5[u]
      BY <1>0, <1>4, AcFields DEF Ac!MailToken, AcSound, AcByPassword
    <2> HIDE DEF u
    <2>2. q \in Ac!Request /\ AcSound(q) /\ q.pc # "use"
      <3>1. q \in Ac!Request
        BY <2>1, AcShapes
      <3>2. AcSound(q) /\ q.pc # "use"
        BY <2>1 DEF AcSound, AcByPassword
      <3> QED
        BY <3>1, <3>2
    <2> HIDE DEF q
    <2>3. /\ s6' = [s6 EXCEPT ![r] = q] /\ Len(s3) < MaxTokens
          /\ s3' = Append(s3, Ac!Token("verify", u))
          /\ UNCHANGED <<s1, s2, s4, s5>>
      BY <1>4 DEF Ac!MailToken, Ac!Go, q, u
    <2>4. s6' \in [Req -> Ac!Request] /\ s6'[r] = q /\ \A s \in Req \ {r} : s6'[s] = s6[s]
      BY <1>0, <2>2, <2>3
    <2> QED
      BY <2>1, <2>2, <2>3, <2>4, AcMailed
  <1>5. CASE Ac!Issue(r)
    <2> DEFINE q == s6[r]
               row == [user |-> q.user, by |-> q.by, since |-> q.since,
                       late |-> q.since # s5[q.user]]
    <2>1. /\ q.user \in 1..Len(s1) /\ q.user \in Ac!UserId /\ q.since \in Nat
          /\ q.by \in {"password", "identity"} /\ q.pc = "session"
          /\ q.by = "password" /\ s1[q.user].deleted => q.since # s5[q.user]
      BY <1>0, <1>5, AcFields DEF Ac!Issue, AcSound, AcByPassword
    <2>2. /\ row \in Ac!SessionRow /\ row.user \in 1..Len(s1)
          /\ s1[row.user].deleted => row.late \/ row.by = "identity"
      BY <2>1 DEF Ac!SessionRow
    <2>3. s4' = s4 \cup {row} /\ Ac!Done(r) /\ UNCHANGED <<s1, s2, s3, s5>>
      BY <1>5 DEF Ac!Issue
    <2> HIDE DEF row, q
    <2>4. /\ s6' = [s6 EXCEPT ![r] = Ac!Idle]
          /\ s6'[r] = Ac!Idle /\ \A s \in Req \ {r} : s6'[s] = s6[s]
      BY <1>0, <2>3 DEF Ac!Done, Ac!Go
    <2>5. Ac!TypeOK'
      <3>1. s4' \in SUBSET Ac!SessionRow /\ \A s \in s4' : s.user <= Len(s1)
        BY <1>0, <2>2, <2>3 DEF Ac!TypeOK
      <3>2. s6' \in [Req -> Ac!Request]
        BY <1>0, <2>4, AcShapes
      <3> QED
        BY <2>3, <3>1, <3>2, AcStillTyped DEF Ac!TypeOK
    <2>6. AcKnown' /\ AcRows' /\ AcGuarded'
      <3>1. AcKnown'
        BY <2>3, <2>4, AcShapes DEF AcKnown, AcSound, AcByPassword
      <3>2. AcGuarded'
        <4>1. \A s \in Req, t \in DOMAIN s3 : s6'[s] = AcUse(t) => s6[s] = AcUse(t)
          BY <2>4 DEF AcUse, Ac!Idle
        <4> QED
          BY <2>3, <4>1 DEF AcGuarded
      <3> QED
        BY <2>3, <3>1, <3>2 DEF AcRows
    <2>7. AcWarranted'
      <3>1. Ac!DeletedStaysOut'
        BY <2>2, <2>3 DEF AcWarranted, Ac!DeletedStaysOut
      <3>2. Ac!SingleUse'
        BY <2>3 DEF AcWarranted, Ac!SingleUse
      <3> QED
        BY <3>1, <3>2 DEF AcWarranted
    <2> QED
      BY <2>5, <2>6, <2>7
  <1>6. CASE Ac!FindEmail(r)
    <2> DEFINE i == s6[r].id
               e == s6[r].email
    <2>1. e \in Email /\ i \in Identity
      BY <1>0, <1>6, AcFields DEF Ac!FindEmail
    <2>2. CASE Ac!Taken(e)
      <3> DEFINE v == Ac!FindByEmail(e)
                 q == [pc |-> "link", id |-> i, user |-> v, since |-> s5[v]]
      <3>1. v \in 1..Len(s1) /\ v \in Ac!UserId
        BY <2>1, <2>2, AcFound
      <3>2. q \in Ac!Request /\ AcSound(q) /\ q.pc # "use"
        <4> HIDE DEF v, i, e
        <4> QED
          BY <1>0, <2>1, <3>1, AcShapes DEF AcSound, AcByPassword
      <3> QED
        BY <1>6, <2>2, <3>2, AcGoesOn DEF Ac!FindEmail
    <2>3. CASE ~Ac!Taken(e)
      <3> DEFINE q == [pc |-> "create", id |-> i, email |-> e]
      <3>1. q \in Ac!Request /\ AcSound(q) /\ q.pc # "use"
        BY <2>1, AcShapes DEF AcSound, AcByPassword
      <3> QED
        BY <1>6, <2>3, <3>1, AcGoesOn DEF Ac!FindEmail
    <2> QED
      BY <2>2, <2>3
  <1>7. CASE Ac!LinkIdentity(r)
    <2> DEFINE q == s6[r]
               next == [pc |-> "session", user |-> u, by |-> "identity", since |-> q.since]
    <2>1. /\ q.id \in Identity /\ u \in 1..Len(s1) /\ u \in Ac!UserId /\ q.since \in Nat
          /\ q.since <= s5[u]
      BY <1>0, <1>7, AcFields DEF Ac!LinkIdentity, AcSound
    <2>2. next \in Ac!Request /\ AcSound(next) /\ next.pc # "use"
      <3> HIDE DEF u
      <3> QED
        BY <2>1, AcShapes DEF AcSound, AcByPassword
    <2> HIDE DEF next, u
    <2>3. CASE s2[q.id] = 0
      <3>1. /\ s2' = [s2 EXCEPT ![q.id] = u] /\ s6' = [s6 EXCEPT ![r] = next]
            /\ UNCHANGED <<s1, s3, s4, s5>>
        BY <1>7, <2>3 DEF Ac!LinkIdentity, Ac!Go, next, u
      <3>2. s6' \in [Req -> Ac!Request] /\ s6'[r] = next /\ \A s \in Req \ {r} : s6'[s] = s6[s]
        BY <1>0, <2>2, <3>1
      <3>3. s2' \in [Identity -> 0..Len(s1)]
        BY <1>0, <2>1, <3>1
      <3>4. Ac!TypeOK'
        BY <3>1, <3>2, <3>3 DEF Ac!TypeOK
      <3>5. AcKnown'
        BY <2>2, <3>1, <3>2 DEF AcKnown, AcSound
      <3>6. AcGuarded'
        BY <2>2, <3>1, <3>2, AcShapes DEF AcGuarded, AcUse
      <3> QED
        BY <3>1, <3>4, <3>5, <3>6
           DEF AcRows, AcWarranted, Ac!DeletedStaysOut, Ac!SingleUse
    <2>4. CASE s2[q.id] # 0
      BY <1>7, <2>4, AcGoesOn, AcShapes DEF Ac!LinkIdentity, Ac!Done, AcSound, AcByPassword,
         Ac!tables
    <2> QED
      BY <2>3, <2>4
  <1>8. CASE Ac!VerifyTx(r)
    <2> DEFINE t == s6[r].token
    <2>1. t \in 1..Len(s3) /\ s6[r] = AcUse(t)
      BY <1>0, <1>8, AcFields DEF Ac!VerifyTx, AcSound
    <2>2. s3' = Ac!Used(t) /\ Ac!Done(r) /\ UNCHANGED <<s1, s2, s4, s5>>
      BY <1>8 DEF Ac!VerifyTx
    <2> HIDE DEF t
    <2>3. /\ s3' \in Seq(Ac!TokenRow) /\ Len(s3') = Len(s3)
          /\ \A x \in DOMAIN s3 : s3'[x].user = s3[x].user
          /\ AcGuarded' /\ Ac!SingleUse' /\ s6' \in [Req -> Ac!Request]
          /\ s6'[r] = Ac!Idle /\ \A s \in Req \ {r} : s6'[s] = s6[s]
      BY <2>1, <2>2, AcUsedInv
    <2>4. Ac!TypeOK'
      BY <1>0, <2>2, <2>3, AcStillTyped DEF Ac!TypeOK
    <2>5. AcKnown'
      BY <2>2, <2>3, AcShapes DEF AcKnown, AcSound, AcByPassword
    <2> QED
      BY <2>2, <2>3, <2>4, <2>5 DEF AcRows, AcWarranted, Ac!DeletedStaysOut
  <1>9. CASE Ac!ResetTx(r)
    <2> DEFINE t == s6[r].token
               v == s3[t].user
    <2>1. t \in 1..Len(s3) /\ s6[r] = AcUse(t) /\ t \in DOMAIN s3
      BY <1>0, <1>9, AcFields DEF Ac!ResetTx, AcSound
    <2>2. v \in DOMAIN s1 /\ v \in Ac!UserId
      <3>1. s3[t] \in Ac!TokenRow /\ v <= Len(s1) /\ Len(s1) \in Nat
        BY <1>0, <2>1 DEF Ac!TypeOK
      <3>2. v \in Ac!UserId
        BY <3>1 DEF Ac!TokenRow
      <3>3. v \in Nat /\ v >= 1
        BY <3>2, LiveBounds DEF Ac!UserId
      <3> HIDE DEF v
      <3>4. v \in 1..Len(s1)
        BY <3>1, <3>3
      <3> QED
        BY <1>0, <3>2, <3>4
    <2>3. /\ s3' = Ac!Used(t) /\ Ac!Done(r) /\ UNCHANGED s2 /\ Ac!Close(v)
          /\ s1' = [s1 EXCEPT ![v].password = TRUE]
      BY <1>9 DEF Ac!ResetTx
    <2> HIDE DEF t, v
    <2>4. /\ s3' \in Seq(Ac!TokenRow) /\ Len(s3') = Len(s3)
          /\ \A x \in DOMAIN s3 : s3'[x].user = s3[x].user
          /\ AcGuarded' /\ Ac!SingleUse' /\ s6' \in [Req -> Ac!Request]
          /\ s6'[r] = Ac!Idle /\ \A s \in Req \ {r} : s6'[s] = s6[s]
      BY <2>1, <2>3, AcUsedInv
    <2>5. /\ s1' \in Seq(Ac!UserRow) /\ Len(s1') = Len(s1) /\ DOMAIN s1' = DOMAIN s1
          /\ \A w \in DOMAIN s1 : /\ s1'[w].email = s1[w].email
                                  /\ s1'[w].deleted = s1[w].deleted
      BY <2>2, <2>3, AcPasswordSet
    <2>6. /\ s4' \in SUBSET Ac!SessionRow /\ s4' \subseteq s4
          /\ s5' \in [Ac!UserId -> Nat]
          /\ s5'[v] = s5[v] + 1 /\ \A w \in Ac!UserId \ {v} : s5'[w] = s5[w]
          /\ \A s \in s4' : s.user # v /\ s.user \in Ac!UserId
      BY <2>2, <2>3, AcClosed
    <2>7. Ac!TypeOK'
      BY <2>3, <2>4, <2>5, <2>6, AcStillTyped DEF Ac!TypeOK
    <2>8. AcKnown'
      <3> SUFFICES ASSUME NEW s \in Req, s # r PROVE AcSound(s6[s])'
        BY <2>4, AcShapes DEF AcKnown, AcSound, AcByPassword
      <3>1. s6'[s] = s6[s] /\ AcSound(s6[s]) /\ s6[s] \in Ac!Request
        BY <1>0, <2>4 DEF AcKnown
      <3> DEFINE q == s6[s]
      <3>2. AcSound(q)'
        BY <2>2, <2>3, <2>4, <2>5, <3>1, AcClosedSound
      <3> QED
        BY <3>1, <3>2
    <2>9. AcRows'
      <3>1. \A w \in Ac!UserId : w > Len(s1') => s5'[w] = 0
        BY <2>2, <2>3, <2>5, AcClosedRows
      <3>2. \A w \in DOMAIN s1' : s1'[w].deleted => s1'[w].email = Ac!Tombstone
        BY <2>5 DEF AcRows
      <3> QED
        BY <2>4, <3>1, <3>2 DEF AcRows
    <2>10. Ac!DeletedStaysOut'
      BY <2>2, <2>3, <2>5, AcClosedRows
    <2> QED
      BY <2>4, <2>6, <2>7, <2>8, <2>9, <2>10 DEF AcWarranted
  <1>10. CASE Ac!UpdatePassword(r)
    <2>1. u \in DOMAIN s1
      BY <1>0, <1>10 DEF Ac!UpdatePassword, AcSound
    <2>2. /\ s1' = [s1 EXCEPT ![u].password = TRUE] /\ Ac!Done(r)
          /\ UNCHANGED <<s2, s3, s4, s5>>
      BY <1>10 DEF Ac!UpdatePassword
    <2> HIDE DEF u
    <2>3. /\ s1' \in Seq(Ac!UserRow) /\ Len(s1') = Len(s1) /\ DOMAIN s1' = DOMAIN s1
          /\ \A w \in DOMAIN s1 : /\ s1'[w].email = s1[w].email
                                  /\ s1'[w].deleted = s1[w].deleted
      BY <2>1, <2>2, AcPasswordSet
    <2>4. /\ s6' = [s6 EXCEPT ![r] = Ac!Idle] /\ s6' \in [Req -> Ac!Request]
          /\ s6'[r] = Ac!Idle /\ \A s \in Req \ {r} : s6'[s] = s6[s]
      BY <1>0, <2>2, AcShapes DEF Ac!Done, Ac!Go
    <2>5. Ac!TypeOK'
      BY <2>2, <2>3, <2>4 DEF Ac!TypeOK
    <2>6. AcKnown'
      BY <1>0, <2>2, <2>3, <2>4, AcShapes DEF AcKnown, AcSound, AcByPassword
    <2>7. AcGuarded'
      BY <2>2, <2>4 DEF AcGuarded, AcUse, Ac!Idle
    <2>8. AcRows'
      BY <2>2, <2>3 DEF AcRows
    <2>9. AcWarranted'
      BY <1>0, <2>2, <2>3
         DEF AcWarranted, Ac!DeletedStaysOut, Ac!SingleUse, Ac!TypeOK, Ac!SessionRow, Ac!UserId
    <2> QED
      BY <2>5, <2>6, <2>7, <2>8, <2>9
  <1> QED
    BY <1>1, <1>2, <1>3, <1>4, <1>5, <1>6, <1>7, <1>8, <1>9, <1>10
       DEF Ac!Proceed, Ac!CreateLocal, Ac!CreateOAuth

LEMMA AcNextInv == ASSUME AcInv, Ac!Next PROVE AcInv'
  <1> USE DEF AcInv
  <1>0. /\ s1 \in Seq(Ac!UserRow) /\ Len(s1) <= MaxUsers /\ Len(s1) \in Nat
        /\ s5 \in [Ac!UserId -> Nat] /\ s6 \in [Req -> Ac!Request]
        /\ DOMAIN s1 = 1..Len(s1) /\ 1..Len(s1) \subseteq Ac!UserId
    BY LiveBounds DEF Ac!TypeOK, Ac!UserId
  <1>1. CASE \E r \in Req : Ac!Arrive(r) \/ Ac!Proceed(r)
    BY <1>1, AcArriveInv, AcProceedInv
  <1>2. ASSUME NEW kind \in {"verify", "reset"}, NEW e \in Email, Ac!SendToken(kind, e)
        PROVE  AcInv'
    <2>1. Ac!FindByEmail(e) \in 1..Len(s1)
      BY <1>2, AcFound DEF Ac!SendToken
    <2> QED
      BY <1>0, <1>2, <2>1, AcMailed DEF Ac!SendToken
  <1>3. ASSUME NEW s \in s4, Ac!Revoke(s)
        PROVE  AcInv'
    <2>1. /\ s4' \subseteq s4 /\ UNCHANGED <<s1, s2, s3, s5, s6>>
      BY <1>3 DEF Ac!Revoke
    <2>2. Ac!TypeOK'
      BY <2>1 DEF Ac!TypeOK
    <2>3. AcKnown' /\ AcRows' /\ AcGuarded'
      BY <2>1 DEF AcKnown, AcSound, AcByPassword, AcRows, AcGuarded
    <2>4. AcWarranted'
      BY <2>1 DEF AcWarranted, Ac!DeletedStaysOut, Ac!SingleUse
    <2> QED
      BY <2>2, <2>3, <2>4
  <1>4. ASSUME NEW u \in DOMAIN s1, Ac!Delete(u)
        PROVE  AcInv'
    <2>0. /\ u \in Ac!UserId /\ s1' = [s1 EXCEPT ![u] = Ac!Scrubbed(u)] /\ Ac!Close(u)
          /\ UNCHANGED <<s2, s3, s6>>
      BY <1>0, <1>4 DEF Ac!Delete
    <2>1. Ac!Scrubbed(u) \in Ac!UserRow /\ Ac!Scrubbed(u).email = Ac!Tombstone
      BY DEF Ac!Scrubbed, Ac!UserRow
    <2>2. /\ s1' \in Seq(Ac!UserRow) /\ Len(s1') = Len(s1) /\ DOMAIN s1' = DOMAIN s1
          /\ s1'[u] = Ac!Scrubbed(u) /\ \A v \in DOMAIN s1 \ {u} : s1'[v] = s1[v]
      BY <2>0, <2>1, Rewritten DEF Ac!TypeOK
    <2>3. /\ s4' \in SUBSET Ac!SessionRow /\ s4' \subseteq s4
          /\ s5' \in [Ac!UserId -> Nat]
          /\ s5'[u] = s5[u] + 1 /\ \A w \in Ac!UserId \ {u} : s5'[w] = s5[w]
          /\ \A s \in s4' : s.user # u /\ s.user \in Ac!UserId
      BY <2>0, AcClosed
    <2>4. Ac!TypeOK'
      BY <2>0, <2>2, <2>3, AcStillTyped DEF Ac!TypeOK
    <2>5. AcKnown'
      <3> SUFFICES ASSUME NEW s \in Req PROVE AcSound(s6[s])'
        BY DEF AcKnown
      <3> DEFINE q == s6[s]
      <3>1. AcSound(q) /\ q \in Ac!Request /\ s6'[s] = q
        BY <1>0, <2>0 DEF AcKnown
      <3>2. AcSound(q)'
        BY <2>0, <2>2, <3>1, AcClosedSound
      <3> QED
        BY <3>1, <3>2
    <2>6. AcRows'
      <3>1. \A w \in Ac!UserId : w > Len(s1') => s5'[w] = 0
        BY <2>0, <2>2, AcClosedRows
      <3>2. \A w \in DOMAIN s1' : s1'[w].deleted => s1'[w].email = Ac!Tombstone
        BY <2>1, <2>2 DEF AcRows
      <3> QED
        BY <2>0, <3>1, <3>2 DEF AcRows
    <2>7. AcGuarded' /\ Ac!SingleUse'
      BY <2>0 DEF AcGuarded, AcWarranted, Ac!SingleUse
    <2>8. Ac!DeletedStaysOut'
      BY <2>0, <2>2, AcClosedRows
    <2> QED
      BY <2>3, <2>4, <2>5, <2>6, <2>7, <2>8 DEF AcWarranted
  <1> QED
    BY <1>1, <1>2, <1>3, <1>4 DEF Ac!Next

LEMMA AcStillInv == ASSUME AcInv, UNCHANGED Ac!vars PROVE AcInv'
  BY DEF AcInv, Ac!vars, Ac!TypeOK, AcKnown, AcRows, AcGuarded, AcWarranted, Ac!tables,
     AcSound,
         Ac!DeletedStaysOut, Ac!SingleUse

-----------------------------------------------------------------------------
(* Uploads: a file of a finished upload is stored, and no other upload has *)
(* it.                                                                     *)

\* Where an upload is says what has become of its file, which no other upload has.
UpHeld ==
  /\ \A t \in Req : s7[t] # Up!Idle =>
       /\ s7[t].pc \in {"owner", "save"} => s7[t].file \notin s1
       /\ s7[t].pc \in {"record", "point"} => s7[t].file \in s1
       /\ s7[t].pc = "point" => s7[t].file \in s2
  /\ \A t, u \in Req : s7[t] # Up!Idle /\ s7[u] # Up!Idle /\ s7[t].file = s7[u].file => t = u

UpInv == Up!TypeOK /\ Up!Served /\ Up!Erased /\ UpHeld

LEMMA UpKinds ==
  /\ Up!Idle \in Up!Tasks /\ Up!Idle.pc = "idle"
  /\ \A x \in Up!Tasks : x # Up!Idle => /\ x.kind \in {"avatar", "icon", "attachment"}
                                        /\ x.pc \in {"owner", "save", "record", "point"}
                                        /\ x.file \in Task
                                        /\ x = Up!At(x.kind, x.pc, x.file)
  /\ \A k \in {"avatar", "icon", "attachment"}, pc \in {"owner", "save", "record", "point"}, f \in Task :
       /\ Up!At(k, pc, f) \in Up!Tasks /\ Up!At(k, pc, f) # Up!Idle
       /\ Up!At(k, pc, f).kind = k /\ Up!At(k, pc, f).pc = pc /\ Up!At(k, pc, f).file = f
  <1> DEFINE Rows == [kind : {"avatar", "icon", "attachment"},
                     pc : {"owner", "save", "record", "point"}, file : Task]
  <1>1. Up!Idle.pc = "idle" /\ Up!Idle \in Up!Tasks /\ Up!Tasks = {Up!Idle} \cup Rows
    BY DEF Up!Idle, Up!Tasks
  <1>2. \A x \in Rows : x.pc # "idle"
    OBVIOUS
  <1>3. \A x \in Rows : /\ x.kind \in {"avatar", "icon", "attachment"}
                        /\ x.pc \in {"owner", "save", "record", "point"}
                        /\ x.file \in Task
                        /\ x = Up!At(x.kind, x.pc, x.file)
    BY DEF Up!At
  <1>4. \A k \in {"avatar", "icon", "attachment"}, pc \in {"owner", "save", "record", "point"}, f \in Task :
       /\ Up!At(k, pc, f) \in Rows
       /\ Up!At(k, pc, f).kind = k /\ Up!At(k, pc, f).pc = pc /\ Up!At(k, pc, f).file = f
    BY DEF Up!At
  <1> HIDE DEF Rows
  <1> QED
    BY <1>1, <1>2, <1>3, <1>4

LEMMA UpSteps ==
  ASSUME NEW x \in Up!Tasks, x # Up!Idle, NEW pc \in {"save", "record", "point"}
  PROVE  [x EXCEPT !.pc = pc] = Up!At(x.kind, pc, x.file)
  <1>1. x \in [kind : {"avatar", "icon", "attachment"},
               pc : {"owner", "save", "record", "point"}, file : Task]
    BY DEF Up!Tasks
  <1> QED
    BY <1>1 DEF Up!At

LEMMA UpInitInv == ASSUME Up!Init PROVE UpInv
  BY UpKinds DEF Up!Init, UpInv, Up!TypeOK, Up!Served, Up!Erased, UpHeld

\* An upload that goes on keeps its kind and its file, and the others are as they were.
LEMMA UpGoes ==
  ASSUME UpInv, NEW t \in Req, NEW pc \in {"save", "record", "point"}, s7[t] # Up!Idle, Up!Goto(t, pc)
  PROVE  /\ s7' \in [Req -> Up!Tasks]
         /\ s7'[t] = Up!At(s7[t].kind, pc, s7[t].file)
         /\ s7'[t] # Up!Idle /\ s7'[t].pc = pc /\ s7'[t].file = s7[t].file
         /\ s7'[t].kind = s7[t].kind
         /\ \A u \in Req \ {t} : s7'[u] = s7[u]
  <1>1. s7 \in [Req -> Up!Tasks] /\ s7[t] \in Up!Tasks
    BY DEF UpInv, Up!TypeOK
  <1>2. s7' = [s7 EXCEPT ![t] = [s7[t] EXCEPT !.pc = pc]]
    BY DEF Up!Goto
  <1>3. s7' = [s7 EXCEPT ![t] = Up!At(s7[t].kind, pc, s7[t].file)]
    <2>1. [s7[t] EXCEPT !.pc = pc] = Up!At(s7[t].kind, pc, s7[t].file)
      BY <1>1, UpSteps
    <2> QED
      BY <1>2, <2>1
  <1>4. /\ Up!At(s7[t].kind, pc, s7[t].file) \in Up!Tasks
        /\ Up!At(s7[t].kind, pc, s7[t].file) # Up!Idle
        /\ Up!At(s7[t].kind, pc, s7[t].file).pc = pc
        /\ Up!At(s7[t].kind, pc, s7[t].file).kind = s7[t].kind
        /\ Up!At(s7[t].kind, pc, s7[t].file).file = s7[t].file
    BY <1>1, UpKinds
  <1> QED
    BY <1>1, <1>3, <1>4

LEMMA UpEnds ==
  ASSUME UpInv, NEW t \in Req, Up!End(t)
  PROVE  /\ s7' \in [Req -> Up!Tasks] /\ s7'[t] = Up!Idle
         /\ \A u \in Req \ {t} : s7'[u] = s7[u]
  BY UpKinds DEF UpInv, Up!TypeOK, Up!End

LEMMA UpNextInv == ASSUME UpInv, Up!Next PROVE UpInv'
  <1>1. ASSUME NEW t \in Req, NEW kind \in {"avatar", "icon", "attachment"}, NEW f \in Task,
               Up!Begin(t, kind, f)
        PROVE  UpInv'
    <2> DEFINE pc == IF kind = "icon" THEN "owner" ELSE "save"
    <2>1. /\ s7[t] = Up!Idle /\ f \notin Up!Used \cup s8
          /\ s7' = [s7 EXCEPT ![t] = Up!At(kind, pc, f)]
          /\ UNCHANGED <<s1, s2, s3, s4, s5, s6, s8, s9>>
      BY <1>1 DEF Up!Begin
    <2>2. pc \in {"owner", "save"}
      OBVIOUS
    <2> HIDE DEF pc
    <2>3. /\ s7' \in [Req -> Up!Tasks] /\ s7'[t] # Up!Idle
          /\ s7'[t].pc = pc /\ s7'[t].file = f
          /\ \A u \in Req \ {t} : s7'[u] = s7[u]
      BY <2>1, <2>2, UpKinds DEF UpInv, Up!TypeOK
    <2>4. f \notin s1 /\ \A u \in Req : s7[u] # Up!Idle => s7[u].file # f
      BY <2>1 DEF Up!Used
    <2>5. Up!TypeOK'
      BY <2>1, <2>3 DEF UpInv, Up!TypeOK
    <2>6. Up!Served'
      BY <2>1, <2>3 DEF UpInv, Up!Served
    <2>7. UpHeld'
      BY <2>1, <2>2, <2>3, <2>4 DEF UpInv, UpHeld
    <2> QED
      BY <2>1, <2>5, <2>6, <2>7 DEF UpInv, Up!Erased
  <1>2. ASSUME NEW t \in Req, Up!FindOwner(t)
        PROVE  UpInv'
    <2>1. /\ s7[t].pc = "owner" /\ s7[t] # Up!Idle
          /\ UNCHANGED <<s1, s2, s3, s4, s5, s6, s8, s9>>
      BY <1>2, UpKinds DEF Up!FindOwner
    <2>2. s7[t].file \notin s1
      BY <2>1 DEF UpInv, UpHeld
    <2>3. /\ s7' \in [Req -> Up!Tasks]
          /\ \A u \in Req \ {t} : s7'[u] = s7[u]
          /\ s7'[t] = Up!Idle \/ (s7'[t].pc = "save" /\ s7'[t].file = s7[t].file)
      BY <1>2, <2>1, UpGoes, UpEnds DEF Up!FindOwner
    <2>4. Up!TypeOK' /\ Up!Erased'
      BY <2>1, <2>3 DEF UpInv, Up!TypeOK, Up!Erased
    <2>5. Up!Served'
      BY <2>1, <2>2, <2>3 DEF UpInv, Up!Served
    <2>6. UpHeld'
      BY <2>1, <2>2, <2>3 DEF UpInv, UpHeld
    <2> QED
      BY <2>4, <2>5, <2>6 DEF UpInv
  <1>3. ASSUME NEW t \in Req, Up!Store(t)
        PROVE  UpInv'
    <2>1. /\ s7[t].pc = "save" /\ s7[t] # Up!Idle /\ Up!Goto(t, "record")
          /\ s1' = s1 \cup {s7[t].file}
          /\ UNCHANGED <<s2, s3, s4, s5, s6, s8, s9>>
      BY <1>3, UpKinds DEF Up!Store
    <2>2. /\ s7' \in [Req -> Up!Tasks]
          /\ \A u \in Req \ {t} : s7'[u] = s7[u]
          /\ s7'[t] # Up!Idle /\ s7'[t].pc = "record" /\ s7'[t].file = s7[t].file
      BY <2>1, UpGoes
    <2>3. s7[t].file \in Task
      BY <2>1, UpKinds DEF UpInv, Up!TypeOK
    <2>4. Up!TypeOK' /\ Up!Erased'
      BY <2>1, <2>2, <2>3 DEF UpInv, Up!TypeOK, Up!Erased
    <2>5. Up!Served'
      BY <2>1, <2>2 DEF UpInv, Up!Served
    <2>6. UpHeld'
      BY <2>1, <2>2 DEF UpInv, UpHeld
    <2> QED
      BY <2>4, <2>5, <2>6 DEF UpInv
  <1>4. ASSUME NEW t \in Req, Up!Record(t)
        PROVE  UpInv'
    <2>1. /\ s7[t].pc = "record" /\ s7[t] # Up!Idle
          /\ s2' = s2 \cup {s7[t].file}
          /\ UNCHANGED <<s1, s3, s4, s5, s6, s8, s9>>
      BY <1>4, UpKinds DEF Up!Record
    <2>2. /\ s7' \in [Req -> Up!Tasks]
          /\ \A u \in Req \ {t} : s7'[u] = s7[u]
          /\ s7'[t] = Up!Idle \/ (s7'[t].pc = "point" /\ s7'[t].file = s7[t].file)
      BY <1>4, <2>1, UpGoes, UpEnds DEF Up!Record
    <2>3. s7[t].file \in Task
      BY <2>1, UpKinds DEF UpInv, Up!TypeOK
    <2>4. Up!TypeOK' /\ Up!Erased'
      BY <2>1, <2>2, <2>3 DEF UpInv, Up!TypeOK, Up!Erased
    <2>5. Up!Served'
      BY <2>1, <2>2 DEF UpInv, Up!Served
    <2>6. UpHeld'
      BY <2>1, <2>2 DEF UpInv, UpHeld
    <2> QED
      BY <2>4, <2>5, <2>6 DEF UpInv
  <1>5. ASSUME NEW t \in Req, Up!PointAvatar(t) \/ Up!PointIcon(t)
        PROVE  UpInv'
    <2>1. /\ s7[t].pc = "point" /\ s7[t] # Up!Idle /\ Up!End(t)
          /\ {s3', s4'} \subseteq {s3, s4, s7[t].file}
          /\ UNCHANGED <<s1, s2, s5, s6, s8>>
          /\ s9' \in BOOLEAN /\ (s6 /\ s3' # s3 => s9') /\ (s9 => s9')
      BY <1>5, UpKinds DEF Up!PointAvatar, Up!PointIcon, UpInv, Up!TypeOK
    <2>2. /\ s7' \in [Req -> Up!Tasks] /\ s7'[t] = Up!Idle
          /\ \A u \in Req \ {t} : s7'[u] = s7[u]
      BY <2>1, UpEnds
    <2>3. s7[t].file \in Task /\ s7[t].file \in s1 \cap s2
      BY <2>1, UpKinds DEF UpInv, Up!TypeOK, UpHeld
    <2>4. s3' \in Task \cup {Nobody} /\ s4' \in Task \cup {Nobody}
      BY <2>1, <2>3 DEF UpInv, Up!TypeOK
    <2>5. Up!TypeOK' /\ Up!Erased'
      BY <2>1, <2>2, <2>4 DEF UpInv, Up!TypeOK, Up!Erased
    <2>6. Up!Served'
      <3>1. {s3', s4'} \ {Nobody} \subseteq s1' \cap s2'
        BY <2>1, <2>3 DEF UpInv, Up!Served
      <3>2. \A f \in s1' \ s2' : f \in s8' \/ \E u \in Req : s7'[u] # Up!Idle /\ s7'[u].file = f
        BY <2>1, <2>2, <2>3 DEF UpInv, Up!Served
      <3> QED
        BY <3>1, <3>2 DEF Up!Served
    <2>7. UpHeld'
      BY <2>1, <2>2 DEF UpInv, UpHeld
    <2> QED
      BY <2>5, <2>6, <2>7 DEF UpInv
  <1>6. ASSUME NEW t \in Req, Up!Fail(t)
        PROVE  UpInv'
    <2>1. /\ s7[t] # Up!Idle /\ Up!End(t)
          /\ s8' = IF s7[t].file \in s1 THEN s8 \cup {s7[t].file} ELSE s8
          /\ UNCHANGED <<s1, s2, s3, s4, s5, s6, s9>>
      BY <1>6 DEF Up!Fail
    <2>2. /\ s7' \in [Req -> Up!Tasks] /\ s7'[t] = Up!Idle
          /\ \A u \in Req \ {t} : s7'[u] = s7[u]
      BY <2>1, UpEnds
    <2>3. Up!TypeOK' /\ Up!Erased'
      BY <2>1, <2>2 DEF UpInv, Up!TypeOK, Up!Erased
    <2>4. Up!Served'
      BY <2>1, <2>2 DEF UpInv, Up!Served
    <2>5. UpHeld'
      BY <2>1, <2>2 DEF UpInv, UpHeld
    <2> QED
      BY <2>3, <2>4, <2>5 DEF UpInv
  <1>7. CASE Up!DeleteAccount
    <2>1. /\ s6' = TRUE /\ s3' = Nobody /\ s4' \in {s4, Nobody}
          /\ s5' \in {"user", "other", "none"}
          /\ UNCHANGED <<s1, s2, s7, s8, s9>>
      BY <1>7 DEF Up!DeleteAccount, UpInv, Up!TypeOK
    <2>2. Up!TypeOK' /\ Up!Erased'
      BY <2>1 DEF UpInv, Up!TypeOK, Up!Erased
    <2>3. Up!Served' /\ UpHeld'
      BY <2>1 DEF UpInv, Up!Served, UpHeld
    <2> QED
      BY <2>2, <2>3 DEF UpInv
  <1> QED
    BY <1>1, <1>2, <1>3, <1>4, <1>5, <1>6, <1>7 DEF Up!Next

LEMMA UpStillInv == ASSUME UpInv, UNCHANGED Up!vars PROVE UpInv'
  BY DEF UpInv, Up!vars, Up!TypeOK, Up!Served, Up!Erased, UpHeld

-----------------------------------------------------------------------------
(* Dms: a pair has a second conversation only after a race.                *)

\* What makes the second conversation of a pair an exception: whoever is about to make
\* one, it is the only one to do so and there is none yet, or the pair is known to race.
DmRaced ==
  /\ \A r \in Req : s2[r].pc = "create" =>
       \A i \in DOMAIN s1 : s1[i] = s2[r].with => s2[r].with \in s6
  /\ \A r, t \in Req : r # t /\ s2[r].pc = "create" /\ s2[t].pc = "create"
       /\ s2[r].with = s2[t].with => s2[r].with \in s6

DmInv == Dm!TypeOK /\ Dm!OneDm /\ DmRaced

LEMMA DmKinds ==
  /\ Dm!Idle \in Dm!Request /\ Dm!Idle.pc = "idle"
  /\ \A x \in Dm!Request : x.pc \in {"idle", "find", "create", "answer"}
  /\ \A x \in Dm!Request : x.pc = "idle" => x = Dm!Idle
  /\ \A x \in Dm!Request : x.pc # "idle" => x.by \in User /\ x.with \in Dm!Pair
  /\ \A x \in Dm!Request : x.pc = "answer" => x.conv \in Dm!Conv
  /\ \A x \in Dm!Request : x.pc = "find" => /\ [x EXCEPT !.pc = "create"] \in Dm!Request
                                            /\ [x EXCEPT !.pc = "create"].pc = "create"
                                            /\ [x EXCEPT !.pc = "create"].with = x.with
  <1>1. \A x \in Dm!Request : x.pc = "find" => x \in [pc : {"find", "create"}, by : User, with : Dm!Pair]
    BY DEF Dm!Request, Dm!Idle
  <1> QED
    BY <1>1 DEF Dm!Request, Dm!Idle

LEMMA DmInitInv == ASSUME Dm!Init PROVE DmInv
  <1>1. s1 \in Seq(Dm!Pair) /\ Len(s1) = 0 /\ DOMAIN s1 = {}
    BY DEF Dm!Init
  <1>2. \A r \in Req : s2[r].pc = "idle"
    BY DEF Dm!Init, Dm!Idle
  <1>3. Dm!TypeOK
    BY <1>1, DmKinds DEF Dm!Init, Dm!TypeOK
  <1>4. Dm!OneDm /\ DmRaced
    BY <1>1, <1>2 DEF Dm!Init, Dm!OneDm, DmRaced
  <1> QED
    BY <1>3, <1>4 DEF DmInv

\* A request goes on from one step to another, of which only that to "create" matters.
LEMMA DmMoves ==
  ASSUME Dm!TypeOK, NEW r \in Req, NEW x \in Dm!Request, Dm!Go(r, x)
  PROVE  /\ s2' \in [Req -> Dm!Request] /\ s2'[r] = x
         /\ \A t \in Req : t # r => s2'[t] = s2[t]
  BY DEF Dm!TypeOK, Dm!Go

LEMMA DmNextInv == ASSUME DmInv, Dm!Next PROVE DmInv'
  <1> USE DEF DmInv
  <1>1. ASSUME NEW r \in Req, Dm!Find(r)
        PROVE  DmInv'
    <2> DEFINE p == s2[r].with
    <2>0. s2[r] \in Dm!Request /\ s2[r].pc = "find" /\ s2[r].by \in User /\ p \in Dm!Pair
      BY <1>1, DmKinds DEF Dm!Find, Dm!TypeOK
    <2>1. CASE Dm!Between(p) = {}
      <3> DEFINE x == [s2[r] EXCEPT !.pc = "create"]
      <3>1. /\ x \in Dm!Request /\ x.pc = "create" /\ x.with = p
        BY <2>0, DmKinds
      <3>2. /\ Dm!Go(r, x)
            /\ s6' = IF \E s \in Req : s2[s].pc = "create" /\ s2[s].with = p
                          THEN s6 \cup {p} ELSE s6
            /\ UNCHANGED <<s1, s3, s4, s5, s7>>
        BY <1>1, <2>1 DEF Dm!Find
      <3> HIDE DEF x
      <3>3. /\ s2' \in [Req -> Dm!Request] /\ s2'[r] = x
            /\ \A t \in Req : t # r => s2'[t] = s2[t]
        BY <3>1, <3>2, DmMoves
      <3>4. Dm!TypeOK'
        BY <2>0, <3>2, <3>3 DEF Dm!TypeOK
      <3>5. \A i \in DOMAIN s1 : s1[i] # p
        BY <2>1 DEF Dm!Between
      <3>6. Dm!OneDm'
        BY <3>2 DEF Dm!OneDm
      <3>7. DmRaced'
        <4>1. \A t \in Req : t # r /\ s2[t].pc = "create" /\ s2[t].with = p => p \in s6'
          BY <3>2
        <4>2. s6 \subseteq s6'
          BY <3>2
        <4> QED
          BY <3>1, <3>2, <3>3, <3>5, <4>1, <4>2 DEF DmRaced
      <3> QED
        BY <3>4, <3>6, <3>7
    <2>2. CASE Dm!Between(p) # {}
      <3>1. PICK i \in Dm!Between(p) : Dm!Go(r, Dm!Made(r, i))
        BY <1>1, <2>2 DEF Dm!Find
      <3>2. UNCHANGED <<s1, s6, s3, s4, s5, s7>>
        BY <1>1, <2>2 DEF Dm!Find
      <3>3. i \in Dm!Conv
        <4>1. DOMAIN s1 = 1..Len(s1) /\ Len(s1) \in Nat /\ Len(s1) <= 2
          BY DEF Dm!TypeOK
        <4> QED
          BY <4>1 DEF Dm!Between, Dm!Conv
      <3>4. Dm!Made(r, i) \in Dm!Request /\ Dm!Made(r, i).pc = "answer"
        BY <2>0, <3>3 DEF Dm!Made, Dm!Request
      <3>5. /\ s2' \in [Req -> Dm!Request] /\ s2'[r].pc = "answer"
            /\ \A t \in Req : t # r => s2'[t] = s2[t]
        BY <3>1, <3>4, DmMoves
      <3> QED
        BY <3>2, <3>5 DEF Dm!TypeOK, Dm!OneDm, DmRaced
    <2> QED
      BY <2>1, <2>2
  <1>2. ASSUME NEW r \in Req, Dm!CreateDm(r)
        PROVE  DmInv'
    <2> DEFINE p == s2[r].with
               n == Len(s1) + 1
    <2>0. s2[r] \in Dm!Request /\ s2[r].pc = "create" /\ s2[r].by \in User /\ p \in Dm!Pair
      BY <1>2, DmKinds DEF Dm!CreateDm, Dm!TypeOK
    <2>1. s1' = Append(s1, p) /\ Len(s1) < 2 /\ s1 \in Seq(Dm!Pair)
      BY <1>2 DEF Dm!CreateDm, Dm!TypeOK
    <2>2. n \in Dm!Conv
      <3>1. Len(s1) \in Nat
        BY <2>1
      <3> QED
        BY <2>1, <3>1 DEF Dm!Conv
    <2>3. Dm!Made(r, n) \in Dm!Request /\ Dm!Made(r, n).pc = "answer"
      BY <2>0, <2>2 DEF Dm!Made, Dm!Request
    <2>4. Dm!Go(r, Dm!Made(r, n)) /\ UNCHANGED <<s3, s4, s5, s6, s7>>
      BY <1>2 DEF Dm!CreateDm
    <2>5. /\ s2' \in [Req -> Dm!Request] /\ s2'[r].pc = "answer"
          /\ \A t \in Req : t # r => s2'[t] = s2[t]
      BY <2>3, <2>4, DmMoves
    <2>6. /\ s1' \in Seq(Dm!Pair) /\ Len(s1') = n
          /\ DOMAIN s1' = DOMAIN s1 \cup {n}
          /\ \A i \in DOMAIN s1 : s1'[i] = s1[i]
          /\ s1'[n] = p
      BY <2>0, <2>1, Longer
    <2> HIDE DEF n
    <2>7. Dm!TypeOK'
      BY <2>2, <2>4, <2>5, <2>6 DEF Dm!TypeOK, Dm!Conv
    <2>8. \A i \in DOMAIN s1 : s1[i] = p => p \in s6
      BY <2>0 DEF DmRaced
    <2>9. Dm!OneDm'
      <3>1. ASSUME NEW i \in DOMAIN s1', NEW j \in DOMAIN s1', s1'[i] = s1'[j]
            PROVE  i = j \/ s1'[i] \in s6
        <4>1. CASE i \in DOMAIN s1 /\ j \in DOMAIN s1
          BY <2>6, <3>1, <4>1 DEF Dm!OneDm
        <4>2. CASE i \notin DOMAIN s1 /\ j \notin DOMAIN s1
          BY <2>6, <3>1, <4>2
        <4>3. CASE i \in DOMAIN s1 /\ j \notin DOMAIN s1
          BY <2>6, <2>8, <3>1, <4>3
        <4>4. CASE i \notin DOMAIN s1 /\ j \in DOMAIN s1
          BY <2>6, <2>8, <3>1, <4>4
        <4> QED
          BY <4>1, <4>2, <4>3, <4>4
      <3> QED
        BY <2>4, <3>1 DEF Dm!OneDm
    <2>10. DmRaced'
      <3>1. \A t \in Req : s2'[t].pc = "create" => t # r /\ s2'[t] = s2[t]
        BY <2>5
      <3>2. \A t \in Req : t # r /\ s2[t].pc = "create" /\ s2[t].with = p => p \in s6
        BY <2>0 DEF DmRaced
      <3>3. ASSUME NEW t \in Req, s2'[t].pc = "create", NEW i \in DOMAIN s1',
                   s1'[i] = s2'[t].with
            PROVE  s2'[t].with \in s6
        <4>1. CASE i \in DOMAIN s1
          BY <2>6, <3>1, <3>3, <4>1 DEF DmRaced
        <4>2. CASE i \notin DOMAIN s1
          BY <2>6, <3>1, <3>2, <3>3, <4>2
        <4> QED
          BY <4>1, <4>2
      <3> QED
        BY <2>4, <3>1, <3>3 DEF DmRaced
    <2> QED
      BY <2>7, <2>9, <2>10
  <1>3. ASSUME NEW r \in Req, NEW u \in User, NEW f \in User, Dm!OpenDm(r, u, f)
        PROVE  DmInv'
    <2> DEFINE x == [pc |-> "find", by |-> u, with |-> {u, f}]
    <2>1. {u, f} \in Dm!Pair
      <3>0. u # f /\ IsFiniteSet({u}) /\ Cardinality({u}) = 1
        BY <1>3, FS_Singleton DEF Dm!OpenDm
      <3>1. Cardinality({u} \cup {f}) = 2
        BY <3>0, FS_AddElement
      <3>2. {u} \cup {f} = {u, f}
        OBVIOUS
      <3> QED
        BY <3>1, <3>2, Same DEF Dm!Pair
    <2>2. x \in Dm!Request /\ x.pc = "find"
      BY <2>1 DEF Dm!Request
    <2>3. Dm!Go(r, x) /\ UNCHANGED <<s1, s3, s4, s5, s6, s7>>
      BY <1>3 DEF Dm!OpenDm
    <2> HIDE DEF x
    <2>4. /\ s2' \in [Req -> Dm!Request] /\ s2'[r] = x
          /\ \A t \in Req : t # r => s2'[t] = s2[t]
      BY <2>2, <2>3, DmMoves
    <2> QED
      BY <2>2, <2>3, <2>4 DEF Dm!TypeOK, Dm!OneDm, DmRaced
  <1>4. ASSUME NEW r \in Req, Dm!NotOpened(r) \/ Dm!Opened(r)
        PROVE  /\ s2' \in [Req -> Dm!Request] /\ s2'[r].pc = "idle"
               /\ \A t \in Req : t # r => s2'[t] = s2[t]
               /\ UNCHANGED <<s1, s6>>
    <2>1. Dm!Go(r, Dm!Idle) /\ UNCHANGED <<s1, s6>>
      BY <1>4 DEF Dm!NotOpened, Dm!Opened
    <2> QED
      BY <2>1, DmKinds, DmMoves
  <1>5. ASSUME NEW r \in Req, Dm!NotOpened(r)
        PROVE  DmInv'
    <2>1. UNCHANGED <<s3, s4, s5, s7>>
      BY <1>5 DEF Dm!NotOpened
    <2> QED
      BY <1>4, <1>5, <2>1 DEF Dm!TypeOK, Dm!OneDm, DmRaced
  <1>6. ASSUME NEW r \in Req, Dm!Opened(r)
        PROVE  DmInv'
    <2> DEFINE u == s2[r].by
               i == s2[r].conv
    <2>1. u \in User /\ i \in Dm!Conv
      BY <1>6, DmKinds DEF Dm!Opened, Dm!TypeOK
    <2>2. /\ s3' = [s3 EXCEPT ![u] = "messages"]
          /\ s4' = [s4 EXCEPT ![u] = i]
          /\ s5' = Dm!Located(u, i)
          /\ s7' = IF s3[u] = "messages" THEN s7 \cup {u} ELSE s7
      BY <1>6 DEF Dm!Opened
    <2> HIDE DEF u, i
    <2>3. Dm!TypeOK'
      BY <1>4, <1>6, <2>1, <2>2 DEF Dm!TypeOK, Dm!Located
    <2>4. \A w \in User : s4'[w] # Dm!NoConv => s5'[w] = s4'[w] \/ w \in s7'
      <3> TAKE w \in User
      <3>1. CASE w = u
        BY <2>1, <2>2, <3>1 DEF Dm!TypeOK, Dm!Located
      <3>2. CASE w # u
        BY <2>1, <2>2, <3>2 DEF Dm!TypeOK, Dm!Located, Dm!OneDm
      <3> QED
        BY <3>1, <3>2
    <2>5. Dm!OneDm'
      BY <1>4, <1>6, <2>4 DEF Dm!OneDm
    <2>6. DmRaced'
      BY <1>4, <1>6 DEF DmRaced
    <2> QED
      BY <2>3, <2>5, <2>6
  <1>7. ASSUME NEW u \in User, Dm!ShowMessages(u) \/ Dm!ShowFriends(u) \/ \E i \in Dm!Conv : Dm!SelectConversation(u, i)
        PROVE  DmInv'
    <2>1. /\ UNCHANGED <<s1, s2, s6>> /\ s7' = s7 \ {u}
          /\ s3' \in [User -> {"friends", "messages"}]
      BY <1>7 DEF Dm!ShowMessages, Dm!ShowFriends, Dm!SelectConversation, Dm!TypeOK
    <2>2. PICK i \in Dm!Conv \cup {Dm!NoConv}, j \in Dm!Conv \cup {Dm!NoConv} :
            /\ s5' = [s5 EXCEPT ![u] = i] /\ s4' = [s4 EXCEPT ![u] = j]
            /\ j = Dm!NoConv \/ i = j
      <3>1. CASE Dm!ShowMessages(u)
        <4>1. Dm!Mine(u) \subseteq Dm!Conv
          <5>1. DOMAIN s1 = 1..Len(s1) /\ Len(s1) \in Nat /\ Len(s1) <= 2
            BY DEF Dm!TypeOK
          <5> QED
            BY <5>1 DEF Dm!Mine, Dm!Conv
        <4> QED
          BY <3>1, <4>1 DEF Dm!ShowMessages
      <3>2. CASE Dm!ShowFriends(u) \/ \E i \in Dm!Conv : Dm!SelectConversation(u, i)
        BY <3>2 DEF Dm!ShowFriends, Dm!SelectConversation
      <3> QED
        BY <1>7, <3>1, <3>2
    <2>3. Dm!TypeOK'
      BY <2>1, <2>2 DEF Dm!TypeOK
    <2>4. \A w \in User : s4'[w] # Dm!NoConv => s5'[w] = s4'[w] \/ w \in s7'
      BY <2>1, <2>2 DEF Dm!TypeOK, Dm!OneDm
    <2>5. Dm!OneDm'
      BY <2>1, <2>4 DEF Dm!OneDm
    <2>6. DmRaced'
      BY <2>1 DEF DmRaced
    <2> QED
      BY <2>3, <2>5, <2>6
  <1> QED
    BY <1>1, <1>2, <1>3, <1>5, <1>6, <1>7 DEF Dm!Next

LEMMA DmStillInv == ASSUME DmInv, UNCHANGED Dm!vars PROVE DmInv'
  BY DEF DmInv, Dm!vars, Dm!TypeOK, Dm!OneDm, DmRaced

-----------------------------------------------------------------------------
(* Presence: a user is online while a socket of his stands.                *)

PrBusy == {t \in Task : s4[t] # Pr!Idle}

\* What the user's sockets make of his presence, once it is written and told.
PrApt(s) == s \in {"ONLINE", "OFFLINE"} /\ ((s = "OFFLINE") = (s1 = {}))
PrSettled == (s1 = {} => s2 = "OFFLINE") /\ ((s3 = "OFFLINE") = (s1 = {}))

\* What the only writer in flight is about.
PrDue(t) ==
  \/ s4[t].pc = "write" /\ s4[t].tells /\ PrApt(s4[t].to)
  \/ s4[t].pc = "write" /\ ~s4[t].tells /\ s1 # {} /\ s3 # "OFFLINE"
  \/ s4[t].pc = "tell" /\ PrApt(s4[t].to) /\ s2 = s4[t].to

PrInv ==
  /\ Pr!TypeOK
  /\ ~s5 => \/ PrBusy = {} /\ PrSettled
            \/ \E t \in Task : PrBusy = {t} /\ PrDue(t)

LEMMA PrKinds == Pr!Idle.pc = "idle" /\ \A t \in Task : Pr!TypeOK => s4[t] \in Pr!Tasks
  BY DEF Pr!Idle, Pr!TypeOK

LEMMA PrInitInv == ASSUME Pr!Init PROVE PrInv
  BY DEF Pr!Init, PrInv, Pr!TypeOK, Pr!Status, Pr!Tasks, PrBusy, PrSettled

\* A writer that begins alone, one that goes on, and one that ends.
LEMMA PrBeginning ==
  ASSUME Pr!TypeOK, NEW t \in Task, NEW to \in Pr!Status, NEW tells \in BOOLEAN, Pr!Begin(t, to, tells)
  PROVE  /\ s4' \in [Task -> Pr!Tasks] /\ (Pr!Quiet <=> PrBusy = {}) /\ (PrBusy = {} => PrBusy' = {t})
         /\ s4'[t] = [pc |-> "write", to |-> to, tells |-> tells]
  <1>1. /\ s4'[t] = [pc |-> "write", to |-> to, tells |-> tells] /\ \A s \in Task \ {t} : s4'[s] = s4[s]
        /\ s4' \in [Task -> Pr!Tasks]
    BY DEF Pr!Begin, Pr!TypeOK, Pr!Tasks
  <1>2. s4'[t].pc = "write"
    BY <1>1
  <1>3. s4'[t] # Pr!Idle
    BY <1>2, PrKinds
  <1> QED
    BY <1>1, <1>3 DEF Pr!Quiet, PrBusy

LEMMA PrGoingOn ==
  ASSUME Pr!TypeOK, NEW t \in Task, NEW new \in Pr!Tasks, s4[t] # Pr!Idle, s4' = [s4 EXCEPT ![t] = new]
  PROVE  /\ s4' \in [Task -> Pr!Tasks] /\ s4'[t] = new
         /\ new = Pr!Idle => PrBusy' = PrBusy \ {t}
         /\ new # Pr!Idle => PrBusy' = PrBusy
  <1>1. s4'[t] = new /\ (\A s \in Task \ {t} : s4'[s] = s4[s]) /\ s4' \in [Task -> Pr!Tasks]
    BY DEF Pr!TypeOK
  <1> QED
    BY <1>1 DEF PrBusy

LEMMA PrNextInv == ASSUME PrInv, Pr!Next PROVE PrInv'
  <1>0. Pr!TypeOK /\ s4 \in [Task -> Pr!Tasks] /\ Pr!Idle \in Pr!Tasks
    BY DEF PrInv, Pr!TypeOK, Pr!Tasks
  <1>1. ASSUME NEW t \in Task, NEW s \in Spot, Pr!Connect(t, s) PROVE PrInv'
    <2>1. CASE s1 = {}
      <3>1. /\ Pr!Begin(t, "ONLINE", TRUE) /\ s5' = ~Pr!Quiet /\ s1' # {} /\ s1' \in SUBSET Spot
            /\ UNCHANGED <<s2, s3>>
        BY <1>0, <1>1, <2>1 DEF Pr!Connect, Pr!WasOffline, Pr!TypeOK
      <3>2. Pr!TypeOK' /\ (~s5' => PrBusy' = {t}) /\ s4'[t] = [pc |-> "write", to |-> "ONLINE", tells |-> TRUE]
        BY <1>0, <3>1, PrBeginning DEF Pr!TypeOK, Pr!Status
      <3>3. PrDue(t)'
        BY <3>1, <3>2 DEF PrDue, PrApt
      <3> QED
        BY <3>2, <3>3 DEF PrInv
    <2>2. CASE s1 # {}
      <3>1. UNCHANGED <<s4, s5, s2, s3>> /\ s1' # {} /\ s1' \in SUBSET Spot
        BY <1>0, <1>1, <2>2 DEF Pr!Connect, Pr!WasOffline, Pr!TypeOK
      <3> QED
        BY <1>0, <2>2, <3>1 DEF PrInv, Pr!TypeOK, PrBusy, PrSettled, PrDue, PrApt
    <2> QED
      BY <2>1, <2>2
  <1>2. ASSUME NEW t \in Task, NEW s \in Spot, Pr!Disconnect(t, s) PROVE PrInv'
    <2>1. CASE s1 = {s}
      <3>1. /\ Pr!Begin(t, "OFFLINE", TRUE) /\ s5' = ~Pr!Quiet /\ s1' = {}
            /\ UNCHANGED <<s2, s3>>
        BY <1>0, <1>2, <2>1 DEF Pr!Disconnect
      <3>2. Pr!TypeOK' /\ (~s5' => PrBusy' = {t}) /\ s4'[t] = [pc |-> "write", to |-> "OFFLINE", tells |-> TRUE]
        BY <1>0, <3>1, PrBeginning DEF Pr!TypeOK, Pr!Status
      <3>3. PrDue(t)'
        BY <3>1, <3>2 DEF PrDue, PrApt
      <3> QED
        BY <3>2, <3>3 DEF PrInv
    <2>2. CASE s1 # {s}
      <3>1. UNCHANGED <<s4, s5, s2, s3>> /\ s1 # {} /\ s1' # {} /\ s1' \in SUBSET Spot
        BY <1>0, <1>2, <2>2 DEF Pr!Disconnect, Pr!TypeOK
      <3> QED
        BY <1>0, <3>1 DEF PrInv, Pr!TypeOK, PrBusy, PrSettled, PrDue, PrApt
    <2> QED
      BY <2>1, <2>2
  <1>3. ASSUME NEW t \in Task, Pr!Patch(t) PROVE PrInv'
    <2>1. PICK to \in Pr!Status : Pr!Begin(t, to, FALSE)
      BY <1>3 DEF Pr!Patch
    <2>2. s5' = (s5 \/ ~Pr!Quiet \/ s1 = {}) /\ UNCHANGED <<s1, s2, s3>>
      BY <1>3 DEF Pr!Patch
    <2>3. /\ Pr!TypeOK' /\ (Pr!Quiet <=> PrBusy = {}) /\ (PrBusy = {} => PrBusy' = {t})
          /\ s4'[t] = [pc |-> "write", to |-> to, tells |-> FALSE]
      BY <1>0, <2>1, <2>2, PrBeginning DEF Pr!TypeOK
    <2>4. ASSUME ~s5' PROVE PrBusy' = {t} /\ PrDue(t)'
      <3>1. PrSettled /\ s1 # {} /\ PrBusy' = {t}
        BY <2>2, <2>3, <2>4 DEF PrInv
      <3> QED
        BY <2>2, <2>3, <3>1 DEF PrDue, PrSettled
    <2> QED
      BY <2>3, <2>4 DEF PrInv
  <1>4. ASSUME NEW t \in Task, Pr!Write(t) PROVE PrInv'
    <2> DEFINE new == IF s4[t].tells THEN [pc |-> "tell", to |-> s4[t].to] ELSE Pr!Idle
    <2>1. /\ s4[t].pc = "write" /\ s2' = s4[t].to /\ s4' = [s4 EXCEPT ![t] = new]
          /\ UNCHANGED <<s1, s3, s5>>
      BY <1>4 DEF Pr!Write
    <2>2. s4[t] # Pr!Idle /\ s4[t].to \in Pr!Status /\ s4[t].tells \in BOOLEAN
      BY <1>0, <2>1, PrKinds DEF Pr!Tasks
    <2>3. new \in Pr!Tasks /\ (s4[t].tells => new # Pr!Idle /\ new.pc = "tell" /\ new.to = s4[t].to)
          /\ (~s4[t].tells => new = Pr!Idle)
      BY <2>2, PrKinds DEF Pr!Tasks
    <2> HIDE DEF new
    <2>4. /\ Pr!TypeOK' /\ s4'[t] = new
          /\ (new = Pr!Idle => PrBusy' = PrBusy \ {t}) /\ (new # Pr!Idle => PrBusy' = PrBusy)
      BY <1>0, <2>1, <2>2, <2>3, PrGoingOn DEF Pr!TypeOK
    <2>5. ASSUME ~s5' PROVE PrBusy = {t} /\ PrDue(t)
      BY <2>1, <2>2, <2>5 DEF PrInv, PrBusy
    <2>6. CASE s4[t].tells
      <3>1. ~s5' => PrBusy' = {t} /\ PrDue(t)'
        BY <2>1, <2>2, <2>3, <2>4, <2>5, <2>6 DEF PrDue, PrApt
      <3> QED
        BY <2>4, <3>1 DEF PrInv
    <2>7. CASE ~s4[t].tells
      <3>1. ~s5' => PrBusy' = {} /\ PrSettled'
        BY <2>1, <2>2, <2>3, <2>4, <2>5, <2>7 DEF PrDue, PrSettled
      <3> QED
        BY <2>4, <3>1 DEF PrInv
    <2> QED
      BY <2>2, <2>6, <2>7
  <1>5. ASSUME NEW t \in Task, Pr!Tell(t) PROVE PrInv'
    <2>1. /\ s4[t].pc = "tell" /\ s3' = s4[t].to /\ s4' = [s4 EXCEPT ![t] = Pr!Idle]
          /\ UNCHANGED <<s1, s2, s5>>
      BY <1>5 DEF Pr!Tell
    <2>2. s4[t] # Pr!Idle /\ s4[t].to \in Pr!Status
      BY <1>0, <2>1, PrKinds DEF Pr!Tasks
    <2>3. Pr!TypeOK' /\ PrBusy' = PrBusy \ {t}
      BY <1>0, <2>1, <2>2, PrGoingOn DEF Pr!TypeOK
    <2>4. ASSUME ~s5' PROVE PrBusy' = {} /\ PrSettled'
      <3>1. PrBusy = {t} /\ PrDue(t)
        BY <2>1, <2>2, <2>4 DEF PrInv, PrBusy
      <3> QED
        BY <2>1, <2>3, <3>1 DEF PrDue, PrApt, PrSettled
    <2> QED
      BY <2>3, <2>4 DEF PrInv
  <1>6. ASSUME NEW t \in Task, Pr!Fail(t) PROVE PrInv'
    BY <1>0, <1>6 DEF Pr!Fail, PrInv, Pr!TypeOK
  <1>7. CASE Pr!Restart
    BY <1>0, <1>7 DEF Pr!Restart, PrInv, Pr!TypeOK
  <1> QED
    BY <1>1, <1>2, <1>3, <1>4, <1>5, <1>6, <1>7 DEF Pr!Next

LEMMA PrMeans == ASSUME PrInv PROVE Pr!PresenceTrue
  BY DEF PrInv, Pr!PresenceTrue, Pr!Quiet, PrBusy, PrSettled

LEMMA PrStillInv == ASSUME PrInv, UNCHANGED Pr!vars PROVE PrInv'
  BY DEF PrInv, Pr!vars, Pr!TypeOK, PrBusy, PrSettled, PrDue, PrApt

-----------------------------------------------------------------------------
(* Typing: who is shown as typing is, or an end of it is on its way.       *)

TyAsks == [what : {"join", "leave", "start", "stop"}, conv : {"here", "there"}]
TyStarted == Ty!Ask("start", "here")
TyStopped == Ty!Ask("stop", "here")

\* Of what is said in q: that he stopped is, and the last word is that he did.
TyStops(q) == \E i \in DOMAIN q : q[i] = TyStopped
TyEnds(q) == \A i \in DOMAIN q : q[i] = TyStarted => \E j \in DOMAIN q : j > i /\ q[j] = TyStopped

\* What the other page will show of what is on its way to it.
TyFinal == IF s7 = <<>> THEN s8 ELSE s7[Len(s7)]

TyInv ==
  /\ Ty!TypeOK
  /\ s1 # Nobody => s2 # Nobody
  /\ ~s9 /\ s3 # "here" => TyEnds(s4) /\ (TyStops(s4) \/ ~TyFinal)

LEMMA TyKinds ==
  /\ TyStarted.what = "start" /\ TyStopped.what = "stop" /\ TyStarted # TyStopped
  /\ TyStarted.conv = "here" /\ TyStopped.conv = "here"
  /\ \A what, c : /\ Ty!Ask(what, c).what = what /\ Ty!Ask(what, c).conv = c
                  /\ what \notin {"start", "stop"} => Ty!Ask(what, c) \notin {TyStarted, TyStopped}
                  /\ c # "here" => Ty!Ask(what, c) \notin {TyStarted, TyStopped}
  /\ \A what \in {"join", "leave", "start", "stop"}, c \in {"here", "there"} : Ty!Ask(what, c) \in TyAsks
  /\ \A a \in TyAsks : a.what = "start" /\ a.conv = "here" => a = TyStarted
  /\ \A a \in TyAsks : a.what = "stop" /\ a.conv = "here" => a = TyStopped
  <1>1. /\ \A what, c : Ty!Ask(what, c).what = what /\ Ty!Ask(what, c).conv = c
        /\ \A what \in {"join", "leave", "start", "stop"}, c \in {"here", "there"} : Ty!Ask(what, c) \in TyAsks
        /\ \A a \in TyAsks : a = [what |-> a.what, conv |-> a.conv]
    BY DEF Ty!Ask, TyAsks
  <1>2. \A a \in TyAsks : a = Ty!Ask(a.what, a.conv)
    BY <1>1 DEF Ty!Ask
  <1> QED
    BY <1>1, <1>2 DEF TyStarted, TyStopped

\* What is said is handled in the order it was said,
LEMMA TyHandling ==
  ASSUME NEW q \in Seq(TyAsks), q # <<>>
  PROVE  /\ Tail(q) \in Seq(TyAsks) /\ Head(q) \in TyAsks
         /\ TyEnds(q) => TyEnds(Tail(q))
         /\ Head(q) # TyStopped => (TyStops(q) => TyStops(Tail(q)))
         /\ TyEnds(q) /\ Head(q) = TyStarted => TyStops(Tail(q))
         /\ (\A i \in 2..Len(q) : q[i] # TyStarted) => TyEnds(Tail(q))
  <1>1. Len(q) \in Nat /\ DOMAIN q = 1..Len(q) /\ Len(q) # 0
    OBVIOUS
  <1>2. /\ Tail(q) \in Seq(TyAsks) /\ Head(q) \in TyAsks /\ 1 \in DOMAIN q /\ Head(q) = q[1]
        /\ DOMAIN Tail(q) = 1..(Len(q) - 1)
        /\ \A i \in DOMAIN Tail(q) : i + 1 \in DOMAIN q /\ Tail(q)[i] = q[i + 1]
        /\ \A i \in DOMAIN q : i # 1 => i - 1 \in DOMAIN Tail(q) /\ Tail(q)[i - 1] = q[i]
    BY <1>1, Tailed
  <1>3. ASSUME TyEnds(q), NEW i \in DOMAIN Tail(q), Tail(q)[i] = TyStarted
        PROVE  \E j \in DOMAIN Tail(q) : j > i /\ Tail(q)[j] = TyStopped
    <2>1. PICK j \in DOMAIN q : j > i + 1 /\ q[j] = TyStopped
      BY <1>2, <1>3 DEF TyEnds
    <2>2. j # 1 /\ j - 1 > i
      BY <1>1, <1>2, <2>1
    <2> QED
      BY <1>2, <2>1, <2>2
  <1>4. Head(q) # TyStopped /\ TyStops(q) => TyStops(Tail(q))
    BY <1>2 DEF TyStops
  <1>5. ASSUME TyEnds(q), Head(q) = TyStarted PROVE TyStops(Tail(q))
    <2>1. PICK j \in DOMAIN q : j > 1 /\ q[j] = TyStopped
      BY <1>2, <1>5 DEF TyEnds
    <2>2. j # 1
      BY <1>1, <2>1
    <2> QED
      BY <1>2, <2>1, <2>2 DEF TyStops
  <1>6. ASSUME \A i \in 2..Len(q) : q[i] # TyStarted PROVE TyEnds(Tail(q))
    <2>1. \A i \in DOMAIN Tail(q) : i + 1 \in 2..Len(q)
      BY <1>1, <1>2
    <2> QED
      BY <1>2, <1>6, <2>1 DEF TyEnds
  <1> QED
    BY <1>2, <1>3, <1>4, <1>5, <1>6 DEF TyEnds

\* and said after what was said before.
LEMMA TySaying ==
  ASSUME NEW q \in Seq(TyAsks), NEW p \in Seq(TyAsks), \A i \in DOMAIN p : p[i] # TyStarted
  PROVE  /\ q \o p \in Seq(TyAsks)
         /\ TyStops(q) => TyStops(q \o p)
         /\ TyEnds(q) => TyEnds(q \o p)
         /\ TyStops(p) => TyStops(q \o p) /\ TyEnds(q \o p)
  <1>1. /\ q \o p \in Seq(TyAsks)
        /\ \A i \in DOMAIN q : i \in DOMAIN (q \o p) /\ (q \o p)[i] = q[i]
        /\ \A i \in DOMAIN p : Len(q) + i \in DOMAIN (q \o p) /\ (q \o p)[Len(q) + i] = p[i]
        /\ \A i \in DOMAIN (q \o p) : i \in DOMAIN q \/ (i - Len(q) \in DOMAIN p /\ i > Len(q))
    BY Concatenated
  <1>2. Len(q) \in Nat /\ Len(p) \in Nat /\ DOMAIN q = 1..Len(q) /\ DOMAIN p = 1..Len(p)
    OBVIOUS
  <1>3. DOMAIN (q \o p) = 1..(Len(q) + Len(p))
    BY <1>2
  <1>4. \A i \in DOMAIN (q \o p) : (q \o p)[i] = TyStarted => i \in DOMAIN q /\ q[i] = TyStarted
    <2> TAKE i \in DOMAIN (q \o p)
    <2> HAVE (q \o p)[i] = TyStarted
    <2>1. CASE i \in DOMAIN q
      BY <1>1, <2>1
    <2>2. CASE i - Len(q) \in DOMAIN p
      <3>1. Len(q) + (i - Len(q)) = i
        BY <1>2, <1>3
      <3>2. p[i - Len(q)] = TyStarted
        BY <1>1, <2>2, <3>1
      <3> QED
        BY <2>2, <3>2
    <2> QED
      BY <1>1, <2>1, <2>2
  <1>5. TyStops(q) => TyStops(q \o p)
    BY <1>1 DEF TyStops
  <1>6. TyEnds(q) => TyEnds(q \o p)
    BY <1>1, <1>4 DEF TyEnds
  <1>7. ASSUME TyStops(p) PROVE TyStops(q \o p) /\ TyEnds(q \o p)
    <2>1. PICK k \in DOMAIN p : p[k] = TyStopped
      BY <1>7 DEF TyStops
    <2>2. Len(q) + k \in DOMAIN (q \o p) /\ (q \o p)[Len(q) + k] = TyStopped
      BY <1>1, <2>1
    <2>3. \A i \in DOMAIN q : Len(q) + k > i
      BY <1>2
    <2> QED
      BY <1>4, <2>2, <2>3 DEF TyStops, TyEnds
  <1> QED
    BY <1>1, <1>5, <1>6, <1>7

LEMMA TyInitInv == ASSUME Ty!Init PROVE TyInv
  <1>1. <<>> \in Seq(TyAsks) /\ <<>> \in Seq(BOOLEAN)
    BY Nothing
  <1>2. Ty!TypeOK
    BY <1>1 DEF Ty!Init, Ty!TypeOK, TyAsks
  <1> QED
    BY <1>2 DEF Ty!Init, TyInv, TyEnds, TyFinal

LEMMA TyNextInv == ASSUME TyInv, Ty!Next PROVE TyInv'
  <1>0. /\ s4 \in Seq(TyAsks) /\ s7 \in Seq(BOOLEAN) /\ s8 \in BOOLEAN /\ s9 \in BOOLEAN
        /\ {s1, s2, s3} \subseteq {"here", "there"} \cup {Nobody}
        /\ s5 \in SUBSET {"here", "there"} /\ s6 \in SUBSET {"here", "there"}
        /\ s1 # Nobody => s2 # Nobody
    BY DEF TyInv, Ty!TypeOK, TyAsks
  \* A step of the typist's page that does not say he started.
  <1>1. ASSUME NEW p \in Seq(TyAsks), \A i \in DOMAIN p : p[i] # TyStarted, s4' = s4 \o p,
               UNCHANGED <<s5, s6, s7, s8>>,
               {s1', s2', s3'} \subseteq {"here", "there"} \cup {Nobody}, s9' \in BOOLEAN, s9 => s9',
               s1' # Nobody => s2' # Nobody,
               s3 = "here" => s9' \/ s3' = "here" \/ TyStops(p)
        PROVE  TyInv'
    <2>1. /\ s4' \in Seq(TyAsks) /\ (TyStops(s4) => TyStops(s4'))
          /\ (TyEnds(s4) => TyEnds(s4')) /\ (TyStops(p) => TyStops(s4') /\ TyEnds(s4'))
      BY <1>0, <1>1, TySaying
    <2>2. Ty!TypeOK'
      BY <1>0, <1>1, <2>1 DEF Ty!TypeOK, TyAsks
    <2>3. TyFinal' = TyFinal /\ TyStops(s4)' = TyStops(s4') /\ TyEnds(s4)' = TyEnds(s4')
      BY <1>1 DEF TyFinal, TyStops, TyEnds
    <2> QED
      BY <1>1, <2>1, <2>2, <2>3 DEF TyInv
  <1>2. ASSUME NEW a \in TyAsks, NEW b \in TyAsks, a # TyStarted, b # TyStarted
        PROVE  /\ <<a>> \in Seq(TyAsks) /\ <<a, b>> \in Seq(TyAsks)
               /\ \A i \in DOMAIN <<a>> : <<a>>[i] # TyStarted
               /\ \A i \in DOMAIN <<a, b>> : <<a, b>>[i] # TyStarted
               /\ a = TyStopped => TyStops(<<a>>)
               /\ TyStopped \in {a, b} => TyStops(<<a, b>>)
    <2>1. DOMAIN <<a>> = {1} /\ DOMAIN <<a, b>> = {1, 2}
      OBVIOUS
    <2> QED
      BY <1>2, <2>1 DEF TyStops
  <1>3. ASSUME NEW c \in {"here", "there"}, Ty!Open(c) PROVE TyInv'
    <2>1. Ty!Ask("join", c) \in TyAsks /\ Ty!Ask("join", c) # TyStarted
      BY TyKinds
    <2>2. s4' = s4 \o <<Ty!Ask("join", c)>> /\ UNCHANGED <<s3, s5, s6, s7, s8, s9>>
          /\ s1' = c /\ s2' = c
      BY <1>3 DEF Ty!Open, Ty!Say
    <2>3. /\ <<Ty!Ask("join", c)>> \in Seq(TyAsks)
          /\ \A i \in DOMAIN <<Ty!Ask("join", c)>> : <<Ty!Ask("join", c)>>[i] # TyStarted
      BY <1>2, <2>1
    <2> QED
      BY <1>0, <1>1, <2>2, <2>3, NobodyAssumption
  <1>4. ASSUME NEW c \in {"here", "there"}, Ty!Select(c) PROVE TyInv'
    <2>1. /\ {Ty!Ask("leave", s1), Ty!Ask("join", c)} \subseteq TyAsks
          /\ TyStarted \notin {Ty!Ask("leave", s1), Ty!Ask("join", c)}
      BY <1>0, <1>4, TyKinds DEF Ty!Select
    <2>2. s4' = s4 \o <<Ty!Ask("leave", s1), Ty!Ask("join", c)>>
          /\ UNCHANGED <<s2, s3, s5, s6, s7, s8, s9>> /\ s1' = c
      BY <1>4 DEF Ty!Select, Ty!Say
    <2>3. PICK p \in Seq(TyAsks) : p = <<Ty!Ask("leave", s1), Ty!Ask("join", c)>> /\ \A i \in DOMAIN p : p[i] # TyStarted
      BY <1>2, <2>1
    <2>4. s2 # Nobody
      BY <1>4 DEF Ty!Select, TyInv
    <2> QED
      BY <1>0, <1>1, <2>2, <2>3, <2>4
  <1>5. CASE Ty!Type
    <2>1. s1 \in {"here", "there"}
      BY <1>0, <1>5 DEF Ty!Type
    <2>2. s4' = s4 \o <<Ty!Ask("start", s1)>> /\ s3' = s1
          /\ s9' = (s9 \/ (s3 = "here" /\ s1 # "here"))
          /\ UNCHANGED <<s1, s2, s5, s6, s7, s8>>
      BY <1>5 DEF Ty!Type, Ty!Say, Ty!Forgets
    <2>3. CASE s1 # "here"
      <3>1. Ty!Ask("start", s1) \in TyAsks /\ Ty!Ask("start", s1) # TyStarted
        BY <2>1, <2>3, TyKinds
      <3>2. PICK p \in Seq(TyAsks) : p = <<Ty!Ask("start", s1)>> /\ \A i \in DOMAIN p : p[i] # TyStarted
        BY <1>2, <3>1
      <3> QED
        BY <1>0, <1>1, <2>1, <2>2, <2>3, <3>2
    <2>4. CASE s1 = "here"
      <3>1. Ty!Ask("start", s1) \in TyAsks
        BY <2>1, TyKinds
      <3>2. s4' \in Seq(TyAsks)
        BY <1>0, <2>2, <3>1
      <3>3. Ty!TypeOK'
        BY <1>0, <2>1, <2>2, <3>2 DEF Ty!TypeOK, TyAsks
      <3> QED
        BY <2>2, <2>4, <3>3 DEF TyInv
    <2> QED
      BY <2>3, <2>4
  <1>6. CASE Ty!Submit
    <2>1. s1 \in {"here", "there"}
      BY <1>0, <1>6 DEF Ty!Submit
    <2>2. s4' = s4 \o <<Ty!Ask("stop", s1)>> /\ s3' = Nobody
          /\ s9' = (s9 \/ (s3 = "here" /\ s1 # "here"))
          /\ UNCHANGED <<s1, s2, s5, s6, s7, s8>>
      BY <1>6 DEF Ty!Submit, Ty!Say, Ty!Forgets
    <2>3. Ty!Ask("stop", s1) \in TyAsks /\ Ty!Ask("stop", s1) # TyStarted
      BY <2>1, TyKinds
    <2>4. PICK p \in Seq(TyAsks) : /\ p = <<Ty!Ask("stop", s1)>> /\ \A i \in DOMAIN p : p[i] # TyStarted
                                   /\ Ty!Ask("stop", s1) = TyStopped => TyStops(p)
      BY <1>2, <2>3
    <2>5. s1 = "here" => TyStops(p)
      BY <2>4 DEF TyStopped
    <2> QED
      BY <1>0, <1>1, <2>1, <2>2, <2>4, <2>5
  <1>7. CASE Ty!TimedOut
    <2>1. s3 \in {"here", "there"}
      BY <1>0, <1>7 DEF Ty!TimedOut
    <2>2. s4' = s4 \o <<Ty!Ask("stop", s3)>> /\ s3' = Nobody
          /\ UNCHANGED <<s1, s2, s5, s6, s7, s8, s9>>
      BY <1>7 DEF Ty!TimedOut, Ty!Say
    <2>3. Ty!Ask("stop", s3) \in TyAsks /\ Ty!Ask("stop", s3) # TyStarted
      BY <2>1, TyKinds
    <2>4. PICK p \in Seq(TyAsks) : /\ p = <<Ty!Ask("stop", s3)>> /\ \A i \in DOMAIN p : p[i] # TyStarted
                                   /\ Ty!Ask("stop", s3) = TyStopped => TyStops(p)
      BY <1>2, <2>3
    <2>5. s3 = "here" => TyStops(p)
      BY <2>4 DEF TyStopped
    <2> QED
      BY <1>0, <1>1, <2>1, <2>2, <2>4, <2>5
  <1>8. CASE Ty!Close
    <2>1. s1 \in {"here", "there"} /\ s1' = Nobody /\ s3' = Nobody
          /\ s9' = (s9 \/ (s3 = "here" /\ s2 # "here"))
          /\ UNCHANGED <<s2, s5, s6, s7, s8>>
      BY <1>0, <1>8 DEF Ty!Close, Ty!Forgets
    <2>2. s2 \in {"here", "there"}
      BY <1>0, <2>1, NobodyAssumption DEF TyInv
    <2>3. /\ Ty!Ask("leave", s1) \in TyAsks /\ Ty!Ask("stop", s2) \in TyAsks
          /\ Ty!Ask("leave", s1) # TyStarted /\ Ty!Ask("stop", s2) # TyStarted
      BY <2>1, <2>2, TyKinds
    <2>4. PICK p \in Seq(TyAsks) : /\ s4' = s4 \o p /\ \A i \in DOMAIN p : p[i] # TyStarted
                                   /\ Ty!Ask("stop", s2) = TyStopped => TyStops(p)
      <3>1. CASE Ty!Say(<<Ty!Ask("leave", s1), Ty!Ask("stop", s2)>>)
        BY <1>2, <2>3, <3>1 DEF Ty!Say
      <3>2. CASE Ty!Say(<<Ty!Ask("stop", s2), Ty!Ask("leave", s1)>>)
        BY <1>2, <2>3, <3>2 DEF Ty!Say
      <3> QED
        BY <1>8, <3>1, <3>2 DEF Ty!Close
    <2>5. s2 = "here" => TyStops(p)
      BY <2>4 DEF TyStopped
    <2> QED
      BY <1>0, <1>1, <2>1, <2>2, <2>4, <2>5
  <1>9. CASE Ty!HandleRoom
    <2>1. /\ s4 # <<>> /\ s4' = Tail(s4) /\ Head(s4).what \notin {"start", "stop"}
          /\ UNCHANGED <<s1, s2, s3, s7, s8, s9>>
      BY <1>9 DEF Ty!HandleRoom, Ty!Handled
    <2>2. /\ s4' \in Seq(TyAsks) /\ Head(s4) \in TyAsks /\ (TyEnds(s4) => TyEnds(s4'))
          /\ (Head(s4) # TyStopped => (TyStops(s4) => TyStops(s4')))
      BY <1>0, <2>1, TyHandling
    <2>3. Head(s4) # TyStopped
      BY <2>1, TyKinds
    <2>4. Head(s4).conv \in {"here", "there"}
      BY <2>2 DEF TyAsks
    <2>5. s5' \in SUBSET {"here", "there"} /\ s6' \in SUBSET {"here", "there"}
      BY <1>0, <1>9, <2>4 DEF Ty!HandleRoom
    <2>6. Ty!TypeOK'
      BY <1>0, <2>1, <2>2, <2>5 DEF Ty!TypeOK, TyAsks
    <2>7. TyFinal' = TyFinal /\ TyStops(s4)' = TyStops(s4') /\ TyEnds(s4)' = TyEnds(s4')
      BY <2>1 DEF TyFinal, TyStops, TyEnds
    <2> QED
      BY <2>1, <2>2, <2>3, <2>6, <2>7 DEF TyInv
  <1>10. CASE Ty!HandleTyping
    <2> DEFINE starts == Head(s4).what = "start"
               c == Head(s4).conv
    <2>1. /\ s4 # <<>> /\ s4' = Tail(s4) /\ Head(s4).what \in {"start", "stop"}
          /\ UNCHANGED <<s1, s2, s3, s5, s6, s8>>
      BY <1>10 DEF Ty!HandleTyping, Ty!Handled
    <2>2. /\ s4' \in Seq(TyAsks) /\ Head(s4) \in TyAsks /\ (TyEnds(s4) => TyEnds(s4'))
          /\ (Head(s4) # TyStopped => (TyStops(s4) => TyStops(s4')))
          /\ (TyEnds(s4) /\ Head(s4) = TyStarted => TyStops(s4'))
          /\ ((\A i \in 2..Len(s4) : s4[i] # TyStarted) => TyEnds(s4'))
      BY <1>0, <2>1, TyHandling
    <2>3. TyStops(s4)' = TyStops(s4') /\ TyEnds(s4)' = TyEnds(s4')
      BY DEF TyStops, TyEnds
    <2>4. CASE c = "here" /\ Ty!Passed(c)
      <3>1. /\ s7' = Append(s7, starts)
            /\ s9' = (s9 /\ (starts \/ \E i \in 2..Len(s4) : s4[i] = Ty!Ask("start", c)))
        BY <1>10, <2>4 DEF Ty!HandleTyping
      <3>2. starts \in BOOLEAN
        OBVIOUS
      <3>3. /\ s7' \in Seq(BOOLEAN) /\ s7' # <<>> /\ s7'[Len(s7')] = starts
        <4> HIDE DEF starts
        <4>1. Len(s7') = Len(s7) + 1 /\ s7' \in Seq(BOOLEAN) /\ s7' # <<>>
              /\ s7'[Len(s7) + 1] = starts
          BY <1>0, <3>1, <3>2, Longer
        <4> QED
          BY <4>1
      <3>4. TyFinal' = starts
        BY <3>3 DEF TyFinal
      <3>5. Ty!TypeOK'
        BY <1>0, <2>1, <2>2, <3>1, <3>3 DEF Ty!TypeOK, TyAsks
      <3>6. CASE starts
        <4>1. Head(s4) = TyStarted /\ s9' = s9
          BY <1>0, <2>2, <2>4, <3>1, <3>6, TyKinds
        <4> QED
          BY <2>1, <2>2, <2>3, <3>5, <4>1 DEF TyInv
      <3>7. CASE ~starts
        <4>1. ~TyFinal'
          BY <3>4, <3>7
        <4>2. ~s9' => ~s9 \/ TyEnds(s4')
          BY <2>2, <2>4, <3>1, <3>7 DEF TyStarted
        <4> QED
          BY <2>1, <2>2, <2>3, <3>5, <4>1, <4>2 DEF TyInv
      <3> QED
        BY <3>6, <3>7
    <2>5. CASE ~(c = "here" /\ Ty!Passed(c))
      <3>1. s9' = (s9 \/ (c = "here" /\ ~starts)) /\ UNCHANGED s7
        BY <1>10, <2>5 DEF Ty!HandleTyping
      <3>2. Ty!TypeOK'
        BY <1>0, <2>1, <2>2, <3>1 DEF Ty!TypeOK, TyAsks
      <3>3. TyFinal' = TyFinal
        BY <2>1, <3>1 DEF TyFinal
      <3>4. ~s9' => Head(s4) # TyStopped
        BY <3>1, TyKinds
      <3> QED
        BY <2>1, <2>2, <2>3, <3>1, <3>2, <3>3, <3>4 DEF TyInv
    <2> QED
      BY <2>4, <2>5
  <1>11. CASE Ty!Drop
    <2>1. Ty!TypeOK'
      BY <1>0, <1>11, Nothing DEF Ty!Drop, Ty!TypeOK
    <2> QED
      BY <1>11, <2>1 DEF Ty!Drop, TyInv
  <1>12. CASE Ty!Receive
    <2>1. /\ s7 # <<>> /\ s8' = Head(s7) /\ s7' = Tail(s7)
          /\ UNCHANGED <<s1, s2, s3, s4, s5, s6, s9>>
      BY <1>12 DEF Ty!Receive
    <2>2. /\ s7' \in Seq(BOOLEAN) /\ s8' \in BOOLEAN /\ Head(s7) = s7[1]
          /\ Len(s7') = Len(s7) - 1
          /\ \A i \in DOMAIN s7 : i # 1 => i - 1 \in DOMAIN s7' /\ s7'[i - 1] = s7[i]
      BY <1>0, <2>1, Tailed
    <2>3. TyFinal' = TyFinal
      <3>1. Len(s7) \in Nat /\ Len(s7) # 0 /\ DOMAIN s7 = 1..Len(s7)
        BY <1>0, <2>1
      <3>2. CASE Len(s7) = 1
        <4>1. s7' = <<>>
          BY <2>2, <3>2
        <4> QED
          BY <2>1, <2>2, <3>2, <4>1 DEF TyFinal
      <3>3. CASE Len(s7) # 1
        <4>1. s7' # <<>> /\ Len(s7) \in DOMAIN s7 /\ Len(s7) # 1
          BY <2>2, <3>1, <3>3
        <4>2. s7'[Len(s7) - 1] = s7[Len(s7)]
          BY <2>2, <4>1
        <4> QED
          BY <2>1, <2>2, <4>1, <4>2 DEF TyFinal
      <3> QED
        BY <3>2, <3>3
    <2>4. Ty!TypeOK'
      BY <1>0, <2>1, <2>2 DEF Ty!TypeOK, TyAsks
    <2> QED
      BY <2>1, <2>3, <2>4 DEF TyInv, TyStops, TyEnds
  <1>13. CASE Ty!Reselect
    <2>1. Ty!TypeOK'
      BY <1>0, <1>13 DEF Ty!Reselect, Ty!TypeOK, TyAsks
    <2>2. TyFinal' => TyFinal
      BY <1>13 DEF Ty!Reselect, TyFinal
    <2> QED
      BY <1>13, <2>1, <2>2 DEF Ty!Reselect, TyInv, TyStops, TyEnds
  <1>14. ASSUME NEW c \in {"here", "there"}, Ty!Joined(c) PROVE TyInv'
    <2>1. Ty!TypeOK'
      BY <1>0, <1>14 DEF Ty!Joined, Ty!TypeOK, TyAsks
    <2> QED
      BY <1>14, <2>1 DEF Ty!Joined, TyInv, TyStops, TyEnds, TyFinal
  <1> QED
    BY <1>3, <1>4, <1>5, <1>6, <1>7, <1>8, <1>9, <1>10, <1>11, <1>12, <1>13, <1>14 DEF
       Ty!Next

LEMMA TyMeans == ASSUME TyInv PROVE Ty!TypeOK /\ Ty!TypingEnds
  <1>1. s4 = <<>> => ~TyStops(s4)
    BY DEF TyStops
  <1> QED
    BY <1>1 DEF TyInv, Ty!TypingEnds, TyFinal

LEMMA TyStillInv == ASSUME TyInv, UNCHANGED Ty!vars PROVE TyInv'
  BY DEF TyInv, Ty!vars, Ty!TypeOK, TyFinal

-----------------------------------------------------------------------------
(* VoiceSession: a call that is live is the one the page holds.            *)

\* What the proofs assume of the constants.
VsSetting == Nobody \notin Call

-----------------------------------------------------------------------------
(* The invariant.  A room that has been left is nobody's call any more, so *)
(* that its Disconnected never meets the room it is about in roomRef; and  *)
(* what is said of live microphones is prepared while a call is made.      *)

VsHeld ==
  /\ s4 # Nobody => Vs!Live(s4) /\ s5.connected
  /\ \A c \in s3 : s2[c] = Vs!None

VsMakingOK(c) == Vs!InMaking(c) =>
  /\ Vs!In \/ c \in s6
  /\ c \in s8 \/ s2[c].mic = ~s5.muted

VsInv == Vs!TypeOK /\ VsHeld /\ Vs!MicHeld /\ Vs!MicAsShown /\ \A c \in Call : VsMakingOK(c)

LEMMA VsInitInv == ASSUME VsSetting PROVE Vs!Init => VsInv
  BY DEF VsSetting, Vs!Init, VsInv, Vs!TypeOK, VsHeld, Vs!MicHeld, Vs!MicAsShown,
     VsMakingOK, Vs!InMaking,
         Vs!Live, Vs!Calls, Vs!None, Vs!In

-----------------------------------------------------------------------------
\* teardownRoom takes the room of roomRef, and says nothing of the others: those
\* that are made of one in now.
LEMMA VsTeardownInv ==
  ASSUME VsSetting, VsInv, NEW now \in [Call -> Vs!Calls], Vs!Teardown(now),
         \A c \in Call : c # s4 => \/ now[c] = s2[c]
                                   \/ now[c].pc \in {"none", "deaf"} /\ Vs!InMaking(c),
         s1' \in {"authenticated", "unauthenticated"},
         s6' \in SUBSET Call, s6 \subseteq s6',
         \A c \in Call : Vs!InMaking(c) /\ ~Vs!In' => c \in s6'
  PROVE VsInv'
<1> USE DEF VsInv, Vs!Disconnects
<1>1. Vs!TypeOK'
  BY DEF Vs!TypeOK, Vs!Teardown, VsSetting, Vs!Calls
<1>2. \A c \in Call : c # s4 => s2'[c] = now[c]
  BY DEF Vs!Teardown
<1>3. s4 # Nobody => s2'[s4] = Vs!None
  BY DEF Vs!Teardown, Vs!TypeOK
<1>4. VsHeld'
  <2>1. ASSUME NEW c \in s3' PROVE s2'[c] = Vs!None
    <3>1. CASE c = s4 /\ s4 # Nobody
      BY <1>3, <3>1
    <3>2. CASE c \in s3 /\ c # s4
      <4>1. c \in Call /\ s2[c] = Vs!None
        BY <3>2 DEF VsHeld, Vs!TypeOK
      <4>2. now[c] = s2[c]
        BY <3>2, <4>1 DEF Vs!InMaking, Vs!None
      <4> QED  BY <1>2, <3>2, <4>1, <4>2
    <3> QED  BY <2>1, <3>1, <3>2 DEF Vs!Teardown, Vs!TypeOK, VsSetting
  <2> QED  BY <2>1 DEF Vs!Teardown, VsHeld
<1>5. ASSUME NEW c \in Call, Vs!Live(c)' PROVE c \in s7' \cup s6'
  <2>1. c # s4 /\ Vs!Live(c)
    BY <1>2, <1>3, <1>5 DEF Vs!Live, Vs!None, VsSetting, Vs!InMaking, Vs!TypeOK
  <2> QED  BY <2>1 DEF Vs!MicHeld, Vs!Teardown
<1>6. s4' = Nobody
  BY DEF Vs!Teardown
<1>7. ASSUME NEW c \in Call PROVE VsMakingOK(c)'
  <2>1. CASE Vs!InMaking(c)'
    <3>1. c # s4 /\ s2'[c] = s2[c] /\ Vs!InMaking(c)
      BY <1>2, <1>3, <2>1 DEF Vs!InMaking, Vs!None, Vs!TypeOK, VsSetting
    <3> QED  BY <3>1 DEF VsMakingOK, Vs!Teardown, Vs!TypeOK
  <2> QED  BY <2>1 DEF VsMakingOK
<1> QED  BY <1>1, <1>4, <1>5, <1>6, <1>7 DEF Vs!MicHeld, Vs!MicAsShown, VsSetting

\* A Disconnected takes roomRef from the page: a room it was not about goes on.
LEMMA VsDisconnectedInv ==
  ASSUME VsSetting, VsInv, NEW c \in Call, Vs!Disconnected(c), c # s4 \/ s2'[c] = Vs!None,
         s2' \in [Call -> Vs!Calls], s3' \subseteq s3,
         \A d \in Call : s2'[d] = s2[d] \/ s2'[d] = Vs!None
  PROVE VsInv'
<1> USE DEF VsInv, Vs!Disconnects
<1>1. Vs!TypeOK'
  BY DEF Vs!TypeOK, Vs!Disconnected, VsSetting
<1>2. VsHeld'
  BY DEF VsHeld, Vs!Disconnected, Vs!TypeOK
<1>3. ASSUME NEW d \in Call, Vs!Live(d)' PROVE d \in (s7 \cup s6)'
  <2>1. Vs!Live(d) /\ (d = s4 => d # c)
    BY <1>3 DEF Vs!Live, Vs!None
  <2> QED  BY <2>1 DEF Vs!MicHeld, Vs!Disconnected, VsSetting
<1>4. ASSUME NEW d \in Call PROVE VsMakingOK(d)'
  BY DEF VsMakingOK, Vs!Disconnected, Vs!InMaking, Vs!None, Vs!In, Vs!TypeOK
<1> QED  BY <1>1, <1>2, <1>3, <1>4 DEF Vs!MicHeld, Vs!MicAsShown, Vs!Disconnected, VsSetting

-----------------------------------------------------------------------------
LEMMA VsCallInv ==
  ASSUME VsSetting, VsInv, NEW c \in Call,
         Vs!Join(c) \/ Vs!Advance(c) \/ Vs!Connect(c) \/ Vs!Fail(c)
  PROVE VsInv'
<1> USE DEF VsInv
<1>1. CASE Vs!Join(c)
  <2>1. s2' \in [Call -> Vs!Calls] /\ s2'[c] = Vs!At("token", ~s5.muted)
        /\ \A d \in Call : d # c => s2'[d] = s2[d]
    BY <1>1 DEF Vs!Join, Vs!TypeOK, Vs!Calls, Vs!At
  <2>2. Vs!TypeOK'
    BY <1>1, <2>1 DEF Vs!Join, Vs!TypeOK, Vs!page
  <2>3. VsHeld'
    BY <1>1, <2>1 DEF Vs!Join, VsHeld, Vs!TypeOK, Vs!Live, Vs!None, Vs!page
  <2>4. Vs!MicHeld' /\ Vs!MicAsShown'
    BY <1>1, <2>1 DEF Vs!Join, Vs!MicHeld, Vs!MicAsShown, Vs!Live, Vs!At, Vs!In, Vs!page
  <2>5. ASSUME NEW d \in Call PROVE VsMakingOK(d)'
    BY <1>1, <2>1 DEF Vs!Join, VsMakingOK, Vs!InMaking, Vs!At, Vs!In, Vs!page
  <2> QED  BY <2>2, <2>3, <2>4, <2>5
<1>2. CASE Vs!Advance(c)
  <2>1. /\ s2' \in [Call -> Vs!Calls] /\ s2'[c].pc \in {"connect", "mic"}
        /\ s2'[c].mic = s2[c].mic /\ Vs!InMaking(c)
        /\ \A d \in Call : d # c => s2'[d] = s2[d]
    BY <1>2 DEF Vs!Advance, Vs!TypeOK, Vs!Calls, Vs!None, Vs!InMaking
  <2>2. Vs!TypeOK'
    BY <1>2, <2>1 DEF Vs!Advance, Vs!TypeOK, Vs!page, Vs!past
  <2>3. VsHeld'
    BY <1>2, <2>1 DEF Vs!Advance, VsHeld, Vs!TypeOK, Vs!Live, Vs!None, Vs!page, Vs!InMaking
  <2>4. Vs!MicHeld' /\ Vs!MicAsShown'
    BY <1>2, <2>1 DEF Vs!Advance, Vs!MicHeld, Vs!MicAsShown, Vs!Live, Vs!In, Vs!page,
       Vs!past
  <2>5. ASSUME NEW d \in Call PROVE VsMakingOK(d)'
    BY <1>2, <2>1 DEF Vs!Advance, VsMakingOK, Vs!InMaking, Vs!In, Vs!page, Vs!past
  <2> QED  BY <2>2, <2>3, <2>4, <2>5
<1>3. CASE Vs!Connect(c)
  <2>1. /\ s2' \in [Call -> Vs!Calls] /\ Vs!Live(c)' /\ Vs!InMaking(c)
        /\ s2'[c].mic = s2[c].mic
        /\ \A d \in Call : d # c => s2'[d] = s2[d]
    BY <1>3 DEF Vs!Connect, Vs!TypeOK, Vs!Calls, Vs!None, Vs!InMaking, Vs!Live
  <2>2. s5'.connected /\ s5'.muted = s5.muted
    BY <1>3 DEF Vs!Connect, Vs!TypeOK
  <2>3. Vs!TypeOK'
    BY <1>3, <2>1 DEF Vs!Connect, Vs!TypeOK, Vs!Disconnects
  <2>4. VsHeld'
    BY <1>3, <2>1, <2>2 DEF Vs!Connect, VsHeld, Vs!TypeOK, Vs!None, Vs!InMaking
  <2>5. Vs!MicHeld'
    <3>1. c \in s6 \/ Vs!In
      BY <2>1 DEF VsMakingOK
    <3>2. ASSUME NEW d \in Call, d # c, Vs!Live(d)' PROVE d \in (s7 \cup s6)'
      <4>1. d \in s7 \cup s6 \/ s4 = d
        BY <2>1, <3>2 DEF Vs!MicHeld, Vs!Live
      <4> QED  BY <1>3, <4>1 DEF Vs!Connect, Vs!Disconnects, VsSetting
    <3> QED  BY <1>3, <2>2, <3>1, <3>2 DEF Vs!MicHeld, Vs!Connect, Vs!In
  <2>6. Vs!MicAsShown'
    BY <1>3, <2>1, <2>2 DEF Vs!MicAsShown, VsMakingOK, Vs!Connect
  <2>7. ASSUME NEW d \in Call PROVE VsMakingOK(d)'
    BY <1>3, <2>1, <2>2 DEF Vs!Connect, VsMakingOK, Vs!InMaking, Vs!Live, Vs!In
  <2> QED  BY <2>3, <2>4, <2>5, <2>6, <2>7
<1>4. CASE Vs!Fail(c)
  <2> DEFINE now == [s2 EXCEPT ![c] = IF @.pc = "mic" THEN Vs!At("deaf", FALSE) ELSE Vs!None]
  <2>1. now \in [Call -> Vs!Calls] /\ \A d \in Call : d # c => now[d] = s2[d]
    BY DEF Vs!TypeOK, Vs!Calls, Vs!At, Vs!None
  <2>2. now[c].pc \in {"none", "deaf"} /\ Vs!InMaking(c)
    BY <1>4 DEF Vs!Fail, Vs!TypeOK, Vs!At, Vs!None
  <2>3. Vs!Teardown(now) /\ UNCHANGED <<s1, s6>>
    BY <1>4 DEF Vs!Fail
  <2>4. \A d \in Call : Vs!InMaking(d) /\ ~Vs!In' => d \in s6'
    BY <2>3 DEF VsMakingOK, Vs!In
  <2> QED  BY <2>1, <2>2, <2>3, <2>4, VsTeardownInv DEF Vs!TypeOK
<1> QED  BY <1>1, <1>2, <1>3, <1>4

LEMMA VsEndInv ==
  ASSUME VsSetting, VsInv, NEW c \in Call, Vs!Parted(c) \/ Vs!Closed(c) \/ Vs!ClosedInMaking(c)
  PROVE VsInv'
<1> USE DEF VsInv
<1>1. CASE Vs!Parted(c)
  <2>1. c # s4
    BY <1>1 DEF Vs!Parted, VsHeld, Vs!Live, Vs!None, VsSetting
  <2> QED  BY <1>1, <2>1, VsDisconnectedInv DEF Vs!Parted, Vs!TypeOK
<1>2. CASE Vs!Closed(c)
  <2>1. s2' \in [Call -> Vs!Calls] /\ s2'[c] = Vs!None
        /\ \A d \in Call : d # c => s2'[d] = s2[d]
    BY <1>2 DEF Vs!Closed, Vs!TypeOK, Vs!Calls
  <2> QED  BY <1>2, <2>1, VsDisconnectedInv DEF Vs!Closed
<1>3. CASE Vs!ClosedInMaking(c)
  <2>1. c # s4
    BY <1>3 DEF Vs!ClosedInMaking, VsHeld, Vs!Live, VsSetting
  <2>2. s2' \in [Call -> Vs!Calls] /\ \A d \in Call : s2'[d] = s2[d] \/ s2'[d] = Vs!None
    BY <1>3 DEF Vs!ClosedInMaking, Vs!TypeOK, Vs!Calls
  <2> QED  BY <1>3, <2>1, <2>2, VsDisconnectedInv DEF Vs!ClosedInMaking
<1> QED  BY <1>1, <1>2, <1>3

\* The room that is held is told of a change of the switch; of a call under way
\* it is remembered that it was not.
LEMMA VsSwitchInv ==
  ASSUME VsSetting, VsInv, NEW mic \in BOOLEAN, s2' = Vs!Told(mic), s5'.muted = ~mic,
         s5'.connected = s5.connected,
         s5' \in [connected : BOOLEAN, muted : BOOLEAN, deafened : BOOLEAN],
         s8' = s8 \cup Vs!Making, UNCHANGED <<s1, s3, s4, s6, s7>>
  PROVE VsInv'
<1> USE DEF VsInv
<1>1. /\ s2' \in [Call -> Vs!Calls] /\ \A d \in Call : s2'[d].pc = s2[d].pc
      /\ \A d \in Call : s2[d] = Vs!None => s2'[d] = Vs!None
      /\ s4 # Nobody => s2'[s4].mic = mic
  <2>1. CASE s4 = Nobody
    BY <2>1 DEF Vs!Told, Vs!TypeOK
  <2>2. CASE s4 # Nobody
    <3>1. s4 \in Call /\ s2[s4].pc = "live" /\ s2[s4] \in Vs!Calls
      BY <2>2 DEF Vs!TypeOK, VsHeld, Vs!Live
    <3>2. s2' = [s2 EXCEPT ![s4].mic = mic]
      BY <2>2 DEF Vs!Told
    <3> QED  BY <3>1, <3>2 DEF Vs!TypeOK, Vs!Calls, Vs!None
  <2> QED  BY <2>1, <2>2
<1>2. Vs!TypeOK'
  BY <1>1 DEF Vs!TypeOK, Vs!Making
<1>3. VsHeld' /\ Vs!MicHeld'
  BY <1>1 DEF VsHeld, Vs!MicHeld, Vs!Live, Vs!TypeOK, Vs!In
<1>4. Vs!MicAsShown'
  BY <1>1 DEF Vs!MicAsShown, VsSetting
<1>5. ASSUME NEW d \in Call PROVE VsMakingOK(d)'
  BY <1>1 DEF VsMakingOK, Vs!InMaking, Vs!Making, Vs!In
<1> QED  BY <1>2, <1>3, <1>4, <1>5

LEMMA VsUserInv ==
  ASSUME VsSetting, VsInv, Vs!Leave \/ Vs!SignOut \/ Vs!SignIn \/ Vs!ToggleMute \/ Vs!ToggleDeafen
  PROVE VsInv'
<1> USE DEF VsInv
<1>0. s2 \in [Call -> Vs!Calls]
  BY DEF Vs!TypeOK
<1>1. CASE Vs!Leave
  BY <1>0, <1>1, VsTeardownInv DEF Vs!Leave, Vs!TypeOK, VsMakingOK, Vs!In
<1>2. CASE Vs!SignOut
  BY <1>0, <1>2, VsTeardownInv DEF Vs!SignOut, Vs!TypeOK, Vs!Making
<1>3. CASE Vs!SignIn
  BY <1>3 DEF Vs!SignIn, Vs!TypeOK, VsHeld, Vs!MicHeld, Vs!MicAsShown, VsMakingOK,
     Vs!InMaking, Vs!Live, Vs!In, Vs!page, Vs!past
<1>4. CASE Vs!ToggleMute
  <2>1. s5.muted \in BOOLEAN /\ s5'.muted = ~s5.muted
        /\ s5'.connected = s5.connected
        /\ s5' \in [connected : BOOLEAN, muted : BOOLEAN, deafened : BOOLEAN]
    BY <1>4 DEF Vs!ToggleMute, Vs!TypeOK
  <2> QED  BY <1>4, <2>1, VsSwitchInv DEF Vs!ToggleMute
<1>5. CASE Vs!ToggleDeafen
  <2> DEFINE mutes == ~s5.deafened /\ ~s5.muted
  <2>1. s5'.muted = (s5.muted \/ mutes) /\ s5'.connected = s5.connected
        /\ s5' \in [connected : BOOLEAN, muted : BOOLEAN, deafened : BOOLEAN]
    BY <1>5 DEF Vs!ToggleDeafen, Vs!TypeOK
  <2>2. CASE mutes
    <3>1. s5'.muted = ~FALSE
      BY <2>1, <2>2 DEF Vs!TypeOK
    <3> QED  BY <1>5, <2>1, <2>2, <3>1, VsSwitchInv DEF Vs!ToggleDeafen
  <2>3. CASE ~mutes
    <3>1. s5'.muted = s5.muted /\ UNCHANGED <<s2, s8>>
      BY <1>5, <2>1, <2>3 DEF Vs!ToggleDeafen, Vs!TypeOK
    <3> QED  BY <1>5, <2>1, <3>1 DEF Vs!ToggleDeafen, Vs!TypeOK, VsHeld, Vs!MicHeld,
                Vs!MicAsShown,
                                     VsMakingOK, Vs!InMaking, Vs!Live, Vs!In
  <2> QED  BY <2>2, <2>3
<1> QED  BY <1>1, <1>2, <1>3, <1>4, <1>5

LEMMA VsNextInv == ASSUME VsSetting PROVE VsInv /\ [Vs!Next]_(Vs!vars) => VsInv'
<1> SUFFICES ASSUME VsInv, [Vs!Next]_(Vs!vars) PROVE VsInv'
  OBVIOUS
<1>1. CASE UNCHANGED Vs!vars
  BY <1>1 DEF Vs!vars, Vs!page, Vs!past, VsInv, Vs!TypeOK, VsHeld, Vs!MicHeld,
     Vs!MicAsShown, VsMakingOK,
              Vs!InMaking, Vs!Live, Vs!In
<1> QED  BY <1>1, VsCallInv, VsEndInv, VsUserInv DEF Vs!Next

\* However calls, leavings, sign-outs and the Disconnected of rooms that were
\* left overlap: a live microphone is the one the page holds and shows, except
\* for the calls a sign-out overtook and the rooms roomRef was taken from; and
\* it is switched as the page shows it, except for what was switched during the
\* call.
THEOREM Microphone == ASSUME VsSetting PROVE Vs!Spec => [](Vs!TypeOK /\ Vs!MicHeld /\ Vs!MicAsShown)
<1>1. Vs!Init => VsInv
  BY VsInitInv
<1>2. VsInv /\ [Vs!Next]_(Vs!vars) => VsInv'
  BY VsNextInv
<1>3. VsInv => Vs!TypeOK /\ Vs!MicHeld /\ Vs!MicAsShown
  BY DEF VsInv
<1> QED  BY <1>1, <1>2, <1>3, PTL DEF Vs!Spec

-----------------------------------------------------------------------------
(* ChannelVoice: who is in a room holds a token for it.                    *)

\* What the proofs assume of the constants.
CvSetting == Nobody \notin Req /\ MaxRooms \in Nat

-----------------------------------------------------------------------------
(* The invariant.  The token of a call is for the room its channel led to, *)
(* and that changes only where two joined it first.  A panel holds a live  *)
(* call of its own, and while it makes one it holds none and makes no      *)
(* other.                                                                  *)

CvTokenOK(k) == s4[k].pc \in Cv!Granted =>
  Cv!MayReconnect(k) \/ s4[k].chan \in s7

CvHeldOK(p) == s6[p] # Nobody =>
  s4[s6[p]].pc = "live" /\ s4[s6[p]].page = p /\ s4[s6[p]].own

CvOwnOK(k) ==
  /\ s4[k].pc = "live" /\ s4[k].own => s6[s4[k].page] = k
  /\ Cv!Connecting(k) /\ s4[k].own => s6[s4[k].page] = Nobody

CvOneMade(j, k) ==
  Cv!Connecting(j) /\ Cv!Connecting(k) /\ s4[j].own /\ s4[k].own /\ s4[j].page = s4[k].page => j = k

CvServerOK == \A k \in Req : CvTokenOK(k)
CvPanelOK ==
  /\ \A p \in User : CvHeldOK(p)
  /\ \A k \in Req : CvOwnOK(k)
  /\ \A j, k \in Req : CvOneMade(j, k)

CvInv == Cv!TypeOK /\ CvServerOK /\ CvPanelOK

LEMMA CvInvMeans == ASSUME CvInv PROVE Cv!TypeOK /\ Cv!Together /\ Cv!MicHeld
  BY DEF CvInv, CvServerOK, CvPanelOK, CvTokenOK, CvOwnOK, Cv!Together, Cv!MicHeld,
     Cv!InRoom, Cv!Granted

LEMMA CvInitInv == ASSUME CvSetting PROVE Cv!Init => CvInv
  BY DEF CvSetting, Cv!Init, CvInv, Cv!TypeOK, CvServerOK, CvPanelOK, CvTokenOK, CvHeldOK,
     CvOwnOK, CvOneMade,
         Cv!Connecting, Cv!Calls, Cv!None, Cv!Granted, Cv!Asking

-----------------------------------------------------------------------------
(* The server.                                                             *)

\* A call that goes on with its making, whatever its panel holds.
LEMMA CvMakingPanel ==
  ASSUME CvSetting, Cv!TypeOK, CvPanelOK, NEW k \in Req, Cv!Connecting(k), UNCHANGED s6,
         \A j \in Req : j # k => s4'[j] = s4[j],
         \/ s4'[k] = Cv!None \/ s4'[k].pc = "deaf"
         \/ Cv!Connecting(k)' /\ s4'[k].own = s4[k].own /\ s4'[k].page = s4[k].page
  PROVE CvPanelOK'
<1>1. ASSUME NEW p \in User PROVE CvHeldOK(p)'
  BY DEF CvPanelOK, CvHeldOK, Cv!TypeOK, Cv!Connecting, Cv!Asking
<1>2. ASSUME NEW j \in Req PROVE CvOwnOK(j)'
  BY DEF CvPanelOK, CvOwnOK, Cv!Connecting, Cv!Asking, Cv!None
<1>3. ASSUME NEW i \in Req, NEW j \in Req PROVE CvOneMade(i, j)'
  BY DEF CvPanelOK, CvOneMade, Cv!Connecting, Cv!Asking, Cv!None
<1> QED  BY <1>1, <1>2, <1>3 DEF CvPanelOK

LEMMA CvFindInv ==
  ASSUME CvSetting, CvInv, NEW k \in Req, Cv!Find(k)
  PROVE CvInv'
<1> USE DEF CvInv
<1> DEFINE c == s4[k].chan
<1>1. c \in Spot /\ s4[k].page \in User /\ s4[k].own \in BOOLEAN /\ Cv!Connecting(k)
  BY DEF Cv!Find, Cv!TypeOK, Cv!Calls, Cv!None, Cv!Asking, Cv!Granted, Cv!Connecting
<1>2. \A j \in Req : j # k => s4'[j] = s4[j]
  BY DEF Cv!Find, Cv!TypeOK
<1>3. CASE c \in s3
  <2>1. s4'[k] = Cv!None /\ s4' \in [Req -> Cv!Calls]
    BY <1>3 DEF Cv!Find, Cv!TypeOK, Cv!Calls
  <2>2. Cv!TypeOK' /\ CvServerOK'
    BY <1>2, <2>1 DEF Cv!Find, Cv!TypeOK, CvServerOK, CvTokenOK, Cv!MayReconnect, Cv!None,
       Cv!Granted, Cv!server
  <2> QED  BY <1>1, <1>2, <2>1, <2>2, CvMakingPanel DEF Cv!Find
<1>4. CASE c \notin s3 /\ s1[c] = 0
  <2>1. s4'[k] = [s4[k] EXCEPT !.pc = "create"]
    BY <1>4 DEF Cv!Find, Cv!TypeOK
  <2>2. s4[k] \in [pc : Cv!Asking, page : User, chan : Spot, own : BOOLEAN]
    BY DEF Cv!Find, Cv!TypeOK, Cv!Calls, Cv!None, Cv!Granted
  <2>3. /\ s4'[k] \in Cv!Calls /\ s4'[k].pc = "create"
        /\ s4'[k].own = s4[k].own /\ s4'[k].page = s4[k].page
    BY <2>1, <2>2 DEF Cv!Calls, Cv!Asking
  <2>4. s4' \in [Req -> Cv!Calls]
    BY <2>3 DEF Cv!Find, Cv!TypeOK
  <2>5. Cv!TypeOK' /\ CvServerOK'
    BY <1>2, <2>3, <2>4 DEF Cv!Find, Cv!TypeOK, CvServerOK, CvTokenOK, Cv!MayReconnect,
       Cv!Granted, Cv!server
  <2> QED  BY <1>1, <1>2, <2>3, <2>5, CvMakingPanel DEF Cv!Find, Cv!Connecting, Cv!Asking
<1>5. CASE c \notin s3 /\ s1[c] # 0
  <2>1. s4'[k] = Cv!With(k, s1[c]) /\ s1[c] \in 1..s2
    BY <1>1, <1>5 DEF Cv!Find, Cv!TypeOK
  <2>2. /\ s4'[k] \in Cv!Calls /\ s4'[k].pc = "token"
        /\ s4'[k].own = s4[k].own /\ s4'[k].page = s4[k].page
        /\ s4'[k].chan = c /\ s4'[k].room = s1[c]
    BY <1>1, <2>1 DEF Cv!With, Cv!Calls, Cv!Granted, Cv!Room, Cv!TypeOK, CvSetting
  <2>3. s4' \in [Req -> Cv!Calls]
    BY <2>2 DEF Cv!Find, Cv!TypeOK
  <2>4. Cv!TypeOK' /\ CvServerOK'
    BY <1>2, <2>1, <2>2, <2>3 DEF Cv!Find, Cv!TypeOK, CvServerOK, CvTokenOK,
       Cv!MayReconnect, Cv!server
  <2> QED  BY <1>1, <1>2, <2>2, <2>4, CvMakingPanel DEF Cv!Find, Cv!Connecting
<1> QED  BY <1>3, <1>4, <1>5

LEMMA CvCreateInv ==
  ASSUME CvSetting, CvInv, NEW k \in Req, Cv!CreateRoom(k)
  PROVE CvInv'
<1> USE DEF CvInv
<1> DEFINE c == s4[k].chan
<1>1. c \in Spot /\ s4[k].page \in User /\ s4[k].own \in BOOLEAN /\ Cv!Connecting(k)
  BY DEF Cv!CreateRoom, Cv!TypeOK, Cv!Calls, Cv!None, Cv!Asking, Cv!Granted, Cv!Connecting
<1>2. \A j \in Req : j # k => s4'[j] = s4[j]
  BY DEF Cv!CreateRoom, Cv!TypeOK
<1>3. CASE c \in s3
  <2>1. s4'[k] = Cv!None /\ s4' \in [Req -> Cv!Calls]
    BY <1>3 DEF Cv!CreateRoom, Cv!TypeOK, Cv!Calls
  <2>2. Cv!TypeOK' /\ CvServerOK'
    BY <1>2, <1>3, <2>1 DEF Cv!CreateRoom, Cv!TypeOK, CvServerOK, CvTokenOK,
       Cv!MayReconnect, Cv!None, Cv!Granted
  <2> QED  BY <1>1, <1>2, <2>1, <2>2, CvMakingPanel DEF Cv!CreateRoom
<1>4. CASE c \notin s3
  <2>1. /\ s4'[k] = Cv!With(k, s2 + 1) /\ s2' = s2 + 1 /\ s2 < MaxRooms
        /\ s1' = [s1 EXCEPT ![c] = s2 + 1]
        /\ s7' = (IF s1[c] = 0 THEN s7 ELSE s7 \cup {c})
    BY <1>4 DEF Cv!CreateRoom, Cv!TypeOK, Cv!Connected
  <2>2. /\ s4'[k] \in Cv!Calls /\ s4'[k].pc = "token"
        /\ s4'[k].own = s4[k].own /\ s4'[k].page = s4[k].page
        /\ s4'[k].chan = c /\ s4'[k].room = s2 + 1
    BY <1>1, <2>1 DEF Cv!With, Cv!Calls, Cv!Granted, Cv!Room, Cv!TypeOK, CvSetting
  <2>3. s4' \in [Req -> Cv!Calls]
    BY <1>4, <2>2 DEF Cv!CreateRoom, Cv!TypeOK
  <2>4. s2' \in 0..MaxRooms /\ s1' \in [Spot -> 0..s2'] /\ s7' \in SUBSET Spot
    BY <1>1, <2>1 DEF Cv!TypeOK, CvSetting
  <2>5. \A j \in Req : s4'[j].pc \in Cv!Granted => s4'[j].room <= s2'
    <3>1. \A j \in Req : s4[j].pc \in Cv!Granted => s4[j].room \in Nat
      BY DEF Cv!TypeOK, Cv!Calls, Cv!None, Cv!Asking, Cv!Granted, Cv!Room, CvSetting
    <3> QED  BY <1>2, <2>1, <2>2, <3>1 DEF Cv!TypeOK, CvSetting
  <2>6. Cv!TypeOK'
    BY <2>3, <2>4, <2>5 DEF Cv!CreateRoom, Cv!TypeOK
  <2>7. ASSUME NEW j \in Req PROVE CvTokenOK(j)'
    <3>1. CASE j = k
      BY <1>1, <2>1, <2>2, <3>1 DEF CvTokenOK, Cv!MayReconnect, Cv!TypeOK
    <3>2. CASE j # k /\ s4[j].pc \in Cv!Granted
      <4>1. s4[j].chan \in Spot /\ s4[j].room # 0
        BY <3>2 DEF Cv!TypeOK, Cv!Calls, Cv!None, Cv!Asking, Cv!Granted, Cv!Room
      <4>2. s1[s4[j].chan] = s4[j].room \/ s4[j].chan \in s7
        BY <3>2 DEF CvServerOK, CvTokenOK, Cv!MayReconnect
      <4>3. CASE s4[j].chan = c
        BY <1>2, <2>1, <3>2, <4>1, <4>2, <4>3 DEF CvTokenOK
      <4>4. CASE s4[j].chan # c
        BY <1>2, <2>1, <3>2, <4>1, <4>2, <4>4 DEF CvTokenOK, Cv!MayReconnect, Cv!TypeOK
      <4> QED  BY <4>3, <4>4
    <3> QED  BY <1>2, <3>1, <3>2 DEF CvTokenOK
  <2> QED  BY <1>1, <1>2, <2>2, <2>6, <2>7, CvMakingPanel DEF Cv!CreateRoom, Cv!Connecting,
              CvServerOK
<1> QED  BY <1>3, <1>4

-----------------------------------------------------------------------------
(* The panel.                                                              *)

\* Calls keep their channel and their room.
CvKept(k) == s4'[k].pc \in Cv!Granted =>
  s4[k].pc \in Cv!Granted /\ s4'[k].chan = s4[k].chan /\ s4'[k].room = s4[k].room

LEMMA CvTokensKept ==
  ASSUME CvServerOK, UNCHANGED <<s1, s7>>, \A k \in Req : CvKept(k)
  PROVE CvServerOK'
  BY DEF CvServerOK, CvTokenOK, Cv!MayReconnect, CvKept

\* One call takes another step, held stays.
LEMMA CvStepOf ==
  ASSUME Cv!TypeOK, NEW k \in Req, NEW pc, s4' = [s4 EXCEPT ![k].pc = pc]
  PROVE /\ \A j \in Req : j # k => s4'[j] = s4[j]
        /\ s4'[k] = [s4[k] EXCEPT !.pc = pc]
  BY DEF Cv!TypeOK

LEMMA CvFields ==
  ASSUME Cv!TypeOK, NEW k \in Req, s4[k].pc \in Cv!Granted, NEW pc \in Cv!Granted
  PROVE LET next == [s4[k] EXCEPT !.pc = pc]
        IN  /\ next \in Cv!Calls /\ next.pc = pc
            /\ next.page = s4[k].page /\ next.chan = s4[k].chan
            /\ next.own = s4[k].own /\ next.room = s4[k].room
            /\ s4[k].page \in User /\ s4[k].own \in BOOLEAN
<1>1. s4[k] \in [pc : Cv!Granted, page : User, chan : Spot, own : BOOLEAN, room : Cv!Room]
  BY DEF Cv!TypeOK, Cv!Calls, Cv!None, Cv!Asking, Cv!Granted
<1> QED  BY <1>1 DEF Cv!Calls

LEMMA CvJoinInv ==
  ASSUME CvSetting, CvInv, NEW k \in Req, NEW p \in User, Cv!Join(k, p)
  PROVE CvInv'
<1> USE DEF CvInv
<1> DEFINE next == [pc |-> "find", page |-> p, chan |-> s5[p], own |-> TRUE]
<1>1. next \in Cv!Calls
  BY DEF Cv!Join, Cv!TypeOK, Cv!Calls, Cv!Asking
<1>2. s4' \in [Req -> Cv!Calls] /\ s4'[k] = next /\ \A j \in Req : j # k => s4'[j] = s4[j]
  BY <1>1 DEF Cv!Join, Cv!TypeOK
<1>3. Cv!TypeOK' /\ CvServerOK'
  BY <1>2, CvTokensKept DEF Cv!Join, Cv!TypeOK, Cv!Granted, Cv!server, CvKept
<1>4. ASSUME NEW j \in Req, j # k, s4[j].page = p, s4[j].own, Cv!Connecting(j) PROVE FALSE
  <2>1. s4[j] # Cv!None
    BY <1>4 DEF Cv!Connecting, Cv!Asking, Cv!None
  <2> QED  BY <1>4, <2>1 DEF Cv!Join, Cv!Busy, Cv!Of
<1>5. ASSUME NEW q \in User PROVE CvHeldOK(q)'
  BY <1>2 DEF Cv!Join, CvPanelOK, CvHeldOK, Cv!TypeOK, Cv!None
<1>6. ASSUME NEW j \in Req PROVE CvOwnOK(j)'
  BY <1>2 DEF Cv!Join, CvPanelOK, CvOwnOK, Cv!Connecting
<1>7. ASSUME NEW i \in Req, NEW j \in Req PROVE CvOneMade(i, j)'
  BY <1>2, <1>4 DEF Cv!Join, CvPanelOK, CvOneMade, Cv!Connecting
<1> QED  BY <1>3, <1>5, <1>6, <1>7 DEF CvPanelOK

LEMMA CvAdvanceInv ==
  ASSUME CvSetting, CvInv, NEW k \in Req, Cv!Advance(k)
  PROVE CvInv'
<1> USE DEF CvInv
<1> DEFINE pc == IF s4[k].pc = "token" THEN "connect" ELSE "mic"
<1>1. s4[k].pc \in Cv!Granted /\ pc \in Cv!Granted /\ Cv!Connecting(k)
  BY DEF Cv!Advance, Cv!Granted, Cv!Connecting
<1>2. s4' = [s4 EXCEPT ![k].pc = pc]
  BY DEF Cv!Advance
<1>3. /\ \A j \in Req : j # k => s4'[j] = s4[j]
      /\ s4'[k] = [s4[k] EXCEPT !.pc = pc]
  BY <1>2, CvStepOf
<1>4. /\ s4'[k] \in Cv!Calls /\ s4'[k].pc = pc /\ s4'[k].page = s4[k].page
      /\ s4'[k].chan = s4[k].chan /\ s4'[k].own = s4[k].own /\ s4'[k].room = s4[k].room
  BY <1>1, <1>3, CvFields
<1>5. s4' \in [Req -> Cv!Calls]
  BY <1>2, <1>4 DEF Cv!TypeOK
<1>6. Cv!TypeOK'
  BY <1>1, <1>3, <1>4, <1>5 DEF Cv!Advance, Cv!TypeOK, Cv!server
<1>7. CvServerOK'
  BY <1>1, <1>3, <1>4, CvTokensKept DEF Cv!Advance, Cv!server, CvKept
<1> QED  BY <1>1, <1>3, <1>4, <1>6, <1>7, CvMakingPanel DEF Cv!Advance, Cv!Connecting

LEMMA CvEnterInv ==
  ASSUME CvSetting, CvInv, NEW k \in Req, Cv!Enter(k)
  PROVE CvInv'
<1> USE DEF CvInv
<1>1. s4[k].pc \in Cv!Granted /\ "live" \in Cv!Granted /\ Cv!Connecting(k)
  BY DEF Cv!Enter, Cv!Granted, Cv!Connecting
<1>2. s4' = [s4 EXCEPT ![k].pc = "live"]
  BY DEF Cv!Enter
<1>3. /\ \A j \in Req : j # k => s4'[j] = s4[j]
      /\ s4'[k] = [s4[k] EXCEPT !.pc = "live"]
  BY <1>2, CvStepOf
<1>4. /\ s4'[k] \in Cv!Calls /\ s4'[k].pc = "live" /\ s4'[k].page = s4[k].page
      /\ s4'[k].chan = s4[k].chan /\ s4'[k].own = s4[k].own /\ s4'[k].room = s4[k].room
      /\ s4[k].page \in User /\ s4[k].own \in BOOLEAN
  BY <1>1, <1>3, CvFields
<1>5. s4' \in [Req -> Cv!Calls] /\ s6' \in [User -> Req \cup {Nobody}]
  BY <1>2, <1>4 DEF Cv!Enter, Cv!TypeOK
<1>6. Cv!TypeOK'
  BY <1>1, <1>3, <1>4, <1>5 DEF Cv!Enter, Cv!TypeOK, Cv!server
<1>7. CvServerOK'
  BY <1>1, <1>3, <1>4, CvTokensKept DEF Cv!Enter, Cv!server, CvKept
<1>8. /\ s4[k].own => s6'[s4[k].page] = k /\ s6[s4[k].page] = Nobody
      /\ \A p \in User : p # s4[k].page \/ ~s4[k].own => s6'[p] = s6[p]
  BY <1>1, <1>4 DEF Cv!Enter, Cv!TypeOK, CvPanelOK, CvOwnOK
<1>9. ASSUME NEW p \in User PROVE CvHeldOK(p)'
  <2>1. CASE p = s4[k].page /\ s4[k].own
    BY <1>4, <1>8, <2>1 DEF CvHeldOK
  <2>2. CASE s6'[p] = s6[p]
    BY <1>1, <1>3, <1>4, <2>2 DEF CvHeldOK, CvPanelOK, Cv!TypeOK, Cv!Connecting, Cv!Asking
  <2> QED  BY <1>8, <2>1, <2>2
<1>10. ASSUME NEW j \in Req PROVE CvOwnOK(j)'
  <2>1. CASE j = k
    BY <1>4, <1>8, <2>1 DEF CvOwnOK, Cv!Connecting, Cv!Asking
  <2>2. CASE j # k /\ s4[j] = Cv!None
    BY <1>3, <2>2 DEF CvOwnOK, Cv!Connecting, Cv!Asking, Cv!None
  <2>3. CASE j # k /\ s4[j] # Cv!None
    <3>1. s4[j].page \in User
      BY <2>3 DEF Cv!TypeOK, Cv!Calls
    <3>2. s4'[j] = s4[j]
      BY <1>3, <2>3
    <3>3. CASE s4[j].page = s4[k].page /\ s4[k].own
      BY <1>1, <1>8, <2>3, <3>2, <3>3 DEF CvOwnOK, CvPanelOK, CvOneMade, Cv!Connecting,
         CvSetting
    <3>4. CASE s6'[s4[j].page] = s6[s4[j].page]
      BY <3>2, <3>4 DEF CvOwnOK, CvPanelOK, Cv!Connecting
    <3> QED  BY <1>8, <3>1, <3>3, <3>4
  <2> QED  BY <2>1, <2>2, <2>3
<1>11. ASSUME NEW i \in Req, NEW j \in Req PROVE CvOneMade(i, j)'
  BY <1>1, <1>3, <1>4 DEF CvPanelOK, CvOneMade, Cv!Connecting, Cv!Asking
<1> QED  BY <1>6, <1>7, <1>9, <1>10, <1>11 DEF CvPanelOK

LEMMA CvFailInv ==
  ASSUME CvSetting, CvInv, NEW k \in Req, Cv!Fail(k)
  PROVE CvInv'
<1> USE DEF CvInv
<1>1. CASE s4' = [s4 EXCEPT ![k] = Cv!None]
  <2>1. s4' \in [Req -> Cv!Calls] /\ s4'[k] = Cv!None /\ \A j \in Req : j # k => s4'[j] = s4[j]
    BY <1>1 DEF Cv!TypeOK, Cv!Calls
  <2>2. Cv!TypeOK' /\ CvServerOK'
    BY <2>1, CvTokensKept DEF Cv!Fail, Cv!TypeOK, Cv!None, Cv!Granted, Cv!server, CvKept
  <2> QED  BY <2>1, <2>2, CvMakingPanel DEF Cv!Fail
<1>2. CASE s4[k].pc = "mic" /\ s4' = [s4 EXCEPT ![k].pc = "deaf"]
  <2>1. s4[k].pc \in Cv!Granted /\ "deaf" \in Cv!Granted
    BY <1>2 DEF Cv!Granted
  <2>2. /\ \A j \in Req : j # k => s4'[j] = s4[j]
        /\ s4'[k] = [s4[k] EXCEPT !.pc = "deaf"]
    BY <1>2, CvStepOf
  <2>3. /\ s4'[k] \in Cv!Calls /\ s4'[k].pc = "deaf"
        /\ s4'[k].chan = s4[k].chan /\ s4'[k].room = s4[k].room
    BY <2>1, <2>2, CvFields
  <2>4. Cv!TypeOK'
    BY <1>2, <2>1, <2>2, <2>3 DEF Cv!Fail, Cv!TypeOK, Cv!server
  <2>5. CvServerOK'
    BY <2>1, <2>2, <2>3, CvTokensKept DEF Cv!Fail, Cv!server, CvKept
  <2> QED  BY <2>2, <2>3, <2>4, <2>5, CvMakingPanel DEF Cv!Fail
<1> QED  BY <1>1, <1>2 DEF Cv!Fail

-----------------------------------------------------------------------------
(* The panel lets go.                                                      *)

\* When the panels of Free let go, each call has ended, was left, or is not their
\* own any more, except those of others.
CvFreed(k, Free) ==
  /\ \/ s4'[k] = s4[k]
     \/ s4'[k].pc \in {"none", "left"}
     \/ ~s4'[k].own
  /\ s4[k] # Cv!None /\ s6[s4[k].page] = k =>
       IF s4[k].page \in Free THEN s4'[k].pc \in {"none", "left"} ELSE s4'[k] = s4[k]

LEMMA CvFreedPanel ==
  ASSUME CvSetting, Cv!TypeOK, CvPanelOK, NEW Free \in SUBSET User,
         s6' = [p \in User |-> IF p \in Free THEN Nobody ELSE s6[p]],
         \A k \in Req : CvFreed(k, Free)
  PROVE CvPanelOK'
<1>1. ASSUME NEW p \in User PROVE CvHeldOK(p)'
  <2>1. CASE p \notin Free /\ s6[p] # Nobody
    <3>1. s6[p] \in Req /\ s4[s6[p]].pc = "live" /\ s4[s6[p]].page = p /\ s4[s6[p]].own
      BY <2>1 DEF CvPanelOK, CvHeldOK, Cv!TypeOK
    <3>2. s4'[s6[p]] = s4[s6[p]]
      BY <2>1, <3>1 DEF Cv!None, CvFreed
    <3> QED  BY <2>1, <3>1, <3>2 DEF CvHeldOK
  <2> QED  BY <2>1 DEF CvHeldOK
<1>2. ASSUME NEW k \in Req PROVE CvOwnOK(k)'
  <2>1. CASE s4'[k].pc \in {"none", "left"} \/ ~s4'[k].own
    BY <2>1 DEF CvOwnOK, Cv!Connecting, Cv!Asking
  <2>2. CASE s4'[k] = s4[k] /\ ~(s4'[k].pc \in {"none", "left"})
    <3>1. s4[k] # Cv!None /\ s4[k].page \in User
      BY <2>2 DEF Cv!TypeOK, Cv!Calls, Cv!None
    <3>2. CASE s4[k].pc = "live" /\ s4[k].own
      BY <2>2, <3>1, <3>2 DEF CvOwnOK, CvPanelOK, Cv!Connecting, Cv!Asking, CvFreed
    <3>3. CASE Cv!Connecting(k) /\ s4[k].own
      BY <2>2, <3>1, <3>3 DEF CvOwnOK, CvPanelOK, Cv!Connecting, Cv!Asking
    <3> QED  BY <2>2, <3>2, <3>3 DEF CvOwnOK, Cv!Connecting
  <2> QED  BY <2>1, <2>2 DEF CvFreed
<1>3. ASSUME NEW i \in Req, NEW j \in Req PROVE CvOneMade(i, j)'
  BY DEF CvPanelOK, CvOneMade, Cv!Connecting, Cv!Asking, CvFreed
<1> QED  BY <1>1, <1>2, <1>3 DEF CvPanelOK

LEMMA CvLeaveInv ==
  ASSUME CvSetting, CvInv, NEW p \in User, Cv!Leave(p)
  PROVE CvInv'
<1> USE DEF CvInv
<1> DEFINE k == s6[p]
<1>1. k \in Req /\ s4[k].pc = "live" /\ s4[k].page = p /\ s4[k].own
  BY DEF Cv!Leave, Cv!TypeOK, CvPanelOK, CvHeldOK
<1>2. /\ s4'[k] = [s4[k] EXCEPT !.pc = "left"]
      /\ \A j \in Req : j # k => s4'[j] = s4[j]
  BY <1>1 DEF Cv!Leave, Cv!Cut, CvSetting
<1>3. /\ s4[k].pc \in Cv!Granted /\ s4'[k] \in Cv!Calls /\ s4'[k].pc = "left"
      /\ s4'[k].chan = s4[k].chan /\ s4'[k].room = s4[k].room
  <2>1. s4[k].pc \in Cv!Granted /\ "left" \in Cv!Granted
    BY <1>1 DEF Cv!Granted
  <2>2. Cv!TypeOK
    OBVIOUS
  <2> QED  BY <1>1, <1>2, <2>1, <2>2, CvFields
<1>4. s4' \in [Req -> Cv!Calls] /\ s6' \in [User -> Req \cup {Nobody}]
  BY <1>2, <1>3 DEF Cv!Leave, Cv!TypeOK
<1>5. ASSUME NEW j \in Req PROVE CvKept(j) /\ CvFreed(j, {p})
  <2>1. CASE j = k
    BY <1>1, <1>2, <1>3, <2>1 DEF CvKept, CvFreed
  <2>2. CASE j # k
    BY <1>2, <2>2 DEF CvKept, CvFreed
  <2> QED  BY <2>1, <2>2
<1>6. Cv!TypeOK'
  <2>1. s2' = s2 /\ \A j \in Req : s4'[j].pc \in Cv!Granted => s4'[j].room <= s2
    BY <1>5 DEF Cv!Leave, Cv!TypeOK, Cv!server, CvKept
  <2> QED  BY <1>4, <2>1 DEF Cv!Leave, Cv!TypeOK, Cv!server
<1>7. CvServerOK'
  BY <1>5, CvTokensKept DEF Cv!Leave, Cv!server
<1>8. s6' = [q \in User |-> IF q \in {p} THEN Nobody ELSE s6[q]]
  BY DEF Cv!Leave, Cv!TypeOK
<1>9. CvPanelOK'
  BY <1>5, <1>8, CvFreedPanel
<1> QED  BY <1>6, <1>7, <1>9

LEMMA CvOrphaned ==
  ASSUME Cv!TypeOK, NEW k \in Req, s4[k] # Cv!None, s4'[k] = [s4[k] EXCEPT !.own = FALSE]
  PROVE s4'[k] \in Cv!Calls /\ s4'[k].pc = s4[k].pc /\ ~s4'[k].own /\ CvKept(k)
<1>1. CASE s4[k] \in [pc : Cv!Granted, page : User, chan : Spot, own : BOOLEAN, room : Cv!Room]
  BY <1>1 DEF Cv!Calls, CvKept
<1>2. CASE s4[k] \in [pc : Cv!Asking, page : User, chan : Spot, own : BOOLEAN]
  BY <1>2 DEF Cv!Calls, Cv!Asking, Cv!Granted, CvKept
<1> QED  BY <1>1, <1>2 DEF Cv!TypeOK, Cv!Calls

LEMMA CvUnmountInv ==
  ASSUME CvSetting, CvInv, NEW p \in User, Cv!Unmount(p)
  PROVE CvInv'
<1> USE DEF CvInv
<1>1. ASSUME NEW k \in Req
      PROVE s4'[k] \in Cv!Calls /\ CvKept(k) /\ CvFreed(k, {p})
  <2>1. CASE k \in Cv!Cut(p) \/ (k \in Cv!Of(p) /\ s4[k].pc = "left")
    <3>1. s4'[k] = Cv!None
      BY <2>1 DEF Cv!Unmount
    <3>2. s4[k] # Cv!None /\ s6[s4[k].page] = k => s4[k].page \in {p}
      BY <2>1 DEF Cv!Cut, Cv!Of, CvPanelOK, CvHeldOK, CvSetting
    <3> QED  BY <3>1, <3>2 DEF Cv!None, Cv!Calls, Cv!Granted, CvKept, CvFreed
  <2>2. CASE ~(k \in Cv!Cut(p) \/ (k \in Cv!Of(p) /\ s4[k].pc = "left")) /\ k \in Cv!Of(p)
    <3>1. k # s6[p] /\ s4[k] # Cv!None /\ s4[k].page = p
      BY <2>2 DEF Cv!Cut, Cv!Of, CvSetting
    <3>2. s4'[k] = [s4[k] EXCEPT !.own = FALSE]
      BY <2>2, <3>1 DEF Cv!Unmount
    <3> QED  BY <3>1, <3>2, CvOrphaned DEF CvFreed
  <2>3. CASE k \notin Cv!Cut(p) /\ k \notin Cv!Of(p)
    <3>1. s4'[k] = s4[k] /\ s4[k] \in Cv!Calls
      BY <2>3 DEF Cv!Unmount, Cv!TypeOK
    <3> QED  BY <2>3, <3>1 DEF Cv!Of, CvKept, CvFreed
  <2> QED  BY <2>1, <2>2, <2>3
<1>2. s4' \in [Req -> Cv!Calls]
  BY <1>1 DEF Cv!Unmount
<1>3. CvServerOK'
  BY <1>1, CvTokensKept DEF Cv!Unmount, Cv!server
<1>4. Cv!TypeOK'
  BY <1>1, <1>2 DEF Cv!Unmount, Cv!TypeOK, Cv!server, CvKept
<1>5. s6' = [q \in User |-> IF q \in {p} THEN Nobody ELSE s6[q]]
  BY DEF Cv!Unmount, Cv!TypeOK
<1>6. CvPanelOK'
  BY <1>1, <1>5, CvFreedPanel
<1> QED  BY <1>3, <1>4, <1>6

LEMMA CvDisconnectedInv ==
  ASSUME CvSetting, CvInv, NEW k \in Req, Cv!Disconnected(k)
  PROVE CvInv'
<1> USE DEF CvInv
<1> DEFINE p == s4[k].page
           cut == IF s4[k].own THEN Cv!Cut(p) \ {k} ELSE {}
           free == IF s4[k].own THEN {p} ELSE {}
<1>1. s4[k].pc \in Cv!Granted /\ s4[k] # Cv!None /\ p \in User /\ s4[k].own \in BOOLEAN
  <2>1. s4[k].pc \in Cv!Granted /\ s4[k].pc # "none"
    BY DEF Cv!Disconnected, Cv!Granted
  <2>2. s4[k] \in [pc : Cv!Granted, page : User, chan : Spot, own : BOOLEAN, room : Cv!Room]
    BY <2>1 DEF Cv!TypeOK, Cv!Calls, Cv!None, Cv!Asking, Cv!Granted
  <2> QED  BY <2>1, <2>2 DEF Cv!None
<1>2. ASSUME NEW j \in Req
      PROVE s4'[j] \in Cv!Calls /\ CvKept(j) /\ CvFreed(j, free)
  <2>1. CASE j = k
    <3>1. s4'[j] = Cv!None
      BY <2>1 DEF Cv!Disconnected
    <3>2. s6[p] = k => s4[k].own
      BY <1>1 DEF CvPanelOK, CvHeldOK, CvSetting
    <3> QED  BY <2>1, <3>1, <3>2 DEF Cv!None, Cv!Calls, Cv!Granted, CvKept, CvFreed
  <2>2. CASE j # k /\ j \in cut
    <3>1. s4[j].pc = "live" /\ s4[j].page = p /\ s4[j].pc \in Cv!Granted /\ s4[k].own
      BY <1>1, <2>2 DEF Cv!Cut, CvPanelOK, CvHeldOK, Cv!TypeOK, Cv!Granted
    <3>2. s4'[j] = [s4[j] EXCEPT !.pc = "left"]
      BY <2>2 DEF Cv!Disconnected
    <3>3. /\ s4'[j] \in Cv!Calls /\ s4'[j].pc = "left"
          /\ s4'[j].chan = s4[j].chan /\ s4'[j].room = s4[j].room
      <4>1. "left" \in Cv!Granted /\ Cv!TypeOK
        BY DEF Cv!Granted
      <4> QED  BY <3>1, <3>2, <4>1, CvFields
    <3> QED  BY <3>1, <3>3 DEF CvKept, CvFreed
  <2>3. CASE j # k /\ j \notin cut
    <3>1. s4'[j] = s4[j] /\ s4[j] \in Cv!Calls
      BY <2>3 DEF Cv!Disconnected, Cv!TypeOK
    <3>2. s4[j] # Cv!None /\ s6[s4[j].page] = j => s4[j].page \notin free
      BY <2>3 DEF Cv!Cut, CvSetting
    <3> QED  BY <3>1, <3>2 DEF CvKept, CvFreed
  <2> QED  BY <2>1, <2>2, <2>3
<1>3. s4' \in [Req -> Cv!Calls]
  BY <1>2 DEF Cv!Disconnected
<1>4. s6' = [q \in User |-> IF q \in free THEN Nobody ELSE s6[q]]
  BY <1>1 DEF Cv!Disconnected, Cv!TypeOK
<1>5. CvServerOK'
  BY <1>2, CvTokensKept DEF Cv!Disconnected, Cv!server
<1>6. Cv!TypeOK'
  <2>1. s2' = s2 /\ \A j \in Req : s4'[j].pc \in Cv!Granted => s4'[j].room <= s2
    BY <1>2 DEF Cv!Disconnected, Cv!TypeOK, Cv!server, CvKept
  <2>2. s6' \in [User -> Req \cup {Nobody}]
    BY <1>4 DEF Cv!TypeOK
  <2> QED  BY <1>3, <2>1, <2>2 DEF Cv!Disconnected, Cv!TypeOK, Cv!server
<1>7. CvPanelOK'
  BY <1>1, <1>2, <1>4, CvFreedPanel
<1> QED  BY <1>5, <1>6, <1>7

LEMMA CvPlainInv ==
  ASSUME CvInv,
         \/ \E c \in Spot : Cv!DeleteChannel(c) \/ \E p \in User : Cv!Show(p, c)
         \/ UNCHANGED Cv!vars
  PROVE CvInv'
<1> USE DEF CvInv, CvServerOK, CvPanelOK, CvTokenOK, Cv!MayReconnect, CvHeldOK, CvOwnOK, CvOneMade, Cv!Connecting
<1>1. ASSUME NEW c \in Spot, Cv!DeleteChannel(c) PROVE CvInv'
  BY <1>1 DEF Cv!DeleteChannel, Cv!TypeOK
<1>2. ASSUME NEW c \in Spot, NEW p \in User, Cv!Show(p, c) PROVE CvInv'
  BY <1>2 DEF Cv!Show, Cv!TypeOK, Cv!server
<1>3. CASE UNCHANGED Cv!vars
  BY <1>3 DEF Cv!vars, Cv!TypeOK, Cv!server
<1> QED  BY <1>1, <1>2, <1>3

LEMMA CvNextInv == ASSUME CvSetting PROVE CvInv /\ [Cv!Next]_(Cv!vars) => CvInv'
  BY CvPlainInv, CvFindInv, CvCreateInv, CvJoinInv, CvAdvanceInv, CvEnterInv, CvFailInv,
     CvLeaveInv,
     CvUnmountInv, CvDisconnectedInv DEF Cv!Next

\* However joins, leavings, switches of the channel and disconnections overlap:
\* whoever is in the room of a channel is in the one it leads to, unless two
\* joined it first at once, and a live microphone is the one its panel holds,
\* unless that was unmounted while it joined.
THEOREM Voices == ASSUME CvSetting PROVE Cv!Spec => [](Cv!TypeOK /\ Cv!Together /\ Cv!MicHeld)
<1>1. Cv!Init => CvInv
  BY CvInitInv
<1>2. CvInv /\ [Cv!Next]_(Cv!vars) => CvInv'
  BY CvNextInv
<1>3. CvInv => Cv!TypeOK /\ Cv!Together /\ Cv!MicHeld
  BY CvInvMeans
<1> QED  BY <1>1, <1>2, <1>3, PTL DEF Cv!Spec

=============================================================================
