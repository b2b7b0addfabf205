---------------------------- MODULE PartyProofs ----------------------------
(***************************************************************************)
(* Theorems about Party, for every set of accounts, parties, invites and   *)
(* request slots.                                                          *)
(***************************************************************************)
EXTENDS Party, FiniteSetTheorems, TLAPS

-----------------------------------------------------------------------------
\* What a request record carries, by the step it is at.
LEMMA Fields ==
  ASSUME NEW q \in Request
  PROVE  /\ q.pc \in {"create.room", "create.row"} => q \in Creating
         /\ q.pc = "invite.all" => q \in Batching
         /\ q.pc = "invite.send" => q \in Inviting
         /\ q.pc = "respond.tx" => q \in Responding
         /\ q.pc \in {"leave.remove", "leave.count", "leave.close", "leave.delete"}
              => q \in Leaving
         /\ q.pc \in {"kick.remove", "transfer.target", "transfer.demote",
                      "transfer.promote", "transfer.owner"} => q \in Leading
         /\ q.pc \in {"settings.update", "voice.update"} => q \in Setup
         /\ q.pc \in {"account.plan", "account.commit", "account.close"} => q \in Closing
  BY DEF Request, Idle, Creating, Batching, Inviting, Responding, Leaving, Leading, Setup, Closing

\* A step that only moves a request on, or only edits its sets, keeps its shape.
LEMMA Successors ==
  /\ \A q \in Leaving, next \in {"leave.count", "leave.close", "leave.delete"} :
       [q EXCEPT !.pc = next] \in Leaving
  /\ \A q \in Leading, next \in {"transfer.demote", "transfer.promote", "transfer.owner"} :
       [q EXCEPT !.pc = next] \in Leading
  /\ \A q \in Inviting, todo, cleared \in SUBSET User, sent \in SUBSET Invite :
       /\ [q EXCEPT !.todo = todo, !.cleared = cleared] \in Inviting
       /\ [q EXCEPT !.cleared = cleared, !.sent = sent] \in Inviting
       /\ [q EXCEPT !.cleared = cleared] \in Inviting
       /\ [q EXCEPT !.sent = sent] \in Inviting
  <1>1. \A q \in Leaving, next \in {"leave.count", "leave.close", "leave.delete"} :
          [q EXCEPT !.pc = next] \in Leaving
    BY DEF Leaving
  <1>2. \A q \in Leading, next \in {"transfer.demote", "transfer.promote", "transfer.owner"} :
          [q EXCEPT !.pc = next] \in Leading
    BY DEF Leading
  <1>3. ASSUME NEW q \in Inviting, NEW todo \in SUBSET User, NEW cleared \in SUBSET User,
               NEW sent \in SUBSET Invite
        PROVE  /\ [q EXCEPT !.todo = todo, !.cleared = cleared] \in Inviting
               /\ [q EXCEPT !.cleared = cleared, !.sent = sent] \in Inviting
               /\ [q EXCEPT !.cleared = cleared] \in Inviting
               /\ [q EXCEPT !.sent = sent] \in Inviting
    BY DEF Inviting
  <1> QED
    BY <1>1, <1>2, <1>3

LEMMA GoTyped ==
  ASSUME NEW r \in Req, NEW next \in Request, req \in [Req -> Request], Go(r, next)
  PROVE  req' \in [Req -> Request]
  BY DEF Go

\* A member's role, or his flags, stay typed when one of them is written.
LEMMA RoleWritten ==
  ASSUME TypeOK, NEW p \in Party, NEW u \in User, NEW x \in Role, WriteRole(p, u, x)
  PROVE  role' \in [Party -> [User -> Role]]
  <1>1. [role[p] EXCEPT ![u] = x] \in [User -> Role]
    BY DEF TypeOK
  <1> QED
    BY <1>1 DEF TypeOK, WriteRole

LEMMA RowRemoved ==
  ASSUME TypeOK, NEW p \in Party, NEW u \in User, RemoveRow(p, u)
  PROVE  role' \in [Party -> [User -> Role]] /\ voice' \in [Party -> [User -> Flag]]
  <1>1. role' \in [Party -> [User -> Role]]
    BY RoleWritten DEF RemoveRow, Role
  <1>2. [voice[p] EXCEPT ![u] = Default] \in [User -> Flag]
    BY DefaultAssumption DEF TypeOK
  <1> QED
    BY <1>1, <1>2 DEF TypeOK, RemoveRow

\* A row that is there has all its columns.
LEMMA LiveRow ==
  ASSUME TypeOK, NEW p \in Live
  PROVE  party[p] \in [status : {"live"}, owner : User, size : Sizes, settings : Setting]
  <1>1. party[p] \in PartyRow /\ party[p].status = "live"
    BY DEF TypeOK, Live
  <1>2. NoParty.status # "live"
    BY DEF NoParty
  <1> QED
    BY <1>1, <1>2 DEF PartyRow

\* Handing a party over changes its owner only.
LEMMA RowHanded ==
  ASSUME TypeOK, NEW p \in Party, NEW heirs
  PROVE  /\ HandedRow(p, heirs) \in PartyRow
         /\ HandedRow(p, heirs).status = party[p].status
         /\ p \in Live => HandedRow(p, heirs).size = party[p].size
  <1> DEFINE heir == CHOOSE w \in User : <<p, w>> \in heirs
  <1>1. party[p] \in PartyRow
    BY DEF TypeOK
  <1>2. CASE ~\E w \in User : <<p, w>> \in heirs
    BY <1>1, <1>2 DEF HandedRow
  <1>3. CASE \E w \in User : <<p, w>> \in heirs
    <2>1. HandedRow(p, heirs) = [party[p] EXCEPT !.owner = heir]
      BY <1>3 DEF HandedRow
    <2>2. heir \in User
      BY <1>3
    <2> HIDE DEF heir
    <2> QED
      BY <1>1, <2>1, <2>2, LiveRow DEF PartyRow, NoParty
  <1> QED
    BY <1>2, <1>3

LEMMA InviteThere ==
  ASSUME TypeOK, NEW i \in Invite, inv[i].status \in Answer
  PROVE  inv[i] \in [status : Answer, party : Party, to : User]
  <1>1. inv[i] \in InviteRow
    BY DEF TypeOK
  <1>2. NoInvite.status \notin Answer /\ GoneInvite.status \notin Answer
    BY DEF NoInvite, GoneInvite, Answer
  <1> QED
    BY <1>1, <1>2 DEF InviteRow

\* Members, flags and invites stay typed when parties are deleted.
LEMMA DeleteTyped ==
  ASSUME TypeOK, NEW gone, DeleteRows(gone)
  PROVE  /\ party' \in [Party -> PartyRow]
         /\ role' \in [Party -> [User -> Role]]
         /\ voice' \in [Party -> [User -> Flag]]
         /\ inv' \in [Invite -> InviteRow]
  BY DefaultAssumption
     DEF TypeOK, DeleteRows, DropInvites, PartyRow, NoParty, InviteRow, GoneInvite, Role

-----------------------------------------------------------------------------
\* Type correctness: every row and every request in flight keeps its shape,
\* however the requests interleave.
THEOREM Typing == Spec => []TypeOK
<1>1. Init => TypeOK
  BY DefaultAssumption
     DEF Init, TypeOK, PartyRow, NoParty, InviteRow, NoInvite, Role, Request, Idle
<1>2. TypeOK /\ [Next]_vars => TypeOK'
  <2> SUFFICES ASSUME TypeOK, [Next]_vars
               PROVE  TypeOK'
    OBVIOUS
  <2>a. Idle \in Request
    BY DEF Request
  <2>b. ASSUME NEW r \in Req, NEW u \in User, Arrive(r, u)
        PROVE  TypeOK'
    <3>1. ASSUME NEW n \in Sizes, CreateCheck(r, u, n)
          PROVE  TypeOK'
      <4>1. [pc |-> "create.room", user |-> u, size |-> n] \in Request
        BY DEF Request, Creating
      <4> QED
        BY <3>1, <4>1, GoTyped DEF TypeOK, CreateCheck
    <3>2. ASSUME NEW p \in Party, NEW v \in User, InviteOne(r, u, p, v)
          PROVE  TypeOK'
      <4>1. [pc |-> "invite.send", user |-> u, party |-> p,
             todo |-> {}, cleared |-> {v}, sent |-> {}] \in Request
        BY DEF Request, Inviting
      <4> QED
        BY <3>2, <4>1, GoTyped DEF TypeOK, InviteOne
    <3>3. ASSUME NEW p \in Party, InviteAll(r, u, p)
          PROVE  TypeOK'
      <4>1. party[p].size - Cardinality(Members(p)) \in Int
        <5>1. party[p].size \in Nat
          BY <3>3, LiveRow, SizesAssumption DEF InviteAll
        <5>2. Cardinality(Members(p)) \in Nat
          BY UserAssumption, FS_Subset, FS_CardinalityType DEF Members
        <5> QED
          BY <5>1, <5>2
      <4>2. [pc |-> "invite.all", user |-> u, party |-> p, known |-> Members(p),
             space |-> party[p].size - Cardinality(Members(p))] \in Request
        BY <4>1 DEF Request, Batching, Members
      <4> QED
        BY <3>3, <4>2, GoTyped DEF TypeOK, InviteAll
    <3>4. ASSUME NEW i \in Invite, NEW accept \in BOOLEAN, RespondCheck(r, u, i, accept)
          PROVE  TypeOK'
      <4>1. inv[i].party \in Party
        BY <3>4, InviteThere DEF RespondCheck, Answer
      <4>2. [pc |-> "respond.tx", user |-> u, party |-> inv[i].party,
             invite |-> i, accept |-> accept] \in Request
        BY <4>1 DEF Request, Responding
      <4> QED
        BY <3>4, <4>2, GoTyped DEF TypeOK, RespondCheck
    <3>5. ASSUME NEW p \in Party, LeaveCheck(r, u, p)
          PROVE  TypeOK'
      <4>1. [pc |-> IF u \in Leaders(p) THEN "leave.close" ELSE "leave.remove",
             user |-> u, party |-> p] \in Request
        BY DEF Request, Leaving
      <4> QED
        BY <3>5, <4>1, GoTyped DEF TypeOK, LeaveCheck
    <3>6. ASSUME NEW p \in Party, NEW v \in User, KickCheck(r, u, p, v)
          PROVE  TypeOK'
      <4>1. [pc |-> "kick.remove", user |-> u, party |-> p, target |-> v] \in Request
        BY DEF Request, Leading
      <4> QED
        BY <3>6, <4>1, GoTyped DEF TypeOK, KickCheck, LeaderCheck
    <3>7. ASSUME NEW p \in Party, NEW v \in User, TransferCheck(r, u, p, v)
          PROVE  TypeOK'
      <4>1. [pc |-> "transfer.target", user |-> u, party |-> p, target |-> v] \in Request
        BY DEF Request, Leading
      <4> QED
        BY <3>7, <4>1, GoTyped DEF TypeOK, TransferCheck, LeaderCheck
    <3>8. ASSUME NEW p \in Party, NEW x \in Setting, SettingsCheck(r, u, p, x)
          PROVE  TypeOK'
      <4>1. [pc |-> "settings.update", user |-> u, party |-> p, value |-> x] \in Request
        BY DEF Request, Setup
      <4> QED
        BY <3>8, <4>1, GoTyped DEF TypeOK, SettingsCheck, LeaderCheck
    <3>9. ASSUME NEW p \in Party, NEW x \in Flag, VoiceCheck(r, u, p, x)
          PROVE  TypeOK'
      <4>1. [pc |-> "voice.update", user |-> u, party |-> p, value |-> x] \in Request
        BY DEF Request, Setup
      <4> QED
        BY <3>9, <4>1, GoTyped DEF TypeOK, VoiceCheck
    <3>10. CASE AccountCheck(r, u)
      <4>1. [pc |-> "account.plan", user |-> u] \in Request
        BY DEF Request, Closing
      <4> QED
        BY <3>10, <4>1, GoTyped DEF TypeOK, AccountCheck
    <3> QED
      BY <2>b, <3>1, <3>2, <3>3, <3>4, <3>5, <3>6, <3>7, <3>8, <3>9, <3>10 DEF Arrive
  <2>c. ASSUME NEW r \in Req, Proceed(r)
        PROVE  TypeOK'
    <3>0. req[r] \in Request
      BY DEF TypeOK
    <3>1. ASSUME NEW p \in Party, CreateRoom(r, p)
          PROVE  TypeOK'
      <4>1. req[r] \in Creating
        BY <3>0, <3>1, Fields DEF CreateRoom
      <4>2. [pc |-> "create.row", user |-> req[r].user, size |-> req[r].size, party |-> p]
              \in Request
        BY <4>1 DEF Request, Creating
      <4> QED
        BY <3>1, <4>2, GoTyped DEF TypeOK, CreateRoom
    <3>2. CASE CreateRow(r)
      <4>1. /\ req[r].user \in User
            /\ req[r].size \in Sizes
            /\ req[r].party \in Party
        BY <3>0, <3>2, Fields DEF CreateRow, Creating
      <4>2. [status |-> "live", owner |-> req[r].user, size |-> req[r].size,
             settings |-> Default] \in PartyRow
        BY <4>1, DefaultAssumption DEF PartyRow
      <4>3. party' \in [Party -> PartyRow]
        BY <3>2, <4>1, <4>2 DEF CreateRow, TypeOK
      <4>4. role' \in [Party -> [User -> Role]]
        BY <3>2, <4>1, RoleWritten DEF CreateRow, Role
      <4> QED
        BY <2>a, <3>2, <4>3, <4>4, GoTyped DEF TypeOK, CreateRow, Done
    <3>3. ASSUME NEW friends \in SUBSET User, InviteTargets(r, friends)
          PROVE  TypeOK'
      <4>1. req[r].user \in User /\ req[r].party \in Party
        BY <3>0, <3>3, Fields DEF InviteTargets, Batching
      <4>2. [pc |-> "invite.send", user |-> req[r].user, party |-> req[r].party,
             todo |-> friends, cleared |-> {}, sent |-> {}] \in Request
        BY <4>1 DEF Request, Inviting
      <4> QED
        BY <3>3, <4>2, GoTyped DEF TypeOK, InviteTargets
    <3>4. CASE InviteNobody(r)
      BY <2>a, <3>4, GoTyped DEF TypeOK, InviteNobody, Done
    <3>5. ASSUME NEW v \in User, InviteCheck(r, v)
          PROVE  TypeOK'
      <4>1. req[r] \in Inviting
        BY <3>0, <3>5, Fields DEF InviteCheck
      <4> DEFINE cleared == IF MayInvite(req[r].user, req[r].party, v)
                              THEN req[r].cleared \cup {v} ELSE req[r].cleared
                 next == [req[r] EXCEPT !.todo = req[r].todo \ {v}, !.cleared = cleared]
      <4>2. req[r].todo \ {v} \in SUBSET User /\ cleared \in SUBSET User
        BY <4>1 DEF Inviting
      <4>3. next \in Request
        BY <4>1, <4>2, Successors DEF Request
      <4>4. Go(r, next)
        BY <3>5 DEF InviteCheck
      <4> HIDE DEF next
      <4> QED
        BY <3>5, <4>3, <4>4, GoTyped DEF TypeOK, InviteCheck
    <3>6. ASSUME NEW v \in User, NEW i \in Invite, InviteInsert(r, v, i)
          PROVE  TypeOK'
      <4>1. req[r] \in Inviting
        BY <3>0, <3>6, Fields DEF InviteInsert
      <4>2. /\ req[r].party \in Party
            /\ req[r].cleared \ {v} \in SUBSET User
            /\ req[r].sent \cup {i} \in SUBSET Invite
        BY <4>1 DEF Inviting
      <4>3. /\ [req[r] EXCEPT !.cleared = req[r].cleared \ {v},
                              !.sent = req[r].sent \cup {i}] \in Request
            /\ [req[r] EXCEPT !.cleared = req[r].cleared \ {v}] \in Request
        BY <4>1, <4>2, Successors DEF Request
      <4>4. req' \in [Req -> Request]
        BY <3>6, <4>3, GoTyped DEF InviteInsert, TypeOK
      <4>5. [status |-> "pending", party |-> req[r].party, to |-> v] \in InviteRow
        BY <4>2 DEF InviteRow, Answer
      <4>6. inv' \in [Invite -> InviteRow]
        BY <3>6, <4>5 DEF InviteInsert, TypeOK
      <4> QED
        BY <3>6, <4>4, <4>6 DEF TypeOK, InviteInsert
    <3>7. ASSUME NEW i \in Invite, InviteNotify(r, i)
          PROVE  TypeOK'
      <4>1. req[r] \in Inviting
        BY <3>0, <3>7, Fields DEF InviteNotify
      <4>2. req[r].sent \ {i} \in SUBSET Invite
        BY <4>1 DEF Inviting
      <4>3. [req[r] EXCEPT !.sent = req[r].sent \ {i}] \in Request
        BY <4>1, <4>2, Successors DEF Request
      <4> QED
        BY <3>7, <4>3, GoTyped DEF TypeOK, InviteNotify
    <3>8. CASE InviteDone(r)
      BY <2>a, <3>8, GoTyped DEF TypeOK, InviteDone, Done
    <3>9. CASE RespondTx(r)
      <4>1. /\ req[r].party \in Party
            /\ req[r].user \in User
            /\ req[r].invite \in Invite
        BY <3>0, <3>9, Fields DEF RespondTx, Responding
      <4>2. role' \in [Party -> [User -> Role]]
        BY <3>9, <4>1, RoleWritten DEF RespondTx, TypeOK, Role
      <4>3. \A i \in Invite, a \in Answer : inv[i].status = "pending" =>
              [inv[i] EXCEPT !.status = a] \in InviteRow
        BY InviteThere DEF Answer, InviteRow
      <4>4. inv' \in [Invite -> InviteRow]
        BY <3>9, <4>1, <4>3 DEF RespondTx, TypeOK, Answer
      <4> QED
        BY <2>a, <3>9, <4>2, <4>4, GoTyped DEF TypeOK, RespondTx, Done
    <3>10. ASSUME LeaveRemove(r) \/ LeaveCount(r) \/ LeaveClose(r) \/ LeaveDelete(r)
           PROVE  TypeOK'
      <4>1. req[r] \in Leaving /\ req[r].party \in Party /\ req[r].user \in User
        BY <3>0, <3>10, Fields
           DEF LeaveRemove, LeaveCount, LeaveClose, LeaveDelete, Leaving
      <4>2. \A next \in {"leave.count", "leave.close", "leave.delete"} :
              [req[r] EXCEPT !.pc = next] \in Request
        BY <4>1, Successors DEF Request
      <4>3. req' \in [Req -> Request]
        BY <2>a, <3>10, <4>2, GoTyped
           DEF LeaveRemove, LeaveCount, LeaveClose, LeaveDelete, Done, TypeOK
      <4>4. CASE LeaveRemove(r)
        BY <4>1, <4>3, <4>4, RowRemoved DEF LeaveRemove, TypeOK
      <4>5. CASE LeaveCount(r)
        BY <4>3, <4>5 DEF LeaveCount, TypeOK
      <4>6. CASE LeaveClose(r)
        BY <4>1, <4>3, <4>6 DEF LeaveClose, TypeOK
      <4>7. CASE LeaveDelete(r)
        BY <4>3, <4>7, DeleteTyped DEF LeaveDelete, TypeOK
      <4> QED
        BY <3>10, <4>4, <4>5, <4>6, <4>7
    <3>11. CASE KickRemove(r)
      <4>1. req[r].party \in Party /\ req[r].target \in User
        BY <3>0, <3>11, Fields DEF KickRemove, Leading
      <4>2. role' \in [Party -> [User -> Role]] /\ voice' \in [Party -> [User -> Flag]]
        BY <3>11, <4>1, RowRemoved DEF KickRemove, TypeOK
      <4> QED
        BY <2>a, <3>11, <4>2, GoTyped DEF KickRemove, TypeOK, Done
    <3>12. ASSUME \/ TransferTarget(r) \/ TransferDemote(r)
                  \/ TransferPromote(r) \/ TransferOwner(r)
           PROVE  TypeOK'
      <4>1. /\ req[r] \in Leading /\ req[r].party \in Party
            /\ req[r].user \in User /\ req[r].target \in User
        BY <3>0, <3>12, Fields
           DEF TransferTarget, TransferDemote, TransferPromote, TransferOwner, Leading
      <4>2. \A next \in {"transfer.demote", "transfer.promote", "transfer.owner"} :
              [req[r] EXCEPT !.pc = next] \in Request
        BY <4>1, Successors DEF Request
      <4>3. req' \in [Req -> Request]
        BY <2>a, <3>12, <4>2, GoTyped
           DEF TransferTarget, TransferDemote, TransferPromote, TransferOwner,
               SetMemberRole, Done, TypeOK
      <4>4. CASE TransferTarget(r)
        BY <4>3, <4>4 DEF TransferTarget, TypeOK
      <4>5. CASE TransferDemote(r)
        BY <4>1, <4>3, <4>5, RoleWritten DEF TransferDemote, SetMemberRole, TypeOK, Role
      <4>6. CASE TransferPromote(r)
        BY <4>1, <4>3, <4>6, RoleWritten DEF TransferPromote, SetMemberRole, TypeOK, Role
      <4>7. CASE TransferOwner(r)
        <5>1. \A p \in Live, u \in User : [party[p] EXCEPT !.owner = u] \in PartyRow
          BY LiveRow DEF PartyRow
        <5>2. party' \in [Party -> PartyRow]
          <6> DEFINE p == req[r].party
                     row == [party[p] EXCEPT !.owner = req[r].target]
          <6>1. CASE p \in Live
            <7>1. p \in Party /\ row \in PartyRow
              BY <4>1, <5>1, <6>1
            <7>2. party' = [party EXCEPT ![p] = row]
              BY <4>7, <6>1 DEF TransferOwner
            <7>3. party \in [Party -> PartyRow]
              BY DEF TypeOK
            <7> HIDE DEF p, row
            <7> QED
              BY <7>1, <7>2, <7>3
          <6>2. CASE p \notin Live
            BY <4>7, <6>2 DEF TransferOwner, TypeOK
          <6> QED
            BY <6>1, <6>2
        <5> QED
          BY <4>3, <4>7, <5>2 DEF TransferOwner, TypeOK
      <4> QED
        BY <3>12, <4>4, <4>5, <4>6, <4>7
    <3>13. CASE SettingsUpdate(r)
      <4>1. req[r].party \in Party /\ req[r].value \in Setting
        BY <3>0, <3>13, Fields DEF SettingsUpdate, Setup
      <4>2. \A p \in Live, x \in Setting : [party[p] EXCEPT !.settings = x] \in PartyRow
        BY LiveRow DEF PartyRow
      <4>3. party' \in [Party -> PartyRow]
        BY <3>13, <4>1, <4>2 DEF SettingsUpdate, TypeOK
      <4> QED
        BY <2>a, <3>13, <4>3, GoTyped DEF SettingsUpdate, TypeOK, Done
    <3>14. CASE VoiceUpdate(r)
      <4>1. req[r].party \in Party /\ req[r].user \in User /\ req[r].value \in Flag
        BY <3>0, <3>14, Fields DEF VoiceUpdate, Setup
      <4>2. voice' \in [Party -> [User -> Flag]]
        <5>1. [voice[req[r].party] EXCEPT ![req[r].user] = req[r].value] \in [User -> Flag]
          BY <4>1 DEF TypeOK
        <5> QED
          BY <3>14, <4>1, <5>1 DEF VoiceUpdate, TypeOK
      <4> QED
        BY <2>a, <3>14, <4>2, GoTyped DEF VoiceUpdate, TypeOK, Done
    <3>15. ASSUME NEW heir \in [Party -> User], AccountPlan(r, heir)
           PROVE  TypeOK'
      <4>1. req[r].user \in User
        BY <3>0, <3>15, Fields DEF AccountPlan, Closing
      <4> DEFINE kept == {p \in OwnedBy(req[r].user) : Members(p) \ {req[r].user} # {}}
                 heirs == {<<p, heir[p]>> : p \in kept}
                 doomed == OwnedBy(req[r].user) \ kept
      <4>2. heirs \in SUBSET (Party \X User) /\ doomed \in SUBSET Party
        BY DEF OwnedBy, Live
      <4>3. Go(r, [pc |-> "account.commit", user |-> req[r].user,
                   heirs |-> heirs, doomed |-> doomed])
        BY <3>15 DEF AccountPlan
      <4> HIDE DEF heirs, doomed
      <4>4. [pc |-> "account.commit", user |-> req[r].user,
             heirs |-> heirs, doomed |-> doomed] \in Request
        BY <4>1, <4>2 DEF Request, Closing
      <4> QED
        BY <3>15, <4>3, <4>4, GoTyped DEF AccountPlan, TypeOK
    <3>16. CASE AccountCommit(r)
      <4> DEFINE u == req[r].user
                 heirs == req[r].heirs
                 doomed == req[r].doomed
      <4>1. u \in User /\ heirs \in SUBSET (Party \X User) /\ doomed \in SUBSET Party
        BY <3>0, <3>16, Fields DEF AccountCommit, Closing
      <4>2. CASE ~CanCommit(u, heirs, doomed)
        BY <2>a, <3>16, <4>2, GoTyped DEF AccountCommit, TypeOK, Done
      <4>3. CASE CanCommit(u, heirs, doomed)
        <5>1. [pc |-> "account.close", user |-> u, doomed |-> doomed] \in Request
          BY <4>1 DEF Request, Closing
        <5>2. Go(r, [pc |-> "account.close", user |-> u, doomed |-> doomed])
          BY <3>16, <4>3 DEF AccountCommit
        <5>3. req' \in [Req -> Request]
          BY <5>1, <5>2, GoTyped DEF TypeOK
        <5>4. role' \in [Party -> [User -> Role]] /\ voice' \in [Party -> [User -> Flag]]
          <6>1. HandedRole(u, heirs) \in [Party -> [User -> Role]]
            BY DEF HandedRole, TypeOK, Role
          <6>2. /\ role' = [p \in Party |-> IF p \in doomed THEN [v \in User |-> "none"]
                                             ELSE HandedRole(u, heirs)[p]]
                /\ voice' = [p \in Party |-> IF p \in doomed THEN [v \in User |-> Default]
                                              ELSE voice[p]]
            BY <3>16, <4>3 DEF AccountCommit
          <6> HIDE DEF u, heirs, doomed
          <6>3. [v \in User |-> "none"] \in [User -> Role]
            BY DEF Role
          <6>4. [v \in User |-> Default] \in [User -> Flag]
            BY DefaultAssumption
          <6> QED
            BY <6>1, <6>2, <6>3, <6>4 DEF TypeOK
        <5>5. inv' \in [Invite -> InviteRow]
          BY <3>16, <4>3 DEF AccountCommit, DropInvites, TypeOK, InviteRow, GoneInvite
        <5>6. party' \in [Party -> PartyRow]
          <6>1. party' = [p \in Party |-> IF p \in doomed THEN NoParty ELSE HandedRow(p, heirs)]
            BY <3>16, <4>3 DEF AccountCommit
          <6>2. \A p \in Party : HandedRow(p, heirs) \in PartyRow
            BY RowHanded
          <6>3. NoParty \in PartyRow
            BY DEF PartyRow
          <6> HIDE DEF heirs, doomed
          <6> QED
            BY <6>1, <6>2, <6>3
        <5> QED
          BY <3>16, <4>1, <4>3, <5>3, <5>4, <5>5, <5>6 DEF AccountCommit, TypeOK
      <4> QED
        BY <4>2, <4>3
    <3>17. CASE AccountClose(r)
      BY <2>a, <3>17, GoTyped DEF AccountClose, TypeOK, Done
    <3> QED
      BY <2>c, <3>1, <3>2, <3>3, <3>4, <3>5, <3>6, <3>7, <3>8, <3>9, <3>10, <3>11, <3>12,
         <3>13, <3>14, <3>15, <3>16, <3>17 DEF Proceed
  <2> QED
    BY <2>b, <2>c DEF Next, vars, TypeOK
<1> QED
  BY <1>1, <1>2, PTL DEF Spec

-----------------------------------------------------------------------------
(* What a step may do to the tables, whichever action it is.               *)

\* The actions that write party, role or inv.
LEMMA Writers ==
  ASSUME [Next]_vars
  PROVE  \/ UNCHANGED <<party, role, inv>>
         \/ \E r \in Req : \/ CreateRow(r) \/ RespondTx(r)
                           \/ \E v \in User, i \in Invite : InviteInsert(r, v, i)
                           \/ LeaveRemove(r) \/ LeaveDelete(r) \/ KickRemove(r)
                           \/ TransferDemote(r) \/ TransferPromote(r) \/ TransferOwner(r)
                           \/ SettingsUpdate(r) \/ AccountCommit(r)
  <1>1. ASSUME NEW r \in Req, NEW u \in User, Arrive(r, u)
        PROVE  UNCHANGED <<party, role, inv>>
    BY <1>1 DEF Arrive, CreateCheck, InviteOne, InviteAll, RespondCheck, LeaveCheck, KickCheck,
                TransferCheck, SettingsCheck, LeaderCheck, VoiceCheck, AccountCheck
  <1>2. ASSUME NEW r \in Req, Proceed(r)
        PROVE  \/ UNCHANGED <<party, role, inv>>
               \/ CreateRow(r) \/ RespondTx(r)
               \/ \E v \in User, i \in Invite : InviteInsert(r, v, i)
               \/ LeaveRemove(r) \/ LeaveDelete(r) \/ KickRemove(r)
               \/ TransferDemote(r) \/ TransferPromote(r) \/ TransferOwner(r)
               \/ SettingsUpdate(r) \/ AccountCommit(r)
    BY <1>2 DEF Proceed, CreateRoom, InviteTargets, InviteNobody, InviteCheck, InviteNotify,
                InviteDone, LeaveCount, LeaveClose, TransferTarget, VoiceUpdate, AccountPlan,
                AccountClose
  <1> QED
    BY <1>1, <1>2 DEF Next, vars

LEMMA RoleCell ==
  ASSUME TypeOK, NEW a \in Party, NEW b \in User, NEW x, WriteRole(a, b, x),
         NEW p \in Party, NEW u \in User
  PROVE  role'[p][u] = IF p = a /\ u = b THEN x ELSE role[p][u]
  BY DEF TypeOK, WriteRole

\* A party appears by CreateRow only; one that disappears takes its members
\* and its invites along; one that stays keeps its size.
PartyStep(p) ==
  /\ p \in Live' /\ p \notin Live => \E r \in Req : CreateRow(r) /\ req[r].party = p
  /\ p \in Live /\ p \notin Live'
       => /\ Members(p)' = {}
          /\ \A i \in Invite : inv'[i].status \in Answer => inv'[i].party # p
  /\ p \in Live /\ p \in Live'
       => \/ party'[p].size = party[p].size
          \/ \E r \in Req : CreateRow(r) /\ req[r].party = p

LEMMA PartySteps ==
  ASSUME TypeOK, [Next]_vars, NEW p \in Party
  PROVE  PartyStep(p)
  <1>1. CASE UNCHANGED party
    BY <1>1 DEF PartyStep, Live
  <1>2. ASSUME NEW r \in Req, CreateRow(r)
        PROVE  PartyStep(p)
    <2>1. req[r].party # p => party'[p] = party[p]
      BY <1>2 DEF CreateRow, TypeOK
    <2>2. req[r].party = p => p \in Live'
      BY <1>2 DEF CreateRow, TypeOK, Live
    <2> QED
      BY <1>2, <2>1, <2>2 DEF PartyStep, Live
  <1>3. ASSUME NEW r \in Req, TransferOwner(r) \/ SettingsUpdate(r)
        PROVE  PartyStep(p)
    <2>1. p \in Live => party[p] \in
            [status : {"live"}, owner : User, size : Sizes, settings : Setting]
      BY LiveRow
    <2>2. CASE req[r].party # p
      BY <1>1, <1>3, <2>2 DEF TransferOwner, SettingsUpdate, TypeOK, PartyStep, Live
    <2>3. CASE req[r].party = p
      <3>1. party'[p].status = party[p].status
        BY <1>3, <2>1, <2>3 DEF TransferOwner, SettingsUpdate, TypeOK, Live
      <3>2. p \in Live => party'[p].size = party[p].size
        BY <1>3, <2>1, <2>3 DEF TransferOwner, SettingsUpdate, TypeOK, Live
      <3> QED
        BY <3>1, <3>2 DEF PartyStep, Live
    <2> QED
      BY <1>3, <2>2, <2>3
  <1>4. ASSUME NEW r \in Req, LeaveDelete(r)
        PROVE  PartyStep(p)
    <2>1. p # req[r].party => party'[p] = party[p]
      BY <1>4 DEF LeaveDelete, DeleteRows, TypeOK
    <2>2. p = req[r].party => /\ p \notin Live'
                              /\ Members(p)' = {}
                              /\ \A i \in Invite :
                                   inv'[i].status \in Answer => inv'[i].party # p
      BY <1>4 DEF LeaveDelete, DeleteRows, DropInvites, Live, NoParty, Members, GoneInvite,
                  Answer
    <2> QED
      BY <2>1, <2>2 DEF PartyStep, Live
  <1>5. ASSUME NEW r \in Req, AccountCommit(r)
        PROVE  PartyStep(p)
    <2> DEFINE u == req[r].user
               heirs == req[r].heirs
               doomed == req[r].doomed
    <2>1. CASE ~CanCommit(u, heirs, doomed)
      BY <1>1, <1>5, <2>1 DEF AccountCommit
    <2>2. CASE CanCommit(u, heirs, doomed) /\ p \in doomed
      <3>1. p \notin Live'
        BY <1>5, <2>2 DEF AccountCommit, Live, NoParty
      <3>2. Members(p)' = {}
        BY <1>5, <2>2 DEF AccountCommit, Members
      <3>3. \A i \in Invite : inv'[i].status \in Answer => inv'[i].party # p
        BY <1>5, <2>2 DEF AccountCommit, DropInvites, GoneInvite, Answer
      <3> QED
        BY <3>1, <3>2, <3>3 DEF PartyStep
    <2>3. CASE CanCommit(u, heirs, doomed) /\ p \notin doomed
      <3>1. party'[p] = HandedRow(p, heirs)
        BY <1>5, <2>3 DEF AccountCommit
      <3> QED
        BY <3>1, RowHanded DEF PartyStep, Live
    <2> QED
      BY <2>1, <2>2, <2>3
  <1>6. ASSUME NEW r \in Req,
               \/ RespondTx(r) \/ \E v \in User, i \in Invite : InviteInsert(r, v, i)
               \/ LeaveRemove(r) \/ KickRemove(r) \/ TransferDemote(r) \/ TransferPromote(r)
        PROVE  UNCHANGED party
    BY <1>6 DEF RespondTx, InviteInsert, LeaveRemove, KickRemove, TransferDemote,
                TransferPromote, SetMemberRole
  <1> QED
    BY Writers, <1>1, <1>2, <1>3, <1>4, <1>5, <1>6

\* Somebody new is a member by CreateRow, as the creator, or by the acceptance
\* of a pending invite.
Creates(r, p, u) == CreateRow(r) /\ req[r].party = p /\ req[r].user = u
Accepts(r, p, u) == /\ RespondTx(r)
                    /\ req[r].accept /\ inv[req[r].invite].status = "pending"
                    /\ req[r].party = p /\ req[r].user = u
RoleStep(p, u) == u \in Members(p)' /\ u \notin Members(p) =>
  \E r \in Req : Creates(r, p, u) \/ Accepts(r, p, u)

LEMMA RoleSteps ==
  ASSUME TypeOK, [Next]_vars, NEW p \in Party, NEW u \in User
  PROVE  RoleStep(p, u)
  <1>1. CASE UNCHANGED role
    BY <1>1 DEF RoleStep, Members
  <1>2. ASSUME NEW r \in Req, CreateRow(r)
        PROVE  RoleStep(p, u)
    <2>1. req[r].party \in Party /\ req[r].user \in User
      BY <1>2, Fields DEF CreateRow, Creating, TypeOK
    <2>2. WriteRole(req[r].party, req[r].user, "LEADER")
      BY <1>2 DEF CreateRow
    <2> QED
      BY <1>2, <2>1, <2>2, RoleCell DEF RoleStep, Creates, Members
  <1>3. ASSUME NEW r \in Req, RespondTx(r)
        PROVE  RoleStep(p, u)
    <2>1. req[r].party \in Party /\ req[r].user \in User
      BY <1>3, Fields DEF RespondTx, Responding, TypeOK
    <2>2. \/ UNCHANGED role
          \/ /\ req[r].accept /\ inv[req[r].invite].status = "pending"
             /\ WriteRole(req[r].party, req[r].user, "MEMBER")
      BY <1>3 DEF RespondTx
    <2> QED
      BY <1>1, <1>3, <2>1, <2>2, RoleCell DEF RoleStep, Accepts, Members
  <1>4. ASSUME NEW r \in Req, LeaveRemove(r) \/ KickRemove(r)
        PROVE  RoleStep(p, u)
    <2>1. /\ req[r].party \in Party
          /\ LeaveRemove(r) => req[r].user \in User
          /\ KickRemove(r) => req[r].target \in User
      BY <1>4, Fields DEF LeaveRemove, KickRemove, Leaving, Leading, TypeOK
    <2>2. UNCHANGED role \/ \E v \in User : WriteRole(req[r].party, v, "none")
      BY <1>4, <2>1 DEF LeaveRemove, KickRemove, RemoveRow
    <2> QED
      BY <1>1, <2>1, <2>2, RoleCell DEF RoleStep, Members
  <1>5. ASSUME NEW r \in Req, TransferDemote(r) \/ TransferPromote(r)
        PROVE  RoleStep(p, u)
    <2>1. req[r].party \in Party
      BY <1>5, Fields DEF TransferDemote, TransferPromote, Leading, TypeOK
    <2>2. UNCHANGED role \/ \E v \in Members(req[r].party), x \in Role :
                              WriteRole(req[r].party, v, x)
      BY <1>5 DEF TransferDemote, TransferPromote, SetMemberRole, Role
    <2> QED
      BY <1>1, <2>1, <2>2, RoleCell DEF RoleStep, Members
  <1>6. ASSUME NEW r \in Req, LeaveDelete(r)
        PROVE  RoleStep(p, u)
    BY <1>6 DEF LeaveDelete, DeleteRows, RoleStep, Members
  <1>7. ASSUME NEW r \in Req, AccountCommit(r)
        PROVE  RoleStep(p, u)
    <2> DEFINE w == req[r].user
               heirs == req[r].heirs
               doomed == req[r].doomed
    <2>1. CASE ~CanCommit(w, heirs, doomed)
      BY <1>1, <1>7, <2>1 DEF AccountCommit
    <2>2. CASE CanCommit(w, heirs, doomed)
      <3>1. role'[p][u] = IF p \in doomed THEN "none" ELSE HandedRole(w, heirs)[p][u]
        BY <1>7, <2>2 DEF AccountCommit
      <3>2. HandedRole(w, heirs)[p][u] # "none" => u \in Members(p)
        BY <2>2 DEF HandedRole, CanCommit, Members
      <3> QED
        BY <3>1, <3>2 DEF RoleStep, Members
    <2> QED
      BY <2>1, <2>2
  <1>8. ASSUME NEW r \in Req, \/ \E v \in User, i \in Invite : InviteInsert(r, v, i)
                              \/ TransferOwner(r) \/ SettingsUpdate(r)
        PROVE  UNCHANGED role
    BY <1>8 DEF InviteInsert, TransferOwner, SettingsUpdate
  <1> QED
    BY Writers, <1>1, <1>2, <1>3, <1>4, <1>5, <1>6, <1>7, <1>8

\* An invite is inserted for a live party, answered once by RespondTx, and
\* deleted with its party.
Answers(r, i) ==
  /\ RespondTx(r) /\ req[r].invite = i /\ inv[i].status = "pending"
  /\ inv'[i] = [inv[i] EXCEPT !.status = IF req[r].accept THEN "accepted" ELSE "declined"]
  /\ req[r].accept => WriteRole(req[r].party, req[r].user, "MEMBER")
                      /\ req[r].user \notin Members(req[r].party)
InviteStep(i) ==
  \/ inv'[i] = inv[i]
  \/ inv[i] = NoInvite /\ inv'[i].status = "pending" /\ inv'[i].party \in Live /\ UNCHANGED party
  \/ inv[i].status \in Answer /\ inv'[i] = GoneInvite
  \/ \E r \in Req : Answers(r, i)

LEMMA InviteSteps ==
  ASSUME TypeOK, [Next]_vars, NEW i \in Invite
  PROVE  InviteStep(i)
  <1>1. CASE UNCHANGED inv
    BY <1>1 DEF InviteStep
  <1>2. ASSUME NEW r \in Req, NEW v \in User, NEW j \in Invite, InviteInsert(r, v, j)
        PROVE  InviteStep(i)
    <2>1. CASE i = j
      BY <1>2, <2>1 DEF InviteInsert, InviteStep, TypeOK
    <2>2. CASE i # j
      BY <1>2, <2>2 DEF InviteInsert, InviteStep, TypeOK
    <2> QED
      BY <2>1, <2>2
  <1>3. ASSUME NEW r \in Req, RespondTx(r)
        PROVE  InviteStep(i)
    <2>1. CASE UNCHANGED inv
      BY <1>1, <2>1
    <2>2. CASE inv' # inv
      <3>1. /\ inv[req[r].invite].status = "pending"
            /\ inv' = [inv EXCEPT ![req[r].invite].status =
                           IF req[r].accept THEN "accepted" ELSE "declined"]
            /\ req[r].accept => WriteRole(req[r].party, req[r].user, "MEMBER")
                                /\ req[r].user \notin Members(req[r].party)
        BY <1>3, <2>2 DEF RespondTx
      <3>2. CASE req[r].invite = i
        BY <1>3, <3>1, <3>2 DEF InviteStep, Answers, TypeOK
      <3>3. CASE req[r].invite # i
        BY <3>1, <3>3 DEF InviteStep, TypeOK
      <3> QED
        BY <3>2, <3>3
    <2> QED
      BY <2>1, <2>2
  <1>4. ASSUME NEW r \in Req, LeaveDelete(r) \/ AccountCommit(r)
        PROVE  InviteStep(i)
    <2>1. UNCHANGED inv \/ \E gone : DropInvites(gone)
      BY <1>4 DEF LeaveDelete, DeleteRows, AccountCommit
    <2>2. ASSUME NEW gone, DropInvites(gone)
          PROVE  InviteStep(i)
      BY <2>2 DEF DropInvites, InviteStep
    <2> QED
      BY <1>1, <2>1, <2>2
  <1>5. ASSUME NEW r \in Req, \/ CreateRow(r) \/ LeaveRemove(r) \/ KickRemove(r)
                              \/ TransferDemote(r) \/ TransferPromote(r) \/ TransferOwner(r)
                              \/ SettingsUpdate(r)
        PROVE  UNCHANGED inv
    BY <1>5 DEF CreateRow, LeaveRemove, KickRemove, TransferDemote, TransferPromote,
                SetMemberRole, TransferOwner, SettingsUpdate
  <1> QED
    BY Writers, <1>1, <1>2, <1>3, <1>4, <1>5

\* A step of another request leaves this one where it is.
LEMMA Moved ==
  ASSUME TypeOK, [Next]_vars, NEW r \in Req
  PROVE  req'[r] = req[r] \/ (\E u \in User : Arrive(r, u)) \/ Proceed(r)
  <1>1. ASSUME NEW s \in Req, NEW next, Go(s, next), s # r
        PROVE  req'[r] = req[r]
    BY <1>1 DEF Go, TypeOK
  <1>2. ASSUME NEW s \in Req, s # r, (\E u \in User : Arrive(s, u)) \/ Proceed(s)
        PROVE  \E next : Go(s, next)
    <2>1. ASSUME NEW u \in User, Arrive(s, u)
          PROVE  \E next : Go(s, next)
      BY <2>1 DEF Arrive, CreateCheck, InviteOne, InviteAll, RespondCheck, LeaveCheck, KickCheck,
                  TransferCheck, SettingsCheck, LeaderCheck, VoiceCheck, AccountCheck
    <2>2. ASSUME Proceed(s)
          PROVE  \E next : Go(s, next)
      BY <2>2 DEF Proceed, CreateRoom, CreateRow, InviteTargets, InviteNobody, InviteCheck,
                  InviteInsert, InviteNotify, InviteDone, RespondTx, LeaveRemove, LeaveCount,
                  LeaveClose, LeaveDelete, KickRemove, TransferTarget, TransferDemote,
                  TransferPromote, TransferOwner, SetMemberRole, SettingsUpdate, VoiceUpdate,
                  AccountPlan, AccountCommit, AccountClose, Done
    <2> QED
      BY <1>2, <2>1, <2>2
  <1> QED
    BY <1>1, <1>2 DEF Next, vars

\* Every step for one invitee leaves the batch at its step.
LEMMA InvitingGoesOn ==
  ASSUME TypeOK, NEW r \in Req,
         \/ \E v \in User : InviteCheck(r, v)
         \/ \E v \in User, i \in Invite : InviteInsert(r, v, i)
         \/ \E i \in Invite : InviteNotify(r, i)
  PROVE  req'[r].pc = "invite.send"
  <1>1. req[r] \in Inviting
    BY Fields DEF InviteCheck, InviteInsert, InviteNotify, TypeOK
  <1>2. \E next : Go(r, next) /\ next.pc = "invite.send"
    <2>1. ASSUME NEW v \in User, InviteCheck(r, v)
          PROVE  \E next : Go(r, next) /\ next.pc = "invite.send"
      <3> DEFINE next == [req[r] EXCEPT !.todo = req[r].todo \ {v},
                            !.cleared = IF MayInvite(req[r].user, req[r].party, v)
                                          THEN req[r].cleared \cup {v} ELSE req[r].cleared]
      <3>1. next.pc = "invite.send"
        BY <1>1 DEF Inviting
      <3>2. Go(r, next)
        BY <2>1 DEF InviteCheck
      <3> HIDE DEF next
      <3> QED
        BY <3>1, <3>2
    <2>2. ASSUME NEW v \in User, NEW i \in Invite, InviteInsert(r, v, i)
          PROVE  \E next : Go(r, next) /\ next.pc = "invite.send"
      <3> DEFINE sent == [req[r] EXCEPT !.cleared = req[r].cleared \ {v},
                                        !.sent = req[r].sent \cup {i}]
                 refused == [req[r] EXCEPT !.cleared = req[r].cleared \ {v}]
      <3>1. sent.pc = "invite.send" /\ refused.pc = "invite.send"
        BY <1>1 DEF Inviting
      <3>2. Go(r, sent) \/ Go(r, refused)
        BY <2>2 DEF InviteInsert
      <3> HIDE DEF sent, refused
      <3> QED
        BY <3>1, <3>2
    <2>3. ASSUME NEW i \in Invite, InviteNotify(r, i)
          PROVE  \E next : Go(r, next) /\ next.pc = "invite.send"
      BY <1>1, <2>3 DEF InviteNotify, Inviting
    <2> QED
      BY <2>1, <2>2, <2>3
  <1> QED
    BY <1>2 DEF Go, TypeOK

\* A request gets to an answer by RespondCheck only, to the insertion of a party
\* row by CreateRoom only, and to the commit of a deletion by AccountPlan only.
ReqStep(r) ==
  \/ req'[r] = req[r]
  \/ req'[r].pc \notin {"respond.tx", "create.row", "account.commit"}
  \/ \E u \in User, i \in Invite, accept \in BOOLEAN : RespondCheck(r, u, i, accept)
  \/ \E p \in Party : CreateRoom(r, p)
  \/ \E heir \in [Party -> User] : AccountPlan(r, heir)

LEMMA ReqSteps ==
  ASSUME TypeOK, [Next]_vars, NEW r \in Req
  PROVE  ReqStep(r)
  <1>2. ASSUME NEW next, Go(r, next)
        PROVE  req'[r] = next
    BY <1>2 DEF Go, TypeOK
  <1>4. ASSUME NEW u \in User, Arrive(r, u)
        PROVE  ReqStep(r)
    <2>1. CASE \E i \in Invite, accept \in BOOLEAN : RespondCheck(r, u, i, accept)
      BY <2>1 DEF ReqStep
    <2>2. CASE \E n \in Sizes : CreateCheck(r, u, n)
      BY <1>2, <2>2 DEF CreateCheck, ReqStep
    <2>3. CASE \E p \in Party, v \in User : InviteOne(r, u, p, v)
      BY <1>2, <2>3 DEF InviteOne, ReqStep
    <2>4. CASE \E p \in Party : InviteAll(r, u, p)
      BY <1>2, <2>4 DEF InviteAll, ReqStep
    <2>5. CASE \E p \in Party : LeaveCheck(r, u, p)
      BY <1>2, <2>5 DEF LeaveCheck, ReqStep
    <2>6. CASE \E p \in Party, v \in User : KickCheck(r, u, p, v)
      BY <1>2, <2>6 DEF KickCheck, LeaderCheck, ReqStep
    <2>7. CASE \E p \in Party, v \in User : TransferCheck(r, u, p, v)
      BY <1>2, <2>7 DEF TransferCheck, LeaderCheck, ReqStep
    <2>8. CASE \E p \in Party, x \in Setting : SettingsCheck(r, u, p, x)
      BY <1>2, <2>8 DEF SettingsCheck, LeaderCheck, ReqStep
    <2>9. CASE \E p \in Party, x \in Flag : VoiceCheck(r, u, p, x)
      BY <1>2, <2>9 DEF VoiceCheck, ReqStep
    <2>10. CASE AccountCheck(r, u)
      BY <1>2, <2>10 DEF AccountCheck, ReqStep
    <2> QED
      BY <1>4, <2>1, <2>2, <2>3, <2>4, <2>5, <2>6, <2>7, <2>8, <2>9, <2>10 DEF Arrive
  <1>5. Idle.pc = "idle"
    BY DEF Idle
  <1>6. ASSUME Done(r)
        PROVE  ReqStep(r)
    BY <1>2, <1>5, <1>6 DEF Done, ReqStep
  <1>7. ASSUME Proceed(r)
        PROVE  ReqStep(r)
    <2>1. CASE \E p \in Party : CreateRoom(r, p)
      BY <2>1 DEF ReqStep
    <2>2. CASE \E friends \in SUBSET User : InviteTargets(r, friends)
      BY <1>2, <2>2 DEF InviteTargets, ReqStep
    <2>3. CASE \/ \E v \in User : InviteCheck(r, v)
               \/ \E v \in User, i \in Invite : InviteInsert(r, v, i)
               \/ \E i \in Invite : InviteNotify(r, i)
      BY <2>3, InvitingGoesOn DEF ReqStep
    <2>4. CASE \/ LeaveRemove(r) \/ LeaveCount(r) \/ LeaveClose(r)
               \/ TransferTarget(r) \/ TransferDemote(r) \/ TransferPromote(r)
      <3>1. req[r] \in Leaving \cup Leading
        BY <2>4, Fields DEF LeaveRemove, LeaveCount, LeaveClose, TransferTarget,
                            TransferDemote, TransferPromote, TypeOK
      <3>2. \A x : [req[r] EXCEPT !.pc = x].pc = x
        BY <3>1 DEF Leaving, Leading
      <3>3. Done(r) \/ \E next : /\ Go(r, next)
                                 /\ next.pc \in {"leave.count", "leave.close", "leave.delete",
                                      "transfer.demote", "transfer.promote", "transfer.owner"}
        BY <2>4, <3>2 DEF LeaveRemove, LeaveCount, LeaveClose, TransferTarget, TransferDemote,
                          TransferPromote, SetMemberRole
      <3> QED
        BY <1>2, <1>6, <3>3 DEF ReqStep
    <2>5. CASE \E heir \in [Party -> User] : AccountPlan(r, heir)
      BY <2>5 DEF ReqStep
    <2>6. CASE AccountCommit(r)
      <3>1. Done(r) \/ Go(r, [pc |-> "account.close", user |-> req[r].user,
                              doomed |-> req[r].doomed])
        BY <2>6 DEF AccountCommit
      <3> QED
        BY <1>2, <1>6, <3>1 DEF ReqStep
    <2>7. CASE \/ CreateRow(r) \/ InviteNobody(r) \/ InviteDone(r) \/ RespondTx(r)
               \/ LeaveDelete(r) \/ KickRemove(r) \/ TransferOwner(r) \/ SettingsUpdate(r)
               \/ VoiceUpdate(r) \/ AccountClose(r)
      BY <1>6, <2>7 DEF CreateRow, InviteNobody, InviteDone, RespondTx, LeaveDelete, KickRemove,
                        TransferOwner, SettingsUpdate, VoiceUpdate, AccountClose
    <2> QED
      BY <1>7, <2>1, <2>2, <2>3, <2>4, <2>5, <2>6, <2>7 DEF Proceed
  <1> QED
    BY Moved, <1>4, <1>7 DEF ReqStep

\* Only CreateRoom makes a request about to insert a party.
LEMMA RowsAhead ==
  ASSUME TypeOK, [Next]_vars, NEW r \in Req, req'[r].pc = "create.row", req'[r] # req[r]
  PROVE  \E p \in Party : CreateRoom(r, p) /\ req'[r].party = p
  <1>1. \A u \in User, i \in Invite, accept \in BOOLEAN : ~RespondCheck(r, u, i, accept)
    BY DEF RespondCheck, Go, TypeOK
  <1>2. \A heir \in [Party -> User] : ~AccountPlan(r, heir)
    BY DEF AccountPlan, Go, TypeOK
  <1>3. PICK p \in Party : CreateRoom(r, p)
    BY <1>1, <1>2, ReqSteps DEF ReqStep
  <1> QED
    BY <1>3 DEF CreateRoom, Go, TypeOK

\* Rooms are opened for a new party and closed by leave or after a deletion.
RoomWrite(p) ==
  \/ room'[p] = room[p]
  \/ \E r \in Req : CreateRoom(r, p) /\ req'[r].pc = "create.row" /\ req'[r].party = p
  \/ \E r \in Req : /\ LeaveClose(r) /\ req[r].party = p /\ room'[p] = "closed"
                    /\ req'[r].pc = "leave.delete" /\ req'[r].party = p
  \/ \E r \in Req : AccountClose(r) /\ p \in req[r].doomed /\ room'[p] = "closed"

LEMMA RoomWrites ==
  ASSUME TypeOK, [Next]_vars, NEW p \in Party
  PROVE  RoomWrite(p)
  <1>1. ASSUME NEW r \in Req, NEW q \in Party, CreateRoom(r, q)
        PROVE  RoomWrite(p)
    <2>1. req'[r].pc = "create.row" /\ req'[r].party = q
      BY <1>1 DEF CreateRoom, Go, TypeOK
    <2>2. p # q => room'[p] = room[p]
      BY <1>1 DEF CreateRoom, TypeOK
    <2> QED
      BY <1>1, <2>1, <2>2 DEF RoomWrite
  <1>2. ASSUME NEW r \in Req, LeaveClose(r)
        PROVE  RoomWrite(p)
    <2>1. req[r] \in Leaving
      BY <1>2, Fields DEF LeaveClose, TypeOK
    <2>2. req'[r].pc = "leave.delete" /\ req'[r].party = req[r].party
      BY <1>2, <2>1 DEF LeaveClose, Go, TypeOK, Leaving
    <2>3. room'[p] = IF p = req[r].party THEN "closed" ELSE room[p]
      BY <1>2 DEF LeaveClose, TypeOK
    <2> QED
      BY <1>2, <2>2, <2>3 DEF RoomWrite
  <1>3. ASSUME NEW r \in Req, AccountClose(r)
        PROVE  RoomWrite(p)
    BY <1>3 DEF AccountClose, RoomWrite
  <1>4. CASE UNCHANGED room
    BY <1>4 DEF RoomWrite
  <1>5. ASSUME NEW r \in Req, NEW u \in User, Arrive(r, u)
        PROVE  UNCHANGED room
    BY <1>5 DEF Arrive, CreateCheck, InviteOne, InviteAll, RespondCheck, LeaveCheck, KickCheck,
                TransferCheck, SettingsCheck, LeaderCheck, VoiceCheck, AccountCheck
  <1>6. ASSUME NEW r \in Req, Proceed(r)
        PROVE  \/ UNCHANGED room
               \/ \E q \in Party : CreateRoom(r, q)
               \/ LeaveClose(r) \/ AccountClose(r)
    BY <1>6 DEF Proceed, CreateRow, InviteTargets, InviteNobody, InviteCheck, InviteInsert,
                InviteNotify, InviteDone, RespondTx, LeaveRemove, LeaveCount, LeaveDelete,
                KickRemove, TransferTarget, TransferDemote, TransferPromote, TransferOwner,
                SetMemberRole, SettingsUpdate, VoiceUpdate, AccountPlan, AccountCommit
  <1> QED
    BY <1>1, <1>2, <1>3, <1>4, <1>5, <1>6 DEF Next, vars

\* A room name once given to LiveKit is never unused again.
LEMMA RoomSteps ==
  ASSUME TypeOK, [Next]_vars, NEW p \in Party, room[p] # "unused"
  PROVE  room'[p] # "unused"
  <1>1. ~\E r \in Req : CreateRoom(r, p)
    BY DEF CreateRoom
  <1> QED
    BY <1>1, RoomWrites DEF RoomWrite

-----------------------------------------------------------------------------
\* An invite, once answered, keeps its answer.
THEOREM Finality == Spec => AnswerIsFinal
<1>1. TypeOK /\ [Next]_vars => [\A i \in Invite :
        inv[i].status \in {"accepted", "declined"} => inv'[i] \in {inv[i], GoneInvite}]_vars
  <2> SUFFICES ASSUME TypeOK, [Next]_vars, NEW i \in Invite,
                      inv[i].status \in {"accepted", "declined"}
               PROVE  inv'[i] \in {inv[i], GoneInvite}
    OBVIOUS
  <2>1. inv[i] # NoInvite /\ inv[i].status # "pending"
    BY DEF NoInvite
  <2> QED
    BY <2>1, InviteSteps DEF InviteStep, Answers
<1> QED
  BY <1>1, Typing, PTL DEF Spec, AnswerIsFinal

\* Party ids are used once: see FreshIds.
THEOREM Freshness == Spec => []FreshIds
<1>1. Init => FreshIds
  BY DEF Init, FreshIds, Live, NoParty, Idle
<1>2. TypeOK /\ TypeOK' /\ FreshIds /\ [Next]_vars => FreshIds'
  <2> SUFFICES ASSUME TypeOK, TypeOK', FreshIds, [Next]_vars
               PROVE  FreshIds'
    OBVIOUS
  <2>1. ASSUME NEW p \in Party, room[p] # "unused"
        PROVE  room'[p] # "unused"
    BY <2>1, RoomSteps
  <2>2. ASSUME NEW r \in Req, req'[r].pc = "create.row", req'[r] # req[r]
        PROVE  \E p \in Party : CreateRoom(r, p) /\ req'[r].party = p
    BY <2>2, RowsAhead
  <2>3. ASSUME NEW p \in Live'
        PROVE  room'[p] # "unused"
    <3>1. p \in Party
      BY DEF Live
    <3>2. CASE p \in Live
      BY <2>1, <3>1, <3>2 DEF FreshIds
    <3>3. CASE p \notin Live
      <4>1. PICK r \in Req : CreateRow(r) /\ req[r].party = p
        BY <3>1, <3>3, PartySteps DEF PartyStep
      <4>2. req[r].pc = "create.row"
        BY <4>1 DEF CreateRow
      <4> QED
        BY <2>1, <3>1, <4>1, <4>2 DEF FreshIds
    <3> QED
      BY <3>2, <3>3
  <2>4. ASSUME NEW r \in Req, req'[r].pc = "create.row"
        PROVE  /\ req'[r].party \notin Live'
               /\ room'[req'[r].party] # "unused"
               /\ \A s \in Req \ {r} : req'[s].pc = "create.row" => req'[s].party # req'[r].party
    <3> DEFINE p == req'[r].party
    <3>0. p \in Party
      BY <2>4, Fields DEF TypeOK, Creating
    <3>1. CASE req'[r] = req[r]
      <4>1. p \notin Live /\ room[p] # "unused"
        BY <2>4, <3>1 DEF FreshIds
      <4>2. \A s \in Req : ~(CreateRow(s) /\ req[s].party = p)
        <5> SUFFICES ASSUME NEW s \in Req, CreateRow(s), req[s].party = p
                     PROVE  FALSE
          OBVIOUS
        <5>1. s = r
          BY <2>4, <3>1 DEF FreshIds, CreateRow
        <5>2. req'[r].pc = "idle"
          BY <5>1 DEF CreateRow, Done, Go, Idle, TypeOK
        <5> QED
          BY <2>4, <5>2
      <4>3. p \notin Live'
        BY <3>0, <4>1, <4>2, PartySteps DEF PartyStep
      <4>4. ASSUME NEW s \in Req \ {r}, req'[s].pc = "create.row"
            PROVE  req'[s].party # p
        <5>1. CASE req'[s] = req[s]
          BY <2>4, <3>1, <4>4, <5>1 DEF FreshIds
        <5>2. CASE req'[s] # req[s]
          <6>1. PICK q \in Party : CreateRoom(s, q) /\ req'[s].party = q
            BY <2>2, <4>4, <5>2
          <6>2. room[q] = "unused"
            BY <6>1 DEF CreateRoom
          <6> QED
            BY <4>1, <6>1, <6>2
        <5> QED
          BY <5>1, <5>2
      <4> QED
        BY <2>1, <3>0, <4>1, <4>3, <4>4
    <3>2. CASE req'[r] # req[r]
      <4>1. CreateRoom(r, p)
        BY <2>2, <2>4, <3>2
      <4>2. room[p] = "unused" /\ room'[p] = "open" /\ UNCHANGED party
        BY <3>0, <4>1 DEF CreateRoom, TypeOK
      <4>3. p \notin Live'
        BY <4>2 DEF FreshIds, Live
      <4>4. ASSUME NEW s \in Req \ {r}, req'[s].pc = "create.row"
            PROVE  req'[s].party # p
        <5>1. req'[s] = req[s]
          BY <4>1 DEF CreateRoom, Go, TypeOK
        <5> QED
          BY <4>2, <4>4, <5>1 DEF FreshIds
      <4> QED
        BY <4>2, <4>3, <4>4
    <3> QED
      BY <3>1, <3>2
  <2> QED
    BY <2>3, <2>4 DEF FreshIds
<1> QED
  BY <1>1, <1>2, Typing, PTL DEF Spec

\* What is known of a party's rows and of an answer on its way, whatever raced.
LEMMA Orphans == Spec => [](NoOrphans /\ AnswersMatch)
<1>1. Init => NoOrphans /\ AnswersMatch
  BY DEF Init, NoOrphans, AnswersMatch, Members, NoInvite, Answer, Idle
<1>2. TypeOK /\ TypeOK' /\ NoOrphans /\ AnswersMatch /\ [Next]_vars => (NoOrphans /\ AnswersMatch)'
  <2> SUFFICES ASSUME TypeOK, TypeOK', NoOrphans, AnswersMatch, [Next]_vars
               PROVE  (NoOrphans /\ AnswersMatch)'
    OBVIOUS
  <2>1. ASSUME NEW r \in Req, NEW i \in Invite, Answers(r, i)
        PROVE  /\ inv[i].party = req[r].party
               /\ inv[i].to = req[r].user
               /\ inv'[i].status \in Answer
               /\ inv'[i].party = inv[i].party
               /\ inv'[i].to = inv[i].to
    <3>1. inv[i] \in [status : Answer, party : Party, to : User]
      BY <2>1, InviteThere DEF Answers, Answer
    <3>2. inv[i].party = req[r].party /\ inv[i].to = req[r].user
      BY <2>1 DEF Answers, AnswersMatch, RespondTx, Answer
    <3> QED
      BY <2>1, <3>1, <3>2 DEF Answers, Answer
  <2>2. NoOrphans'
    <3> SUFFICES ASSUME NEW p \in Party, p \notin Live'
                 PROVE  /\ Members(p)' = {}
                        /\ \A i \in Invite : inv'[i].status \in Answer => inv'[i].party # p
      BY DEF NoOrphans
    <3>1. CASE p \in Live
      BY <3>1, PartySteps DEF PartyStep
    <3>2. CASE p \notin Live
      <4>1. \A r \in Req, u \in User : ~Creates(r, p, u)
        <5> SUFFICES ASSUME NEW r \in Req, NEW u \in User, Creates(r, p, u)
                     PROVE  p \in Live'
          OBVIOUS
        <5> QED
          BY DEF Creates, CreateRow, Live, TypeOK
      <4>2. \A r \in Req, u \in User : ~Accepts(r, p, u)
        <5> SUFFICES ASSUME NEW r \in Req, NEW u \in User, Accepts(r, p, u)
                     PROVE  FALSE
          OBVIOUS
        <5>1. req[r].invite \in Invite
          BY Fields DEF Accepts, RespondTx, Responding, TypeOK
        <5>2. inv[req[r].invite].status \in Answer /\ inv[req[r].invite].party = p
          BY DEF Accepts, RespondTx, AnswersMatch, Answer
        <5> QED
          BY <3>2, <5>1, <5>2 DEF NoOrphans
      <4>3. Members(p)' = {}
        <5>1. \A u \in User : u \notin Members(p)'
          BY <3>2, <4>1, <4>2, RoleSteps DEF RoleStep, NoOrphans
        <5> QED
          BY <5>1 DEF Members
      <4>4. ASSUME NEW i \in Invite, inv'[i].status \in Answer
            PROVE  inv'[i].party # p
        <5>1. CASE inv'[i] = inv[i]
          BY <3>2, <4>4, <5>1 DEF NoOrphans
        <5>2. CASE inv'[i].party \in Live
          BY <3>2, <5>2
        <5>3. CASE inv'[i] = GoneInvite
          BY <4>4, <5>3 DEF GoneInvite, Answer
        <5>4. ASSUME NEW r \in Req, Answers(r, i)
              PROVE  inv'[i].party # p
          BY <2>1, <3>2, <5>4 DEF NoOrphans, Answers, Answer
        <5> QED
          BY <5>1, <5>2, <5>3, <5>4, InviteSteps DEF InviteStep
      <4> QED
        BY <4>3, <4>4
    <3> QED
      BY <3>1, <3>2
  <2>3. AnswersMatch'
    <3> SUFFICES ASSUME NEW r \in Req, req'[r].pc = "respond.tx"
                 PROVE  LET i == req'[r].invite
                        IN /\ inv'[i].status # "none"
                           /\ inv'[i].status \in Answer
                                => inv'[i].party = req'[r].party /\ inv'[i].to = req'[r].user
      BY DEF AnswersMatch
    <3> DEFINE i == req'[r].invite
    <3>0. i \in Invite
      BY Fields DEF TypeOK, Responding
    <3>1. CASE req'[r] = req[r]
      <4>1. /\ inv[i].status # "none"
            /\ inv[i].status \in Answer
                 => inv[i].party = req'[r].party /\ inv[i].to = req'[r].user
        BY <3>1 DEF AnswersMatch
      <4>2. GoneInvite.status = "gone" /\ NoInvite.status = "none"
        BY DEF GoneInvite, NoInvite
      <4>3. ASSUME NEW s \in Req, Answers(s, i)
            PROVE  /\ inv'[i].status \in Answer /\ inv[i].status \in Answer
                   /\ inv'[i].party = inv[i].party /\ inv'[i].to = inv[i].to
        BY <2>1, <3>0, <4>3 DEF Answers, Answer
      <4>4. InviteStep(i)
        BY <3>0, InviteSteps
      <4> QED
        BY <4>1, <4>2, <4>3, <4>4 DEF InviteStep, Answer
    <3>2. CASE req'[r] # req[r]
      <4>1. /\ \A p \in Party : ~CreateRoom(r, p)
            /\ \A heir \in [Party -> User] : ~AccountPlan(r, heir)
        BY DEF CreateRoom, AccountPlan, Go, TypeOK
      <4>2. PICK u \in User, j \in Invite, accept \in BOOLEAN : RespondCheck(r, u, j, accept)
        BY <3>2, <4>1, ReqSteps DEF ReqStep
      <4>3. /\ i = j /\ req'[r].party = inv[j].party /\ req'[r].user = u
            /\ UNCHANGED inv /\ inv[j].status = "pending" /\ inv[j].to = u
        BY <4>2 DEF RespondCheck, Go, TypeOK
      <4> QED
        BY <4>3
    <3> QED
      BY <3>1, <3>2
  <2> QED
    BY <2>2, <2>3
<1> QED
  BY <1>1, <1>2, Typing, PTL DEF Spec

-----------------------------------------------------------------------------
(* The hand-over of a deletion that others race with.                      *)

LEMMA Heirs == Spec => []HeirsAreOthers
<1>1. Init => HeirsAreOthers
  BY DEF Init, HeirsAreOthers, Idle
<1>2. TypeOK /\ HeirsAreOthers /\ [Next]_vars => HeirsAreOthers'
  <2> SUFFICES ASSUME TypeOK, HeirsAreOthers, [Next]_vars, NEW r \in Req,
                      req'[r].pc = "account.commit"
               PROVE  \A h \in req'[r].heirs : h[2] # req'[r].user
    BY DEF HeirsAreOthers
  <2>1. CASE req'[r] = req[r]
    BY <2>1 DEF HeirsAreOthers
  <2>2. CASE req'[r] # req[r]
    <3>1. /\ \A u \in User, i \in Invite, accept \in BOOLEAN : ~RespondCheck(r, u, i, accept)
          /\ \A p \in Party : ~CreateRoom(r, p)
      BY DEF RespondCheck, CreateRoom, Go, TypeOK
    <3>2. PICK heir \in [Party -> User] : AccountPlan(r, heir)
      BY <2>2, <3>1, ReqSteps DEF ReqStep
    <3> DEFINE u == req[r].user
               kept == {p \in OwnedBy(u) : Members(p) \ {u} # {}}
    <3>3. /\ \A p \in kept : heir[p] \in Members(p) \ {u}
          /\ req'[r].user = u /\ req'[r].heirs = {<<p, heir[p]>> : p \in kept}
      BY <3>2 DEF AccountPlan, Go, TypeOK
    <3> HIDE DEF kept
    <3> QED
      BY <3>3
  <2> QED
    BY <2>1, <2>2
<1> QED
  BY <1>1, <1>2, Typing, PTL DEF Spec

\* A deletion goes from its commit to its rooms by committing.
LEMMA Commits ==
  ASSUME TypeOK, [Next]_vars, NEW r \in Req,
         req[r].pc = "account.commit", req'[r].pc = "account.close"
  PROVE  AccountCommit(r) /\ CanCommit(req[r].user, req[r].heirs, req[r].doomed)
  <1>0. req[r] # Idle
    BY DEF Idle
  <1>1. \A u \in User : ~Arrive(r, u)
    BY <1>0 DEF Arrive, CreateCheck, InviteOne, InviteAll, RespondCheck, LeaveCheck, KickCheck,
                TransferCheck, SettingsCheck, LeaderCheck, VoiceCheck, AccountCheck
  <1>2. Proceed(r)
    BY <1>1, Moved
  <1>3. AccountCommit(r)
    BY <1>2 DEF Proceed, CreateRoom, CreateRow, InviteTargets, InviteNobody, InviteCheck,
                InviteInsert, InviteNotify, InviteDone, RespondTx, LeaveRemove, LeaveCount,
                LeaveClose, LeaveDelete, KickRemove, TransferTarget, TransferDemote,
                TransferPromote, TransferOwner, SettingsUpdate, VoiceUpdate, AccountPlan,
                AccountClose
  <1>4. ~Done(r)
    BY DEF Done, Go, Idle, TypeOK
  <1> QED
    BY <1>3, <1>4 DEF AccountCommit

\* Who becomes the owner of a party by the deletion of an account was a member
\* of it and leads it, in place of the deleted user, whatever raced with it.
THEOREM Inheritance == Spec => HeirsLead
<1>1. TypeOK /\ HeirsAreOthers /\ [Next]_vars => [\A r \in Req, p \in Live :
        LET heir == party'[p].owner
        IN (/\ req[r].pc = "account.commit" /\ req'[r].pc = "account.close"
            /\ p \in Live' /\ heir # party[p].owner)
             => heir \in Members(p) /\ heir \in Leaders(p)' /\ req[r].user \notin Leaders(p)']_vars
  <2> SUFFICES ASSUME TypeOK, HeirsAreOthers, [Next]_vars, NEW r \in Req, NEW p \in Live,
                      req[r].pc = "account.commit", req'[r].pc = "account.close",
                      p \in Live', party'[p].owner # party[p].owner
               PROVE  /\ party'[p].owner \in Members(p) /\ party'[p].owner \in Leaders(p)'
                      /\ req[r].user \notin Leaders(p)'
    OBVIOUS
  <2>1. PICK u \in User, heirs \in SUBSET (Party \X User), doomed \in SUBSET Party :
          u = req[r].user /\ heirs = req[r].heirs /\ doomed = req[r].doomed
    BY Fields DEF Closing, TypeOK
  <2>2. AccountCommit(r) /\ CanCommit(u, heirs, doomed)
    BY <2>1, Commits
  <2>3. p \in Party /\ p \notin doomed
    BY <2>1, <2>2 DEF AccountCommit, Live, NoParty
  <2>4. /\ party'[p] = HandedRow(p, heirs)
        /\ \A v \in User : role'[p][v] = HandedRole(u, heirs)[p][v]
    BY <2>1, <2>2, <2>3 DEF AccountCommit
  <2> DEFINE heir == CHOOSE w \in User : <<p, w>> \in heirs
  <2>5. \E w \in User : <<p, w>> \in heirs
    BY <2>4 DEF HandedRow
  <2>6. heir \in User /\ <<p, heir>> \in heirs
    BY <2>5
  <2>7. party'[p].owner = heir
    <3>1. party'[p] = [party[p] EXCEPT !.owner = heir]
      BY <2>4, <2>5 DEF HandedRow
    <3> HIDE DEF heir
    <3> QED
      BY <3>1, LiveRow
  <2> HIDE DEF heir
  <2>8. heir \in Members(p)
    BY <2>2, <2>6 DEF CanCommit
  <2>9. <<p, u>> \notin heirs
    BY <2>1 DEF HeirsAreOthers
  <2>10. role'[p][heir] = "LEADER" /\ role'[p][u] # "LEADER"
    BY <2>3, <2>4, <2>5, <2>6, <2>9 DEF HandedRole
  <2> QED
    BY <2>1, <2>6, <2>7, <2>8, <2>10 DEF Leaders
<1> QED
  BY <1>1, Typing, Heirs, PTL DEF Spec, HeirsLead

-----------------------------------------------------------------------------
\* Membership is exactly what acceptances and creations make of it.
THEOREM Joins == Spec => JoinsAreAcceptances
<1> DEFINE Allowed == \A p \in Party, u \in User :
      LET joins == u \notin Members(p) /\ u \in Members(p)'
          accepts == \E i \in Invite : /\ inv[i].status = "pending"
                                       /\ inv[i].party = p /\ inv[i].to = u
                                       /\ inv'[i].status = "accepted"
      IN \/ joins <=> accepts
         \/ p \notin Live /\ party'[p].owner = u
<1>1. TypeOK /\ NoOrphans /\ AnswersMatch /\ FreshIds /\ [Next]_vars => [Allowed]_vars
  <2> SUFFICES ASSUME TypeOK, AnswersMatch, FreshIds, [Next]_vars,
                      NEW p \in Party, NEW u \in User
               PROVE  LET joins == u \notin Members(p) /\ u \in Members(p)'
                          accepts == \E i \in Invite : /\ inv[i].status = "pending"
                                                       /\ inv[i].party = p /\ inv[i].to = u
                                                       /\ inv'[i].status = "accepted"
                      IN \/ joins <=> accepts
                         \/ p \notin Live /\ party'[p].owner = u
    OBVIOUS
  <2>1. ASSUME NEW r \in Req, Creates(r, p, u)
        PROVE  p \notin Live /\ party'[p].owner = u
    BY <2>1 DEF Creates, CreateRow, FreshIds, TypeOK
  <2>2. ASSUME NEW r \in Req, Accepts(r, p, u), u \notin Members(p)
        PROVE  \E i \in Invite : /\ inv[i].status = "pending"
                                 /\ inv[i].party = p /\ inv[i].to = u
                                 /\ inv'[i].status = "accepted"
    <3> DEFINE i == req[r].invite
    <3>1. i \in Invite
      BY <2>2, Fields DEF Accepts, RespondTx, Responding, TypeOK
    <3>2. inv[i].status = "pending" /\ inv[i].party = p /\ inv[i].to = u
      BY <2>2 DEF Accepts, RespondTx, AnswersMatch, Answer
    <3>3. inv' = [inv EXCEPT ![i].status = "accepted"]
      BY <2>2 DEF Accepts, RespondTx
    <3>4. inv[i] \in [status : Answer, party : Party, to : User]
      BY <3>1, <3>2, InviteThere DEF Answer
    <3>5. inv'[i].status = "accepted"
      BY <3>1, <3>3, <3>4 DEF TypeOK
    <3> QED
      BY <3>1, <3>2, <3>5
  <2>3. ASSUME NEW i \in Invite, inv[i].status = "pending", inv[i].party = p, inv[i].to = u,
               inv'[i].status = "accepted"
        PROVE  u \notin Members(p) /\ u \in Members(p)'
    <3>1. inv[i] # NoInvite
      BY <2>3 DEF NoInvite
    <3>2. inv'[i] # GoneInvite
      BY <2>3 DEF GoneInvite
    <3>3. PICK r \in Req : Answers(r, i)
      BY <2>3, <3>1, <3>2, InviteSteps DEF InviteStep
    <3>4. inv[i] \in [status : Answer, party : Party, to : User]
      BY <2>3, InviteThere DEF Answer
    <3>5. req[r].accept
      BY <2>3, <3>3, <3>4 DEF Answers
    <3>6. req[r].party = p /\ req[r].user = u
      BY <2>3, <3>3 DEF Answers, RespondTx, AnswersMatch, Answer
    <3>7. WriteRole(p, u, "MEMBER") /\ u \notin Members(p)
      BY <3>3, <3>5, <3>6 DEF Answers
    <3> QED
      BY <3>7, RoleCell DEF Members
  <2> QED
    BY <2>1, <2>2, <2>3, RoleSteps DEF RoleStep
<1> QED
  BY <1>1, Typing, Orphans, Freshness, PTL DEF Spec, JoinsAreAcceptances

-----------------------------------------------------------------------------
\* How far racing accepts can overfill a party, for any number of them.
THEOREM Capacity == Spec => []CapacityBound
<1>a. /\ \A p : IsFiniteSet(Members(p)) /\ Cardinality(Members(p)) \in Nat
      /\ \A p : IsFiniteSet(Joining(p)) /\ Cardinality(Joining(p)) \in Nat
      /\ Cardinality(Req) \in Nat
  BY UserAssumption, ReqAssumption, FS_Subset, FS_CardinalityType DEF Members, Joining
<1>1. Init => Crowd
  BY DEF Init, Crowd, Live, NoParty
<1>2. TypeOK /\ TypeOK' /\ NoOrphans /\ FreshIds /\ Crowd /\ [Next]_vars => Crowd'
  <2> SUFFICES ASSUME TypeOK, TypeOK', NoOrphans, FreshIds, Crowd, [Next]_vars,
                      NEW p \in Party, p \in Live'
               PROVE  Cardinality(Members(p)') + Cardinality(Joining(p)')
                        <= party'[p].size + Cardinality(Req) - 1
    BY DEF Crowd, Live
  <2>0. /\ IsFiniteSet(Members(p)') /\ Cardinality(Members(p)') \in Nat
        /\ IsFiniteSet(Joining(p)') /\ Cardinality(Joining(p)') \in Nat
    BY UserAssumption, ReqAssumption, FS_Subset, FS_CardinalityType DEF Members, Joining
  <2>1. party'[p].size \in Nat \ {0}
    <3>1. party'[p] \in PartyRow /\ party'[p].status = "live"
      BY DEF TypeOK, Live
    <3>2. NoParty.status # "live"
      BY DEF NoParty
    <3>3. party'[p].size \in Sizes
      BY <3>1, <3>2 DEF PartyRow
    <3> QED
      BY <3>3, SizesAssumption
  <2>2. CASE \E r \in Req : CreateRow(r) /\ req[r].party = p
    <3>1. PICK r \in Req : CreateRow(r) /\ req[r].party = p
      BY <2>2
    <3>2. req[r].user \in User
      BY <3>1, Fields DEF CreateRow, Creating, TypeOK
    <3>3. p \notin Live
      BY <3>1 DEF CreateRow, FreshIds
    <3>4. Members(p)' = {req[r].user}
      BY <3>1, <3>2, <3>3, RoleCell DEF CreateRow, NoOrphans, Members
    <3>5. Cardinality(Members(p)') = 1
      BY <3>4, FS_Singleton
    <3>6. Joining(p)' \subseteq Req \ {r}
      BY <3>1 DEF CreateRow, Done, Go, Idle, Joining, TypeOK
    <3>7. IsFiniteSet(Req \ {r}) /\ Cardinality(Req \ {r}) = Cardinality(Req) - 1
      BY ReqAssumption, FS_RemoveElement
    <3>8. Cardinality(Joining(p)') <= Cardinality(Req) - 1
      BY <3>6, <3>7, FS_Subset
    <3> QED
      BY <1>a, <2>0, <2>1, <3>5, <3>8
  <2>3. CASE ~\E r \in Req : CreateRow(r) /\ req[r].party = p
    <3>1. p \in Live /\ party'[p].size = party[p].size
      BY <2>3, PartySteps DEF PartyStep
    <3>2. Cardinality(Members(p)) + Cardinality(Joining(p))
            <= party[p].size + Cardinality(Req) - 1
      BY <3>1 DEF Crowd
    <3>3. CASE \E r \in Req, u \in User, i \in Invite : RespondCheck(r, u, i, TRUE) /\ inv[i].party = p
      <4>1. ~Full(p) /\ UNCHANGED role
        BY <3>3 DEF RespondCheck
      <4>2. Members(p)' = Members(p)
        BY <4>1 DEF Members
      <4>3. Cardinality(Members(p)') <= party[p].size - 1
        BY <1>a, <2>1, <3>1, <4>1, <4>2 DEF Full
      <4>4. Cardinality(Joining(p)') <= Cardinality(Req)
        BY ReqAssumption, FS_Subset DEF Joining
      <4> QED
        BY <1>a, <2>0, <2>1, <3>1, <4>3, <4>4
    <3>4. CASE \E r \in Req, u \in User : Accepts(r, p, u)
      <4>1. PICK r \in Req, u \in User : Accepts(r, p, u)
        BY <3>4
      <4>2. \A v \in User : v \in Members(p)' => v \in Members(p) \/ v = u
        BY <4>1, RoleCell DEF Accepts, RespondTx, Members
      <4>3. Members(p)' \subseteq Members(p) \cup {u}
        BY <4>2 DEF Members
      <4>4. Cardinality(Members(p)') <= Cardinality(Members(p)) + 1
        <5>0. IsFiniteSet(Members(p)) /\ Cardinality(Members(p)) \in Nat
          BY <1>a
        <5>1. /\ IsFiniteSet(Members(p) \cup {u})
              /\ Cardinality(Members(p) \cup {u}) \in {Cardinality(Members(p)),
                                                      Cardinality(Members(p)) + 1}
          BY <5>0, FS_AddElement
        <5>2. Cardinality(Members(p) \cup {u}) \in Nat
          BY <5>1, FS_CardinalityType
        <5> QED
          BY <2>0, <4>3, <5>0, <5>1, <5>2, FS_Subset
      <4>5. r \in Joining(p) /\ Joining(p)' \subseteq Joining(p) \ {r}
        BY <4>1 DEF Accepts, RespondTx, Joining, Done, Go, Idle, TypeOK
      <4>6. Cardinality(Joining(p)') <= Cardinality(Joining(p)) - 1
        <5>1. /\ IsFiniteSet(Joining(p) \ {r})
              /\ Cardinality(Joining(p) \ {r}) = Cardinality(Joining(p)) - 1
          BY <1>a, <4>5, FS_RemoveElement
        <5> QED
          BY <4>5, <5>1, FS_Subset
      <4> QED
        BY <1>a, <2>0, <2>1, <3>1, <3>2, <4>4, <4>6
    <3>5. CASE /\ ~\E r \in Req, u \in User, i \in Invite :
                     RespondCheck(r, u, i, TRUE) /\ inv[i].party = p
               /\ ~\E r \in Req, u \in User : Accepts(r, p, u)
      <4>1. \A u \in User : u \in Members(p)' => u \in Members(p)
        BY <2>3, <3>5, RoleSteps DEF RoleStep, Creates
      <4>2. Members(p)' \subseteq Members(p)
        BY <4>1 DEF Members
      <4>3. ASSUME NEW r \in Req, r \in Joining(p)'
            PROVE  r \in Joining(p)
        <5>1. req'[r].pc = "respond.tx" /\ req'[r].accept /\ req'[r].party = p
          BY <4>3 DEF Joining
        <5>2. CASE req'[r] = req[r]
          BY <5>1, <5>2 DEF Joining
        <5>3. ASSUME NEW u \in User, NEW i \in Invite, NEW accept \in BOOLEAN,
                     RespondCheck(r, u, i, accept)
              PROVE  FALSE
          <6>1. req'[r].accept = accept /\ req'[r].party = inv[i].party
            BY <5>3 DEF RespondCheck, Go, TypeOK
          <6> QED
            BY <3>5, <5>1, <5>3, <6>1
        <5>4. ASSUME NEW q \in Party, CreateRoom(r, q)
              PROVE  FALSE
          BY <5>1, <5>4 DEF CreateRoom, Go, TypeOK
        <5>5. ASSUME NEW heir \in [Party -> User], AccountPlan(r, heir)
              PROVE  FALSE
          BY <5>1, <5>5 DEF AccountPlan, Go, TypeOK
        <5> QED
          BY <5>1, <5>2, <5>3, <5>4, <5>5, ReqSteps DEF ReqStep
      <4>4. Joining(p)' \subseteq Joining(p)
        BY <4>3 DEF Joining
      <4>5. /\ Cardinality(Members(p)') <= Cardinality(Members(p))
            /\ Cardinality(Joining(p)') <= Cardinality(Joining(p))
        BY <1>a, <4>2, <4>4, FS_Subset
      <4> QED
        BY <1>a, <2>0, <2>1, <3>1, <3>2, <4>5
    <3> QED
      BY <3>3, <3>4, <3>5
  <2> QED
    BY <2>2, <2>3
<1>3. TypeOK /\ Crowd => CapacityBound
  <2> SUFFICES ASSUME TypeOK, Crowd, NEW p \in Live
               PROVE  Cardinality(Members(p)) <= party[p].size + Cardinality(Req) - 1
    BY DEF CapacityBound
  <2>1. party[p].size \in Nat
    BY LiveRow, SizesAssumption
  <2> QED
    BY <1>a, <2>1 DEF Crowd
<1> QED
  BY <1>1, <1>2, <1>3, Typing, Orphans, Freshness, PTL DEF Spec

-----------------------------------------------------------------------------
\* A notification still owed stays owed, by the same request, until it is there.
LEMMA StillOwed ==
  ASSUME TypeOK, [Next]_vars, NEW r \in Req, req[r].pc = "invite.send", NEW i \in req[r].sent
  PROVE  i \in notified' \/ (req'[r].pc = "invite.send" /\ i \in req'[r].sent)
  <1>0. req[r] \in Inviting /\ req[r] # Idle
    BY Fields DEF TypeOK, Idle
  <1>1. ASSUME NEW next, Go(r, next)
        PROVE  req'[r] = next
    BY <1>1 DEF Go, TypeOK
  <1>2. CASE \E u \in User : Arrive(r, u)
    BY <1>0, <1>2 DEF Arrive, CreateCheck, InviteOne, InviteAll, RespondCheck, LeaveCheck,
                      KickCheck, TransferCheck, SettingsCheck, LeaderCheck, VoiceCheck,
                      AccountCheck
  <1>3. ASSUME NEW v \in User, InviteCheck(r, v)
        PROVE  req'[r].pc = "invite.send" /\ i \in req'[r].sent
    <2> DEFINE next == [req[r] EXCEPT !.todo = req[r].todo \ {v},
                          !.cleared = IF MayInvite(req[r].user, req[r].party, v)
                                        THEN req[r].cleared \cup {v} ELSE req[r].cleared]
    <2>1. next.pc = "invite.send" /\ next.sent = req[r].sent
      BY <1>0 DEF Inviting
    <2>2. Go(r, next)
      BY <1>3 DEF InviteCheck
    <2> HIDE DEF next
    <2> QED
      BY <1>1, <2>1, <2>2
  <1>4. ASSUME NEW v \in User, NEW j \in Invite, InviteInsert(r, v, j)
        PROVE  req'[r].pc = "invite.send" /\ i \in req'[r].sent
    <2> DEFINE sent == [req[r] EXCEPT !.cleared = req[r].cleared \ {v},
                                      !.sent = req[r].sent \cup {j}]
               refused == [req[r] EXCEPT !.cleared = req[r].cleared \ {v}]
    <2>1. /\ sent.pc = "invite.send" /\ sent.sent = req[r].sent \cup {j}
          /\ refused.pc = "invite.send" /\ refused.sent = req[r].sent
      BY <1>0 DEF Inviting
    <2>2. Go(r, sent) \/ Go(r, refused)
      BY <1>4 DEF InviteInsert
    <2> HIDE DEF sent, refused
    <2> QED
      BY <1>1, <2>1, <2>2
  <1>5. ASSUME NEW j \in Invite, InviteNotify(r, j)
        PROVE  i \in notified' \/ (req'[r].pc = "invite.send" /\ i \in req'[r].sent)
    <2>1. /\ notified' = notified \cup {j}
          /\ Go(r, [req[r] EXCEPT !.sent = req[r].sent \ {j}])
      BY <1>5 DEF InviteNotify
    <2>2. req'[r].pc = "invite.send" /\ req'[r].sent = req[r].sent \ {j}
      BY <1>0, <1>1, <2>1 DEF Inviting
    <2> QED
      BY <2>1, <2>2
  <1>6. ASSUME Proceed(r)
        PROVE  \/ \E v \in User : InviteCheck(r, v)
               \/ \E v \in User, j \in Invite : InviteInsert(r, v, j)
               \/ \E j \in Invite : InviteNotify(r, j)
    BY <1>6 DEF Proceed, CreateRoom, CreateRow, InviteTargets, InviteNobody, InviteDone,
                RespondTx, LeaveRemove, LeaveCount, LeaveClose, LeaveDelete, KickRemove,
                TransferTarget, TransferDemote, TransferPromote, TransferOwner, SettingsUpdate,
                VoiceUpdate, AccountPlan, AccountCommit, AccountClose
  <1> QED
    BY Moved, <1>2, <1>3, <1>4, <1>5, <1>6

LEMMA NotifiedGrows ==
  ASSUME [Next]_vars
  PROVE  notified \subseteq notified'
  <1>1. ASSUME NEW r \in Req, NEW u \in User, Arrive(r, u)
        PROVE  UNCHANGED notified
    BY <1>1 DEF Arrive, CreateCheck, InviteOne, InviteAll, RespondCheck, LeaveCheck, KickCheck,
                TransferCheck, SettingsCheck, LeaderCheck, VoiceCheck, AccountCheck
  <1>2. ASSUME NEW r \in Req, Proceed(r)
        PROVE  UNCHANGED notified \/ \E i \in Invite : InviteNotify(r, i)
    BY <1>2 DEF Proceed, CreateRoom, CreateRow, InviteTargets, InviteNobody, InviteCheck,
                InviteInsert, InviteDone, RespondTx, LeaveRemove, LeaveCount, LeaveClose,
                LeaveDelete, KickRemove, TransferTarget, TransferDemote, TransferPromote,
                TransferOwner, SetMemberRole, SettingsUpdate, VoiceUpdate, AccountPlan,
                AccountCommit, AccountClose
  <1> QED
    BY <1>1, <1>2 DEF Next, vars, InviteNotify

\* The step that stores an invite leaves its notification to the same request.
LEMMA OwedFromTheStart ==
  ASSUME TypeOK, [Next]_vars, NEW i \in Invite, inv[i].status = "none", inv'[i].status # "none"
  PROVE  \E r \in Req : req'[r].pc = "invite.send" /\ i \in req'[r].sent
  <1>1. inv[i].status \notin Answer /\ \A r \in Req : ~Answers(r, i)
    BY DEF Answers, Answer
  <1>2. inv'[i].status = "pending" /\ inv' # inv
    BY <1>1, InviteSteps DEF InviteStep
  <1>3. ASSUME NEW r \in Req, LeaveDelete(r) \/ AccountCommit(r)
        PROVE  FALSE
    <2>1. UNCHANGED inv \/ \E gone : DropInvites(gone)
      BY <1>3 DEF LeaveDelete, DeleteRows, AccountCommit
    <2> QED
      BY <1>1, <1>2, <2>1 DEF DropInvites
  <1>4. ASSUME NEW r \in Req, RespondTx(r)
        PROVE  FALSE
    <2>1. PICK x : inv[req[r].invite].status = "pending"
                   /\ inv' = [inv EXCEPT ![req[r].invite].status = x]
      BY <1>2, <1>4 DEF RespondTx
    <2> QED
      BY <1>2, <2>1 DEF TypeOK
  <1>5. PICK r \in Req, v \in User, j \in Invite : InviteInsert(r, v, j)
    BY Writers, <1>2, <1>3, <1>4
       DEF CreateRow, LeaveRemove, KickRemove, TransferDemote, TransferPromote, SetMemberRole,
           TransferOwner, SettingsUpdate
  <1>6. req[r] \in Inviting
    BY <1>5, Fields DEF InviteInsert, TypeOK
  <1>7. /\ inv' = [inv EXCEPT ![j] = [status |-> "pending", party |-> req[r].party, to |-> v]]
        /\ Go(r, [req[r] EXCEPT !.cleared = req[r].cleared \ {v},
                                !.sent = req[r].sent \cup {j}])
    BY <1>2, <1>5 DEF InviteInsert
  <1>8. i = j
    BY <1>2, <1>7 DEF TypeOK
  <1>9. req'[r].pc = "invite.send" /\ req'[r].sent = req[r].sent \cup {j}
    <2> DEFINE next == [req[r] EXCEPT !.cleared = req[r].cleared \ {v},
                                      !.sent = req[r].sent \cup {j}]
    <2>1. next.pc = "invite.send" /\ next.sent = req[r].sent \cup {j}
      BY <1>5, <1>6 DEF InviteInsert, Inviting
    <2>2. Go(r, next)
      BY <1>7
    <2> HIDE DEF next
    <2>3. req'[r] = next
      BY <2>2 DEF Go, TypeOK
    <2> QED
      BY <2>1, <2>3
  <1> QED
    BY <1>8, <1>9

\* No invite is silent: whichever request stored it has notified, or still will.
THEOREM Announcements == Spec => []InvitesAnnounced
<1>1. Init => InvitesAnnounced
  BY DEF Init, InvitesAnnounced, NoInvite
<1>2. TypeOK /\ InvitesAnnounced /\ [Next]_vars => InvitesAnnounced'
  <2> SUFFICES ASSUME TypeOK, InvitesAnnounced, [Next]_vars,
                      NEW i \in Invite, inv'[i].status # "none"
               PROVE  \/ i \in notified'
                      \/ \E r \in Req : req'[r].pc = "invite.send" /\ i \in req'[r].sent
    BY DEF InvitesAnnounced
  <2>1. CASE inv[i].status = "none"
    BY <2>1, OwedFromTheStart
  <2>2. CASE inv[i].status # "none"
    <3>1. CASE i \in notified
      BY <3>1, NotifiedGrows
    <3>2. ASSUME NEW r \in Req, req[r].pc = "invite.send", i \in req[r].sent
          PROVE  i \in notified' \/ (req'[r].pc = "invite.send" /\ i \in req'[r].sent)
      BY <3>2, StillOwed
    <3> QED
      BY <2>2, <3>1, <3>2 DEF InvitesAnnounced
  <2> QED
    BY <2>1, <2>2
<1> QED
  BY <1>1, <1>2, Typing, PTL DEF Spec

-----------------------------------------------------------------------------
\* A room in use, and nobody about to insert its party: the party, if it is not
\* there now, never will be.
Settled(p) == room[p] # "unused" /\ \A r \in Req : req[r].pc = "create.row" => req[r].party # p

LeavePcs == {"leave.remove", "leave.count", "leave.close", "leave.delete"}
DeletePcs == {"account.commit", "account.close"}

\* What a request that deals with rooms knows of them.
RoomsKnown == \A r \in Req :
  /\ req[r].pc \in LeavePcs => Settled(req[r].party)
  /\ req[r].pc = "leave.delete" => room[req[r].party] = "closed"
  /\ req[r].pc = "create.row" => room[req[r].party] = "open"
  /\ req[r].pc \in DeletePcs => \A p \in req[r].doomed : Settled(p)
  /\ req[r].pc = "account.close" => req[r].doomed \cap Live = {}

LEMMA LiveIsSettled ==
  ASSUME FreshIds, NEW p \in Live
  PROVE  Settled(p)
  BY DEF FreshIds, Settled

LEMMA StaysSettled ==
  ASSUME TypeOK, [Next]_vars, NEW p \in Party, Settled(p)
  PROVE  Settled(p)' /\ (p \notin Live => p \notin Live')
  <1>1. room'[p] # "unused"
    BY RoomSteps DEF Settled
  <1>2. ASSUME NEW r \in Req, req'[r].pc = "create.row"
        PROVE  req'[r].party # p
    <2>1. CASE req'[r] = req[r]
      BY <1>2, <2>1 DEF Settled
    <2>2. CASE req'[r] # req[r]
      BY <1>2, <2>2, RowsAhead DEF CreateRoom, Settled
    <2> QED
      BY <2>1, <2>2
  <1>3. p \notin Live => p \notin Live'
    BY PartySteps DEF PartyStep, CreateRow, Settled
  <1> QED
    BY <1>1, <1>2, <1>3 DEF Settled

\* How a request gets to a step of leave: by reading a live party, or from the
\* step before, with the same party; to leave.delete by closing the room.
LEMMA LeaveSteps ==
  ASSUME TypeOK, [Next]_vars, NEW r \in Req, req'[r].pc \in LeavePcs
  PROVE  \/ req'[r] = req[r]
         \/ req'[r].party \in Live /\ req'[r].pc # "leave.delete"
         \/ /\ req[r].pc \in LeavePcs /\ req'[r].party = req[r].party
            /\ req'[r].pc = "leave.delete" => LeaveClose(r)
  <1>1. ASSUME NEW next, Go(r, next)
        PROVE  req'[r] = next
    BY <1>1 DEF Go, TypeOK
  <1>2. ASSUME NEW next, Go(r, next), next.pc \notin LeavePcs
        PROVE  FALSE
    BY <1>1, <1>2
  <1>3. ~Done(r)
    BY <1>2 DEF Done, Idle, LeavePcs
  <1>4. ASSUME NEW u \in User, NEW p \in Party, LeaveCheck(r, u, p)
        PROVE  req'[r].party \in Live /\ req'[r].pc # "leave.delete"
    <2>1. Go(r, [pc |-> IF u \in Leaders(p) THEN "leave.close" ELSE "leave.remove",
                 user |-> u, party |-> p]) /\ p \in Live
      BY <1>4 DEF LeaveCheck
    <2>2. req'[r] = [pc |-> IF u \in Leaders(p) THEN "leave.close" ELSE "leave.remove",
                     user |-> u, party |-> p]
      BY <1>1, <2>1
    <2> QED
      BY <2>1, <2>2
  <1>5. ASSUME NEW u \in User, Arrive(r, u)
        PROVE  \E p \in Party : LeaveCheck(r, u, p)
    BY <1>2, <1>5 DEF Arrive, CreateCheck, InviteOne, InviteAll, RespondCheck, KickCheck,
                      TransferCheck, SettingsCheck, LeaderCheck, VoiceCheck, AccountCheck, LeavePcs
  <1>6. ASSUME LeaveRemove(r) \/ LeaveCount(r) \/ LeaveClose(r)
        PROVE  /\ req[r].pc \in LeavePcs /\ req'[r].party = req[r].party
               /\ req'[r].pc = "leave.delete" => LeaveClose(r)
    <2>1. req[r] \in Leaving /\ req[r].pc \in LeavePcs
      BY <1>6, Fields DEF LeaveRemove, LeaveCount, LeaveClose, TypeOK, LeavePcs
    <2>2. \A x : [req[r] EXCEPT !.pc = x].pc = x /\ [req[r] EXCEPT !.pc = x].party = req[r].party
      BY <2>1 DEF Leaving
    <2>3. \/ \E x \in {"leave.count", "leave.close"} : Go(r, [req[r] EXCEPT !.pc = x])
          \/ LeaveClose(r) /\ Go(r, [req[r] EXCEPT !.pc = "leave.delete"])
      BY <1>3, <1>6 DEF LeaveRemove, LeaveCount, LeaveClose
    <2>4. \/ \E x \in {"leave.count", "leave.close"} : req'[r] = [req[r] EXCEPT !.pc = x]
          \/ LeaveClose(r) /\ req'[r] = [req[r] EXCEPT !.pc = "leave.delete"]
      BY <1>1, <2>3
    <2> QED
      BY <2>1, <2>2, <2>4
  <1>7. ASSUME Proceed(r)
        PROVE  LeaveRemove(r) \/ LeaveCount(r) \/ LeaveClose(r)
    <2>1. CASE \E p \in Party : CreateRoom(r, p)
      BY <1>2, <2>1 DEF CreateRoom, LeavePcs
    <2>2. CASE \E friends \in SUBSET User : InviteTargets(r, friends)
      BY <1>2, <2>2 DEF InviteTargets, LeavePcs
    <2>3. CASE \/ \E v \in User : InviteCheck(r, v)
               \/ \E v \in User, i \in Invite : InviteInsert(r, v, i)
               \/ \E i \in Invite : InviteNotify(r, i)
      <3>1. req[r].pc = "invite.send"
        BY <2>3 DEF InviteCheck, InviteInsert, InviteNotify
      <3> QED
        BY <2>3, <3>1, InvitingGoesOn DEF LeavePcs
    <2>4. CASE TransferTarget(r) \/ TransferDemote(r) \/ TransferPromote(r)
      <3>1. req[r] \in Leading
        BY <2>4, Fields DEF TransferTarget, TransferDemote, TransferPromote, TypeOK
      <3>2. \A x : [req[r] EXCEPT !.pc = x].pc = x
        BY <3>1 DEF Leading
      <3>3. \E x \in {"transfer.demote", "transfer.promote", "transfer.owner"} :
              Go(r, [req[r] EXCEPT !.pc = x])
        BY <1>3, <2>4 DEF TransferTarget, TransferDemote, TransferPromote, SetMemberRole
      <3> QED
        BY <1>2, <3>2, <3>3 DEF LeavePcs
    <2>5. CASE \E heir \in [Party -> User] : AccountPlan(r, heir)
      BY <1>2, <2>5 DEF AccountPlan, LeavePcs
    <2>6. CASE AccountCommit(r)
      <3>1. Go(r, [pc |-> "account.close", user |-> req[r].user, doomed |-> req[r].doomed])
        BY <1>3, <2>6 DEF AccountCommit
      <3> QED
        BY <1>2, <3>1 DEF LeavePcs
    <2>7. CASE \/ CreateRow(r) \/ InviteNobody(r) \/ InviteDone(r) \/ RespondTx(r)
               \/ LeaveDelete(r) \/ KickRemove(r) \/ TransferOwner(r) \/ SettingsUpdate(r)
               \/ VoiceUpdate(r) \/ AccountClose(r)
      BY <1>3, <2>7 DEF CreateRow, InviteNobody, InviteDone, RespondTx, LeaveDelete, KickRemove,
                        TransferOwner, SettingsUpdate, VoiceUpdate, AccountClose
    <2> QED
      BY <1>7, <2>1, <2>2, <2>3, <2>4, <2>5, <2>6, <2>7 DEF Proceed
  <1> QED
    BY Moved, <1>4, <1>5, <1>6, <1>7

\* How a request gets to the closing of rooms: by choosing among the live
\* parties, then by deleting what it chose.
LEMMA DeleteSteps ==
  ASSUME TypeOK, [Next]_vars, NEW r \in Req, req'[r].pc \in DeletePcs
  PROVE  \/ req'[r] = req[r]
         \/ req'[r].pc = "account.commit" /\ req'[r].doomed \subseteq Live
         \/ /\ req[r].pc = "account.commit" /\ req'[r].doomed = req[r].doomed
            /\ req[r].doomed \cap Live' = {}
  <1>1. ASSUME NEW next, Go(r, next)
        PROVE  req'[r] = next
    BY <1>1 DEF Go, TypeOK
  <1>2. ASSUME NEW next, Go(r, next), next.pc \notin DeletePcs
        PROVE  FALSE
    BY <1>1, <1>2
  <1>3. ~Done(r)
    BY <1>2 DEF Done, Idle, DeletePcs
  <1>4. ASSUME NEW heir \in [Party -> User], AccountPlan(r, heir)
        PROVE  req'[r].pc = "account.commit" /\ req'[r].doomed \subseteq Live
    <2> DEFINE kept == {p \in OwnedBy(req[r].user) : Members(p) \ {req[r].user} # {}}
               heirs == {<<p, heir[p]>> : p \in kept}
               doomed == OwnedBy(req[r].user) \ kept
    <2>1. Go(r, [pc |-> "account.commit", user |-> req[r].user,
                 heirs |-> heirs, doomed |-> doomed])
      BY <1>4 DEF AccountPlan
    <2>2. doomed \subseteq Live
      BY DEF OwnedBy
    <2> HIDE DEF heirs, doomed
    <2> QED
      BY <1>1, <2>1, <2>2
  <1>5. ASSUME AccountCommit(r)
        PROVE  /\ req[r].pc = "account.commit" /\ req'[r].doomed = req[r].doomed
               /\ req[r].doomed \cap Live' = {}
    <2>1. /\ req[r].pc = "account.commit"
          /\ party' = [p \in Party |-> IF p \in req[r].doomed THEN NoParty
                                       ELSE HandedRow(p, req[r].heirs)]
          /\ Go(r, [pc |-> "account.close", user |-> req[r].user, doomed |-> req[r].doomed])
      BY <1>3, <1>5 DEF AccountCommit
    <2>2. \A p \in Party : p \in req[r].doomed => p \notin Live'
      BY <2>1 DEF Live, NoParty
    <2> QED
      BY <1>1, <2>1, <2>2 DEF Live
  <1>6. ASSUME NEW u \in User, Arrive(r, u)
        PROVE  FALSE
    BY <1>2, <1>6 DEF Arrive, CreateCheck, InviteOne, InviteAll, RespondCheck, LeaveCheck,
                      KickCheck, TransferCheck, SettingsCheck, LeaderCheck, VoiceCheck,
                      AccountCheck, DeletePcs
  <1>7. ASSUME Proceed(r)
        PROVE  AccountCommit(r) \/ \E heir \in [Party -> User] : AccountPlan(r, heir)
    <2>1. CASE \E p \in Party : CreateRoom(r, p)
      BY <1>2, <2>1 DEF CreateRoom, DeletePcs
    <2>2. CASE \E friends \in SUBSET User : InviteTargets(r, friends)
      BY <1>2, <2>2 DEF InviteTargets, DeletePcs
    <2>3. CASE \/ \E v \in User : InviteCheck(r, v)
               \/ \E v \in User, i \in Invite : InviteInsert(r, v, i)
               \/ \E i \in Invite : InviteNotify(r, i)
      BY <2>3, InvitingGoesOn DEF DeletePcs
    <2>4. CASE \/ LeaveRemove(r) \/ LeaveCount(r) \/ LeaveClose(r)
               \/ TransferTarget(r) \/ TransferDemote(r) \/ TransferPromote(r)
      <3>1. req[r] \in Leaving \cup Leading
        BY <2>4, Fields DEF LeaveRemove, LeaveCount, LeaveClose, TransferTarget,
                            TransferDemote, TransferPromote, TypeOK
      <3>2. \A x : [req[r] EXCEPT !.pc = x].pc = x
        BY <3>1 DEF Leaving, Leading
      <3>3. \E next : /\ Go(r, next)
                      /\ next.pc \in {"leave.count", "leave.close", "leave.delete",
                                      "transfer.demote", "transfer.promote", "transfer.owner"}
        BY <1>3, <2>4, <3>2 DEF LeaveRemove, LeaveCount, LeaveClose, TransferTarget,
                                TransferDemote, TransferPromote, SetMemberRole
      <3> QED
        BY <1>2, <3>3 DEF DeletePcs
    <2>5. CASE \/ CreateRow(r) \/ InviteNobody(r) \/ InviteDone(r) \/ RespondTx(r)
               \/ LeaveDelete(r) \/ KickRemove(r) \/ TransferOwner(r) \/ SettingsUpdate(r)
               \/ VoiceUpdate(r) \/ AccountClose(r)
      BY <1>3, <2>5 DEF CreateRow, InviteNobody, InviteDone, RespondTx, LeaveDelete, KickRemove,
                        TransferOwner, SettingsUpdate, VoiceUpdate, AccountClose
    <2> QED
      BY <1>7, <2>1, <2>2, <2>3, <2>4, <2>5 DEF Proceed
  <1> QED
    BY Moved, <1>4, <1>5, <1>6, <1>7

\* A request that owes a party its row, its deletion or the end of its room
\* does just that, or waits.
LEMMA Waits ==
  ASSUME TypeOK, [Next]_vars, NEW r \in Req,
         req[r].pc \in {"create.row", "leave.delete", "account.close"}
  PROVE  req'[r] = req[r] \/ CreateRow(r) \/ LeaveDelete(r) \/ AccountClose(r)
  <1>0. req[r] # Idle
    BY DEF Idle
  <1>1. ~\E u \in User : Arrive(r, u)
    BY <1>0 DEF Arrive, CreateCheck, InviteOne, InviteAll, RespondCheck, LeaveCheck, KickCheck,
                TransferCheck, SettingsCheck, LeaderCheck, VoiceCheck, AccountCheck
  <1>2. Proceed(r) => CreateRow(r) \/ LeaveDelete(r) \/ AccountClose(r)
    BY DEF Proceed, CreateRoom, InviteTargets, InviteNobody, InviteCheck, InviteInsert,
           InviteNotify, InviteDone, RespondTx, LeaveRemove, LeaveCount, LeaveClose,
           KickRemove, TransferTarget, TransferDemote, TransferPromote, TransferOwner,
           SettingsUpdate, VoiceUpdate, AccountPlan, AccountCommit
  <1> QED
    BY Moved, <1>1, <1>2

\* A party goes by its leader's leave, or with its owner's account; then its
\* room is the deletion's to close.
LEMMA PartyGone ==
  ASSUME TypeOK, [Next]_vars, NEW p \in Live, p \notin Live'
  PROVE  \E r \in Req : \/ LeaveDelete(r) /\ req[r].party = p
                        \/ req'[r].pc = "account.close" /\ p \in req'[r].doomed
  <1>0. party' # party /\ p \in Party
    BY DEF Live
  <1>1. ASSUME NEW r \in Req, CreateRow(r)
        PROVE  FALSE
    <2>1. req[r].party # p => party'[p] = party[p]
      BY <1>0, <1>1 DEF CreateRow, TypeOK
    <2>2. req[r].party = p => p \in Live'
      BY <1>0, <1>1 DEF CreateRow, TypeOK, Live
    <2> QED
      BY <2>1, <2>2 DEF Live
  <1>2. ASSUME NEW r \in Req, TransferOwner(r) \/ SettingsUpdate(r)
        PROVE  FALSE
    <2>1. party[p] \in [status : {"live"}, owner : User, size : Sizes, settings : Setting]
      BY LiveRow
    <2>2. req[r].party # p => party'[p] = party[p]
      BY <1>0, <1>2 DEF TransferOwner, SettingsUpdate, TypeOK
    <2>3. req[r].party = p => party'[p].status = party[p].status
      BY <1>0, <1>2, <2>1 DEF TransferOwner, SettingsUpdate, TypeOK
    <2> QED
      BY <2>2, <2>3 DEF Live
  <1>3. ASSUME NEW r \in Req, LeaveDelete(r)
        PROVE  req[r].party = p
    BY <1>3 DEF LeaveDelete, DeleteRows, Live
  <1>4. ASSUME NEW r \in Req, AccountCommit(r)
        PROVE  req'[r].pc = "account.close" /\ p \in req'[r].doomed
    <2>1. /\ party' = [q \in Party |-> IF q \in req[r].doomed THEN NoParty
                                       ELSE HandedRow(q, req[r].heirs)]
          /\ Go(r, [pc |-> "account.close", user |-> req[r].user, doomed |-> req[r].doomed])
      BY <1>0, <1>4 DEF AccountCommit
    <2>2. p \in req[r].doomed
      BY <2>1, RowHanded DEF Live
    <2> QED
      BY <2>1, <2>2 DEF Go, TypeOK
  <1> QED
    BY Writers, <1>0, <1>1, <1>2, <1>3, <1>4
       DEF RespondTx, InviteInsert, LeaveRemove, KickRemove, TransferDemote, TransferPromote,
           SetMemberRole

\* What the requests know of the rooms stays true until they use it.
LEMMA RoomsStayKnown ==
  ASSUME TypeOK, TypeOK', FreshIds, RoomsKnown, [Next]_vars
  PROVE  RoomsKnown'
  <1> SUFFICES ASSUME NEW r \in Req
               PROVE
      /\ req'[r].pc \in LeavePcs => Settled(req[r].party)'
      /\ req'[r].pc = "leave.delete" => room'[req'[r].party] = "closed"
      /\ req'[r].pc = "create.row" => room'[req'[r].party] = "open"
      /\ req'[r].pc \in DeletePcs => \A p \in req'[r].doomed : Settled(p)'
      /\ req'[r].pc = "account.close" => req'[r].doomed \cap Live' = {}
    BY DEF RoomsKnown, Settled
  <1>0. /\ req'[r].pc \in LeavePcs \cup {"create.row"} => req'[r].party \in Party
        /\ req'[r].pc \in DeletePcs => req'[r].doomed \subseteq Party
    <2>1. req'[r] \in Request
      BY DEF TypeOK
    <2> QED
      BY <2>1, Fields DEF LeavePcs, DeletePcs, Leaving, Creating, Closing
  <1>1. ASSUME req'[r].pc \in LeavePcs
        PROVE  Settled(req[r].party)'
    <2>1. Settled(req'[r].party)
      BY <1>1, LeaveSteps, LiveIsSettled DEF RoomsKnown
    <2>2. ASSUME NEW p \in Party, Settled(p)
          PROVE  room'[p] # "unused" /\ \A s \in Req : req'[s].pc = "create.row" => req'[s].party # p
      BY <2>2, StaysSettled DEF Settled
    <2> QED
      BY <1>0, <1>1, <2>1, <2>2 DEF Settled
  <1>2. ASSUME req'[r].pc = "leave.delete"
        PROVE  room'[req'[r].party] = "closed"
    <2> DEFINE p == req'[r].party
    <2>0. p \in Party
      BY <1>0, <1>2 DEF LeavePcs
    <2>1. CASE req'[r] = req[r]
      <3>1. room[p] = "closed"
        BY <1>2, <2>1 DEF RoomsKnown
      <3>2. ~\E s \in Req : CreateRoom(s, p)
        BY <3>1 DEF CreateRoom
      <3>3. room'[p] = "closed"
        <4> HIDE DEF p
        <4> QED
          BY <2>0, <3>1, <3>2, RoomWrites DEF RoomWrite
      <3> QED
        BY <3>3
    <2>2. CASE req'[r] # req[r]
      <3>1. LeaveClose(r) /\ req'[r].party = req[r].party
        BY <1>2, <2>2, LeaveSteps DEF LeavePcs
      <3> QED
        BY <2>0, <3>1 DEF LeaveClose, TypeOK
    <2> QED
      BY <2>1, <2>2
  <1>3. ASSUME req'[r].pc = "create.row"
        PROVE  room'[req'[r].party] = "open"
    <2> DEFINE p == req'[r].party
    <2>0. p \in Party
      BY <1>0, <1>3
    <2>1. CASE req'[r] = req[r]
      <3>1. room[p] = "open" /\ ~Settled(p)
        BY <1>3, <2>1 DEF RoomsKnown, Settled
      <3>2. ~\E s \in Req : CreateRoom(s, p)
        BY <3>1 DEF CreateRoom
      <3>3. ~\E s \in Req : LeaveClose(s) /\ req[s].party = p
        BY <3>1 DEF LeaveClose, RoomsKnown, LeavePcs
      <3>4. ~\E s \in Req : AccountClose(s) /\ p \in req[s].doomed
        BY <3>1 DEF AccountClose, RoomsKnown, DeletePcs
      <3>5. room'[p] = "open"
        <4> HIDE DEF p
        <4> QED
          BY <2>0, <3>1, <3>2, <3>3, <3>4, RoomWrites DEF RoomWrite
      <3> QED
        BY <3>5
    <2>2. CASE req'[r] # req[r]
      BY <1>3, <2>2, RowsAhead DEF CreateRoom, TypeOK
    <2> QED
      BY <2>1, <2>2
  <1>4. ASSUME req'[r].pc \in DeletePcs, NEW p \in req'[r].doomed
        PROVE  Settled(p)'
    <2>1. p \in Party
      BY <1>0, <1>4 DEF DeletePcs
    <2>2. Settled(p)
      BY <1>4, DeleteSteps, LiveIsSettled DEF RoomsKnown, DeletePcs
    <2> QED
      BY <2>1, <2>2, StaysSettled
  <1>5. ASSUME req'[r].pc = "account.close"
        PROVE  req'[r].doomed \cap Live' = {}
    <2>1. CASE req'[r] = req[r]
      <3>1. ASSUME NEW p \in req'[r].doomed
            PROVE  p \notin Live'
        <4>1. p \in Party /\ p \notin Live /\ Settled(p)
          BY <1>0, <1>5, <2>1, <3>1 DEF RoomsKnown, DeletePcs
        <4> QED
          BY <4>1, StaysSettled
      <3> QED
        BY <3>1
    <2>2. CASE req'[r] # req[r]
      BY <1>5, <2>2, DeleteSteps DEF DeletePcs
    <2> QED
      BY <2>1, <2>2
  <1> QED
    BY <1>1, <1>2, <1>3, <1>4, <1>5

LEMMA RoomsStayAccounted ==
  ASSUME TypeOK, FreshIds, RoomsKnown, RoomsAccounted, [Next]_vars
  PROVE  RoomsAccounted'
  <1>1. ASSUME NEW p \in Party, p \in Live', room'[p] # "open"
        PROVE  \E r \in Req : req'[r].pc = "leave.delete" /\ req'[r].party = p
    <2>1. CASE p \notin Live
      <3>1. PICK r \in Req : CreateRow(r) /\ req[r].party = p
        BY <1>1, <2>1, PartySteps DEF PartyStep
      <3>2. room[p] = "open" /\ UNCHANGED room
        BY <3>1 DEF CreateRow, RoomsKnown
      <3> QED
        BY <1>1, <3>2
    <2>2. CASE p \in Live /\ room[p] # "open" /\ room'[p] = room[p]
      <3>1. PICK r \in Req : req[r].pc = "leave.delete" /\ req[r].party = p
        BY <2>2 DEF RoomsAccounted
      <3>2. ~LeaveDelete(r)
        BY <1>1, <3>1 DEF LeaveDelete, DeleteRows, Live, NoParty
      <3>3. req'[r] = req[r]
        BY <3>1, <3>2, Waits DEF CreateRow, AccountClose
      <3> QED
        BY <3>1, <3>3
    <2>3. CASE p \in Live /\ room'[p] # room[p]
      <3>1. ~\E r \in Req : CreateRoom(r, p)
        BY <1>1 DEF CreateRoom, TypeOK
      <3>2. ~\E r \in Req : AccountClose(r) /\ p \in req[r].doomed
        BY <2>3 DEF AccountClose, RoomsKnown
      <3> QED
        BY <2>3, <3>1, <3>2, RoomWrites DEF RoomWrite
    <2> QED
      BY <1>1, <2>1, <2>2, <2>3
  <1>2. ASSUME NEW p \in Party, p \notin Live', room'[p] = "open"
        PROVE  \E r \in Req : \/ req'[r].pc = "create.row" /\ req'[r].party = p
                              \/ req'[r].pc = "account.close" /\ p \in req'[r].doomed
    <2>1. CASE p \in Live
      <3>1. ASSUME NEW r \in Req, LeaveDelete(r), req[r].party = p
            PROVE  FALSE
        BY <1>2, <3>1 DEF LeaveDelete, RoomsKnown
      <3> QED
        BY <1>2, <2>1, <3>1, PartyGone
    <2>2. CASE p \notin Live /\ room[p] = "open"
      <3>1. CASE \E r \in Req : req[r].pc = "create.row" /\ req[r].party = p
        <4>1. PICK r \in Req : req[r].pc = "create.row" /\ req[r].party = p
          BY <3>1
        <4>2. ~CreateRow(r)
          BY <1>2, <4>1 DEF CreateRow, Live, TypeOK
        <4>3. req'[r] = req[r]
          BY <4>1, <4>2, Waits DEF LeaveDelete, AccountClose
        <4> QED
          BY <4>1, <4>3
      <3>2. CASE \E r \in Req : req[r].pc = "account.close" /\ p \in req[r].doomed
        <4>1. PICK r \in Req : req[r].pc = "account.close" /\ p \in req[r].doomed
          BY <3>2
        <4>2. ~AccountClose(r)
          BY <1>2, <4>1 DEF AccountClose
        <4>3. req'[r] = req[r]
          BY <4>1, <4>2, Waits DEF LeaveDelete, CreateRow
        <4> QED
          BY <4>1, <4>3
      <3> QED
        BY <2>2, <3>1, <3>2 DEF RoomsAccounted
    <2>3. CASE room[p] # "open"
      BY <1>2, <2>3, RoomWrites DEF RoomWrite
    <2> QED
      BY <2>1, <2>2, <2>3
  <1> QED
    BY <1>1, <1>2 DEF RoomsAccounted

\* LiveKit's rooms and the parties agree up to the request about to make them,
\* with any number of requests in flight and whichever of them die.
THEOREM Rooms == Spec => []RoomsAccounted
<1>1. Init => RoomsKnown /\ RoomsAccounted
  BY DEF Init, RoomsKnown, RoomsAccounted, Live, NoParty, Idle, LeavePcs, DeletePcs
<1>2. /\ TypeOK /\ TypeOK' /\ FreshIds /\ RoomsKnown /\ RoomsAccounted /\ [Next]_vars
      => (RoomsKnown /\ RoomsAccounted)'
  BY RoomsStayKnown, RoomsStayAccounted
<1> QED
  BY <1>1, <1>2, Typing, Freshness, PTL DEF Spec

-----------------------------------------------------------------------------
(* One request at a time.                                                  *)

\* Nothing overlaps: there is one slot, so that a request that dies is the last.
Alone == \A r, s \in Req : r = s

MovesLead == {"transfer.promote", "transfer.owner"}

\* What the request knows for certain, as nothing has changed since it read it: whom the
\* party at hand has for its leader and owner, and of an account about to be deleted, which
\* of its parties end and who inherits the others.
Sure(q) ==
  /\ q.pc = "leave.remove" => q.user \notin Leaders(q.party)
  /\ q.pc \in {"leave.close", "leave.delete"} /\ q.party \in Live => party[q.party].owner = q.user
  /\ q.pc = "kick.remove" => q.target # q.user
  /\ q.pc \in {"kick.remove", "transfer.target", "transfer.demote", "settings.update"}
       => q.user \in Leaders(q.party)
  /\ q.pc \in {"transfer.demote", "transfer.promote"} => q.target \in Members(q.party)
  /\ q.pc \in MovesLead =>
       /\ q.party \in Live /\ party[q.party].owner = q.user
       /\ Leaders(q.party) = IF q.pc = "transfer.promote" THEN {} ELSE {q.target}
  /\ q.pc = "account.commit" =>
       /\ q.doomed = {p \in OwnedBy(q.user) : Members(p) \ {q.user} = {}}
       /\ \A p \in Party, v \in User : <<p, v>> \in q.heirs =>
            p \in OwnedBy(q.user) \ q.doomed /\ v \in Members(p) \ {q.user}
       /\ \A p \in Party, v, w \in User : <<p, v>> \in q.heirs /\ <<p, w>> \in q.heirs => v = w
       /\ \A p \in OwnedBy(q.user) \ q.doomed : \E w \in User : <<p, w>> \in q.heirs

Known == \A r \in Req : Sure(req[r])

SerialInv == OwnerLeads /\ Known

LEMMA OwnersLead ==
  ASSUME Alone, OwnerLeads, NEW r \in Req, NEW p \in Live,
         req[r].pc \in MovesLead => req[r].party # p
  PROVE  Leaders(p) = {party[p].owner}
  BY DEF OwnerLeads, Transferring, MovesLead, Alone

LEMMA LeadIsLive ==
  ASSUME NoOrphans, NEW p \in Party, NEW u \in Members(p)
  PROVE  p \in Live
  BY DEF NoOrphans

LEMMA LeadIsMember ==
  ASSUME NEW p, NEW u \in Leaders(p)
  PROVE  u \in Members(p)
  BY DEF Leaders, Members

\* The steps the request may be at without knowing anything.
LEMMA NothingKnown ==
  ASSUME NEW q, q.pc \notin {"leave.remove", "leave.close", "leave.delete", "kick.remove",
           "transfer.target", "transfer.demote", "transfer.promote", "transfer.owner",
           "settings.update", "account.commit"}
  PROVE  Sure(q)
  BY DEF Sure, MovesLead

\* What has to be shown of a step: that each party there is led by its owner, but for the
\* one in transfer, and what the request knows.
SerialStep(r) ==
  /\ \A p \in Live' : ~(req'[r].pc \in MovesLead /\ req'[r].party = p)
                      => Leaders(p)' = {party'[p].owner}
  /\ Sure(req[r])'

LEMMA StepEnough ==
  ASSUME Alone, NEW r \in Req, SerialStep(r)
  PROVE  SerialInv'
  <1>1. \A s \in Req : s = r
    BY DEF Alone
  <1>2. Known'
    BY <1>1 DEF Known, SerialStep
  <1>3. OwnerLeads'
    BY DEF OwnerLeads, Transferring, SerialStep, MovesLead
  <1> QED
    BY <1>2, <1>3 DEF SerialInv

\* A step that leaves the tables alone leaves every party with its leader, if the
\* request was not moving one.
LEMMA TablesKept ==
  ASSUME Alone, OwnerLeads, NEW r \in Req, req[r].pc \notin MovesLead, UNCHANGED <<party, role>>
  PROVE  /\ \A p \in Live' : Leaders(p)' = {party'[p].owner}
         /\ Live' = Live
         /\ \A p : Leaders(p)' = Leaders(p) /\ Members(p)' = Members(p)
         /\ \A u : OwnedBy(u)' = OwnedBy(u)
  <1>1. Live' = Live /\ \A p : Leaders(p)' = Leaders(p) /\ Members(p)' = Members(p)
    BY DEF Live, Leaders, Members
  <1>2. \A u : OwnedBy(u)' = OwnedBy(u)
    BY <1>1 DEF OwnedBy
  <1>3. \A p \in Live' : Leaders(p)' = {party'[p].owner}
    BY <1>1, OwnersLead
  <1> QED
    BY <1>1, <1>2, <1>3

LEMMA WentTo ==
  ASSUME TypeOK, NEW r \in Req, NEW next, Go(r, next)
  PROVE  req'[r] = next
  BY DEF TypeOK, Go

LEMMA Finished ==
  ASSUME TypeOK, NEW r \in Req, Done(r)
  PROVE  req'[r].pc = "idle" /\ Sure(req[r])'
  <1>1. req'[r] = Idle
    BY WentTo DEF Done
  <1>2. req'[r].pc = "idle"
    BY <1>1 DEF Idle
  <1> QED
    BY <1>2 DEF Sure, MovesLead

\* What a request knows, when it asks for what its first read shows it.
LEMMA SerialArrivals ==
  ASSUME Alone, TypeOK, NoOrphans, OwnerLeads, NEW r \in Req, NEW u \in User, Arrive(r, u)
  PROVE  SerialStep(r)
  <1>1. req[r] = Idle /\ UNCHANGED <<party, role>>
    BY DEF Arrive, CreateCheck, InviteOne, InviteAll, RespondCheck, LeaveCheck, KickCheck,
           TransferCheck, SettingsCheck, LeaderCheck, VoiceCheck, AccountCheck
  <1>2. req[r].pc \notin MovesLead
    BY <1>1 DEF Idle, MovesLead
  <1>3. /\ \A p \in Live' : Leaders(p)' = {party'[p].owner}
        /\ Live' = Live
        /\ \A p : Leaders(p)' = Leaders(p) /\ Members(p)' = Members(p)
    BY <1>1, <1>2, TablesKept
  <1>4. SUFFICES Sure(req[r])'
    BY <1>3 DEF SerialStep
  <1>5. ASSUME req'[r].pc \in {"create.room", "invite.send", "invite.all", "respond.tx",
                               "voice.update", "account.plan"}
        PROVE  Sure(req[r])'
    BY <1>5 DEF Sure, MovesLead
  <1>6. CASE \/ \E n \in Sizes : CreateCheck(r, u, n)
             \/ \E p \in Party, v \in User : InviteOne(r, u, p, v)
             \/ \E p \in Party : InviteAll(r, u, p)
             \/ \E i \in Invite, accept \in BOOLEAN : RespondCheck(r, u, i, accept)
             \/ \E p \in Party, x \in Flag : VoiceCheck(r, u, p, x)
             \/ AccountCheck(r, u)
    <2>1. CASE \E n \in Sizes : CreateCheck(r, u, n)
      BY <1>5, <2>1, WentTo DEF CreateCheck
    <2>2. CASE \E p \in Party, v \in User : InviteOne(r, u, p, v)
      BY <1>5, <2>2, WentTo DEF InviteOne
    <2>3. CASE \E p \in Party : InviteAll(r, u, p)
      BY <1>5, <2>3, WentTo DEF InviteAll
    <2>4. CASE \E i \in Invite, accept \in BOOLEAN : RespondCheck(r, u, i, accept)
      BY <1>5, <2>4, WentTo DEF RespondCheck
    <2>5. CASE \E p \in Party, x \in Flag : VoiceCheck(r, u, p, x)
      BY <1>5, <2>5, WentTo DEF VoiceCheck
    <2>6. CASE AccountCheck(r, u)
      BY <1>5, <2>6, WentTo DEF AccountCheck
    <2> QED
      BY <1>6, <2>1, <2>2, <2>3, <2>4, <2>5, <2>6
  <1>7. ASSUME NEW p \in Party, LeaveCheck(r, u, p)
        PROVE  Sure(req[r])'
    <2>1. p \in Live /\ Leaders(p) = {party[p].owner}
      BY <1>2, <1>7, OwnersLead DEF LeaveCheck
    <2>2. /\ req'[r].pc = IF u \in Leaders(p) THEN "leave.close" ELSE "leave.remove"
          /\ req'[r].user = u /\ req'[r].party = p
      BY <1>7, WentTo DEF LeaveCheck
    <2> QED
      BY <1>1, <1>3, <2>1, <2>2 DEF Sure, MovesLead
  <1>8. ASSUME NEW p \in Party, NEW v \in User, KickCheck(r, u, p, v) \/ TransferCheck(r, u, p, v)
        PROVE  Sure(req[r])'
    <2>1. /\ req'[r].pc \in {"kick.remove", "transfer.target"}
          /\ req'[r].pc = "kick.remove" => u # v
          /\ req'[r].user = u /\ req'[r].party = p /\ req'[r].target = v /\ u \in Leaders(p)
      BY <1>8, WentTo DEF KickCheck, TransferCheck, LeaderCheck
    <2> QED
      BY <1>3, <2>1 DEF Sure, MovesLead
  <1>9. ASSUME NEW p \in Party, NEW x \in Setting, SettingsCheck(r, u, p, x)
        PROVE  Sure(req[r])'
    <2>1. /\ req'[r].pc = "settings.update"
          /\ req'[r].user = u /\ req'[r].party = p /\ u \in Leaders(p)
      BY <1>9, WentTo DEF SettingsCheck, LeaderCheck
    <2> QED
      BY <1>3, <2>1 DEF Sure, MovesLead
  <1> QED
    BY <1>6, <1>7, <1>8, <1>9 DEF Arrive

\* What it knows after a step that only reads, or writes neither a party nor a role.
LEMMA SerialReads ==
  ASSUME Alone, TypeOK, NoOrphans, OwnerLeads, Known, NEW r \in Req, Proceed(r),
         UNCHANGED <<party, role>>, req[r].pc \notin MovesLead
  PROVE  SerialStep(r)
  <1>1. /\ \A p \in Live' : Leaders(p)' = {party'[p].owner}
        /\ Live' = Live
        /\ \A p : Leaders(p)' = Leaders(p) /\ Members(p)' = Members(p)
        /\ \A u : OwnedBy(u)' = OwnedBy(u)
    BY TablesKept
  <1>2. SUFFICES Sure(req[r])'
    BY <1>1 DEF SerialStep
  <1>3. ASSUME req'[r].pc \in {"create.row", "invite.send", "account.close"}
        PROVE  Sure(req[r])'
    BY <1>3 DEF Sure, MovesLead
  <1>4. Sure(req[r])
    BY DEF Known
  <1>5. CASE \E p \in Party : CreateRoom(r, p)
    BY <1>3, <1>5, WentTo DEF CreateRoom
  <1>6. CASE \E friends \in SUBSET User : InviteTargets(r, friends)
    BY <1>3, <1>6, WentTo DEF InviteTargets
  <1>7. CASE \/ \E v \in User : InviteCheck(r, v)
             \/ \E v \in User, i \in Invite : InviteInsert(r, v, i)
             \/ \E i \in Invite : InviteNotify(r, i)
    BY <1>3, <1>7, InvitingGoesOn
  <1>8. CASE LeaveRemove(r) \/ LeaveCount(r)
    <2>1. req[r] \in Leaving
      BY <1>8, Fields DEF LeaveRemove, LeaveCount, TypeOK
    <2>2. \/ Done(r)
          \/ req'[r] = [req[r] EXCEPT !.pc = "leave.count"]
          \/ Members(req[r].party) = {} /\ req'[r] = [req[r] EXCEPT !.pc = "leave.close"]
      BY <1>8, WentTo DEF LeaveRemove, LeaveCount
    <2>3. CASE req'[r] = [req[r] EXCEPT !.pc = "leave.count"]
      <3>1. req'[r].pc = "leave.count"
        BY <2>1, <2>3 DEF Leaving
      <3> QED
        BY <3>1 DEF Sure, MovesLead
    <2>4. CASE Members(req[r].party) = {} /\ req'[r] = [req[r] EXCEPT !.pc = "leave.close"]
      <3>1. req'[r].pc = "leave.close" /\ req'[r].party = req[r].party
        BY <2>1, <2>4 DEF Leaving
      <3>2. Leaders(req[r].party) = {}
        BY <2>4, LeadIsMember
      <3>3. req[r].party \notin Live
        BY <3>2, OwnersLead
      <3> QED
        BY <1>1, <3>1, <3>3 DEF Sure, MovesLead
    <2> QED
      BY <2>2, <2>3, <2>4, Finished
  <1>9. CASE LeaveClose(r)
    <2>1. req[r] \in Leaving /\ req[r].pc = "leave.close"
      BY <1>9, Fields DEF LeaveClose, TypeOK
    <2>2. req'[r] = [req[r] EXCEPT !.pc = "leave.delete"]
      BY <1>9, WentTo DEF LeaveClose
    <2>3. req'[r].pc = "leave.delete" /\ req'[r].party = req[r].party /\ req'[r].user = req[r].user
      BY <2>1, <2>2 DEF Leaving
    <2>4. req[r].party \in Live => party[req[r].party].owner = req[r].user
      BY <1>4, <2>1 DEF Sure
    <2> QED
      BY <1>1, <2>3, <2>4 DEF Sure, MovesLead
  <1>10. CASE TransferTarget(r)
    <2>1. req[r] \in Leading /\ req[r].pc = "transfer.target"
      BY <1>10, Fields DEF TransferTarget, TypeOK
    <2>2. Done(r) \/ (req[r].target \in Members(req[r].party)
                      /\ req'[r] = [req[r] EXCEPT !.pc = "transfer.demote"])
      BY <1>10, WentTo DEF TransferTarget
    <2>3. CASE req[r].target \in Members(req[r].party)
               /\ req'[r] = [req[r] EXCEPT !.pc = "transfer.demote"]
      <3>1. /\ req'[r].pc = "transfer.demote" /\ req'[r].party = req[r].party
            /\ req'[r].user = req[r].user /\ req'[r].target = req[r].target
        BY <2>1, <2>3 DEF Leading
      <3>2. req[r].user \in Leaders(req[r].party)
        BY <1>4, <2>1 DEF Sure
      <3> QED
        BY <1>1, <2>3, <3>1, <3>2 DEF Sure, MovesLead
    <2> QED
      BY <2>2, <2>3, Finished
  <1>11. CASE \E heir \in [Party -> User] : AccountPlan(r, heir)
    <2>1. PICK heir \in [Party -> User] : AccountPlan(r, heir)
      BY <1>11
    <2> DEFINE u == req[r].user
               kept == {p \in OwnedBy(u) : Members(p) \ {u} # {}}
    <2>2. req'[r] = [pc |-> "account.commit", user |-> u,
                     heirs |-> {<<p, heir[p]>> : p \in kept}, doomed |-> OwnedBy(u) \ kept]
      BY <2>1, WentTo DEF AccountPlan
    <2>3. /\ req'[r].pc = "account.commit" /\ req'[r].user = u
          /\ req'[r].heirs = {<<p, heir[p]>> : p \in kept}
          /\ req'[r].doomed = OwnedBy(u) \ kept
      BY <2>2
    <2>4. \A p \in kept : heir[p] \in Members(p) \ {u} /\ p \in Party /\ heir[p] \in User
      BY <2>1 DEF AccountPlan, OwnedBy, Live
    <2>5. OwnedBy(u) \ kept = {p \in OwnedBy(u) : Members(p) \ {u} = {}}
      OBVIOUS
    <2>6. \A p \in Party, v \in User : <<p, v>> \in req'[r].heirs => p \in kept /\ v = heir[p]
      BY <2>3
    <2>7. \A p \in kept : <<p, heir[p]>> \in req'[r].heirs
      BY <2>3
    <2> HIDE DEF kept
    <2>8. /\ req'[r].doomed = {p \in OwnedBy(u) : Members(p) \ {u} = {}}
          /\ \A p \in Party, v \in User : <<p, v>> \in req'[r].heirs =>
               p \in OwnedBy(u) \ req'[r].doomed /\ v \in Members(p) \ {u}
          /\ \A p \in Party, v, w \in User :
               <<p, v>> \in req'[r].heirs /\ <<p, w>> \in req'[r].heirs => v = w
          /\ \A p \in OwnedBy(u) \ req'[r].doomed : \E w \in User : <<p, w>> \in req'[r].heirs
      <3>1. kept \subseteq OwnedBy(u)
        BY DEF kept
      <3> QED
        BY <2>3, <2>4, <2>5, <2>6, <2>7, <3>1
    <2> HIDE DEF u
    <2> QED
      BY <1>1, <2>3, <2>8 DEF Sure, MovesLead, u
  <1>12. CASE \/ CreateRow(r) \/ InviteNobody(r) \/ InviteDone(r) \/ RespondTx(r)
              \/ LeaveDelete(r) \/ KickRemove(r) \/ SettingsUpdate(r)
              \/ VoiceUpdate(r) \/ AccountClose(r)
    BY <1>12, Finished DEF CreateRow, InviteNobody, InviteDone, RespondTx, LeaveDelete, KickRemove,
                      SettingsUpdate, VoiceUpdate, AccountClose
  <1>13. CASE AccountCommit(r)
    <2>1. Done(r) \/ req'[r] = [pc |-> "account.close", user |-> req[r].user, doomed |-> req[r].doomed]
      BY <1>13, WentTo DEF AccountCommit
    <2> QED
      BY <1>3, <2>1, Finished
  <1>14. CASE TransferDemote(r)
    <2>1. req[r] \in Leading /\ req[r].pc = "transfer.demote"
      BY <1>14, Fields DEF TransferDemote, TypeOK
    <2>2. req[r].user \in Leaders(req[r].party)
      BY <1>4, <2>1 DEF Sure
    <2>3. req[r].user \in User /\ req[r].party \in Party
      BY <2>1 DEF Leading
    <2>4. WriteRole(req[r].party, req[r].user, "MEMBER")
      BY <1>14, <2>2, LeadIsMember DEF TransferDemote, SetMemberRole
    <2>5. role'[req[r].party][req[r].user] = "MEMBER"
      BY <2>3, <2>4, RoleCell
    <2> QED
      BY <2>2, <2>5 DEF Leaders
  <1>15. ~TransferPromote(r) /\ ~TransferOwner(r)
    BY DEF TransferPromote, TransferOwner, MovesLead
  <1> QED
    BY <1>5, <1>6, <1>7, <1>8, <1>9, <1>10, <1>11, <1>12, <1>13, <1>14, <1>15 DEF Proceed

\* A role written changes who leads that party only.
LEMMA LeadersWritten ==
  ASSUME TypeOK, NEW a \in Party, NEW b \in User, NEW x, WriteRole(a, b, x)
  PROVE  /\ \A p \in Party \ {a} : Leaders(p)' = Leaders(p) /\ Members(p)' = Members(p)
         /\ Leaders(a)' = IF x = "LEADER" THEN Leaders(a) \cup {b} ELSE Leaders(a) \ {b}
  <1>1. ASSUME NEW p \in Party, NEW u \in User
        PROVE  role'[p][u] = IF p = a /\ u = b THEN x ELSE role[p][u]
    BY <1>1, RoleCell
  <1> QED
    BY <1>1 DEF Leaders, Members

LEMMA SerialRoles ==
  ASSUME Alone, TypeOK, OwnerLeads, Known, NEW r \in Req,
         RespondTx(r) \/ LeaveRemove(r) \/ KickRemove(r)
  PROVE  \A p \in Live' : Leaders(p)' = {party'[p].owner}
  <1>1. UNCHANGED party /\ Live' = Live
    BY DEF RespondTx, LeaveRemove, KickRemove, Live
  <1>2. \A p \in Live : Leaders(p) = {party[p].owner}
    BY OwnersLead DEF RespondTx, LeaveRemove, KickRemove, MovesLead
  <1>3. Sure(req[r])
    BY DEF Known
  <1>4. ASSUME NEW a \in Party, NEW b \in User, NEW x, WriteRole(a, b, x),
               a \in Live => b \notin Leaders(a), x # "LEADER"
        PROVE  \A p \in Live' : Leaders(p)' = {party'[p].owner}
    <2>1. \A p \in Live : p \in Party
      BY DEF Live
    <2> QED
      BY <1>1, <1>2, <1>4, <2>1, LeadersWritten
  <1>5. ASSUME UNCHANGED role
        PROVE  \A p \in Live' : Leaders(p)' = {party'[p].owner}
    BY <1>1, <1>2, <1>5 DEF Leaders
  <1>6. CASE RespondTx(r)
    <2>1. req[r].party \in Party /\ req[r].user \in User
      BY <1>6, Fields DEF RespondTx, Responding, TypeOK
    <2>2. UNCHANGED role \/ /\ req[r].user \notin Members(req[r].party)
                            /\ WriteRole(req[r].party, req[r].user, "MEMBER")
      BY <1>6 DEF RespondTx
    <2> QED
      BY <1>4, <1>5, <2>1, <2>2, LeadIsMember
  <1>7. CASE LeaveRemove(r)
    <2>1. req[r].party \in Party /\ req[r].user \in User
      BY <1>7, Fields DEF LeaveRemove, Leaving, TypeOK
    <2>2. req[r].user \notin Leaders(req[r].party)
      BY <1>3, <1>7 DEF Sure, LeaveRemove
    <2> QED
      BY <1>4, <1>5, <1>7, <2>1, <2>2 DEF LeaveRemove, RemoveRow
  <1>8. CASE KickRemove(r)
    <2>1. req[r].party \in Party /\ req[r].target \in User
      BY <1>8, Fields DEF KickRemove, Leading, TypeOK
    <2>2. req[r].user \in Leaders(req[r].party) /\ req[r].target # req[r].user
      BY <1>3, <1>8 DEF Sure, KickRemove
    <2>3. req[r].party \in Live => req[r].target \notin Leaders(req[r].party)
      BY <1>2, <2>2
    <2> QED
      BY <1>4, <1>5, <1>8, <2>1, <2>3 DEF KickRemove, RemoveRow
  <1> QED
    BY <1>6, <1>7, <1>8

\* The three statements of a transfer: the leader steps down, the target steps up, the
\* party's row follows.
LEMMA SerialTransfers ==
  ASSUME Alone, TypeOK, NoOrphans, OwnerLeads, Known, NEW r \in Req,
         TransferDemote(r) \/ TransferPromote(r) \/ TransferOwner(r)
  PROVE  SerialStep(r)
  <1>1. req[r] \in Leading
    BY Fields DEF TransferDemote, TransferPromote, TransferOwner, TypeOK
  <1>2. PICK a \in Party, u \in User, v \in User :
          a = req[r].party /\ u = req[r].user /\ v = req[r].target
    BY <1>1 DEF Leading
  <1>3. Sure(req[r])
    BY DEF Known
  <1>4. \A x : /\ [req[r] EXCEPT !.pc = x].pc = x
               /\ [req[r] EXCEPT !.pc = x].party = a
               /\ [req[r] EXCEPT !.pc = x].user = u
               /\ [req[r] EXCEPT !.pc = x].target = v
    BY <1>1, <1>2 DEF Leading
  <1>5. \A p \in Live : p \in Party /\ (p # a => Leaders(p) = {party[p].owner})
    BY <1>2, OwnersLead DEF Live
  <1>6. CASE TransferDemote(r)
    <2>1. u \in Leaders(a) /\ v \in Members(a)
      BY <1>2, <1>3, <1>6 DEF Sure, TransferDemote
    <2>2. u \in Members(a) /\ a \in Live
      BY <1>2, <2>1, LeadIsMember, LeadIsLive
    <2>3. Leaders(a) = {party[a].owner}
      BY <1>2, <1>6, <2>2, OwnersLead DEF TransferDemote, MovesLead
    <2>4. /\ WriteRole(a, u, "MEMBER") /\ UNCHANGED party
          /\ Go(r, [req[r] EXCEPT !.pc = "transfer.promote"])
      BY <1>2, <1>6, <2>2 DEF TransferDemote, SetMemberRole
    <2>5. /\ req'[r].pc = "transfer.promote" /\ req'[r].party = a
          /\ req'[r].user = u /\ req'[r].target = v
      <3>1. req'[r] = [req[r] EXCEPT !.pc = "transfer.promote"]
        BY <2>4 DEF Go, TypeOK
      <3> QED
        BY <1>4, <3>1
    <2>6. Leaders(a)' = {} /\ \A p \in Party \ {a} : Leaders(p)' = Leaders(p)
      BY <1>2, <2>1, <2>3, <2>4, LeadersWritten
    <2>7. v \in Members(a)'
      <3>1. role'[a][v] = IF v = u THEN "MEMBER" ELSE role[a][v]
        BY <1>2, <2>4, RoleCell
      <3> QED
        BY <2>1, <3>1 DEF Members
    <2>8. Live' = Live
      BY <2>4 DEF Live
    <2>9. party'[a].owner = u
      BY <2>1, <2>3, <2>4
    <2>10. Sure(req[r])'
      BY <1>2, <2>2, <2>5, <2>6, <2>7, <2>8, <2>9 DEF Sure, MovesLead
    <2> QED
      BY <1>2, <1>5, <2>4, <2>5, <2>6, <2>8, <2>10 DEF SerialStep, MovesLead
  <1>7. CASE TransferPromote(r)
    <2>1. /\ a \in Live /\ party[a].owner = u /\ Leaders(a) = {} /\ v \in Members(a)
      BY <1>2, <1>3, <1>7 DEF Sure, TransferPromote, MovesLead
    <2>2. /\ WriteRole(a, v, "LEADER") /\ UNCHANGED party
          /\ Go(r, [req[r] EXCEPT !.pc = "transfer.owner"])
      BY <1>2, <1>7, <2>1 DEF TransferPromote, SetMemberRole
    <2>3. /\ req'[r].pc = "transfer.owner" /\ req'[r].party = a
          /\ req'[r].user = u /\ req'[r].target = v
      <3>1. req'[r] = [req[r] EXCEPT !.pc = "transfer.owner"]
        BY <2>2 DEF Go, TypeOK
      <3> QED
        BY <1>4, <3>1
    <2>4. Leaders(a)' = {v} /\ \A p \in Party \ {a} : Leaders(p)' = Leaders(p)
      BY <1>2, <2>1, <2>2, LeadersWritten
    <2>5. Live' = Live /\ party'[a].owner = u
      BY <2>1, <2>2 DEF Live
    <2>6. Sure(req[r])'
      BY <1>2, <2>1, <2>3, <2>4, <2>5 DEF Sure, MovesLead
    <2> QED
      BY <1>2, <1>5, <2>2, <2>3, <2>4, <2>5, <2>6 DEF SerialStep, MovesLead
  <1>8. CASE TransferOwner(r)
    <2>1. a \in Live /\ Leaders(a) = {v}
      BY <1>2, <1>3, <1>8 DEF Sure, TransferOwner, MovesLead
    <2>2. party' = [party EXCEPT ![a].owner = v] /\ UNCHANGED role /\ Done(r)
      BY <1>2, <1>8, <2>1 DEF TransferOwner
    <2>3. \A p \in Party : party'[p] = IF p = a THEN [party[a] EXCEPT !.owner = v] ELSE party[p]
      BY <2>2 DEF TypeOK
    <2>4. [party[a] EXCEPT !.owner = v].owner = v
      BY <2>1, LiveRow
    <2>5. \A p \in Live' : p \in Party /\ (p = a \/ p \in Live)
      BY <2>3 DEF Live
    <2>6. \A p : Leaders(p)' = Leaders(p)
      BY <2>2 DEF Leaders
    <2>7. \A p \in Live' : Leaders(p)' = {party'[p].owner}
      BY <1>5, <2>1, <2>3, <2>4, <2>5, <2>6
    <2> QED
      BY <2>2, <2>7, Finished DEF SerialStep
  <1> QED
    BY <1>6, <1>7, <1>8

\* A row that is new, has other settings or is gone.
LEMMA SerialRows ==
  ASSUME Alone, TypeOK, NoOrphans, FreshIds, OwnerLeads, NEW r \in Req,
         CreateRow(r) \/ LeaveDelete(r) \/ SettingsUpdate(r)
  PROVE  \A p \in Live' : Leaders(p)' = {party'[p].owner}
  <1>1. \A p \in Live : p \in Party /\ Leaders(p) = {party[p].owner}
    BY OwnersLead DEF CreateRow, LeaveDelete, SettingsUpdate, MovesLead, Live
  <1>2. CASE CreateRow(r)
    <2>1. PICK a \in Party, u \in User : a = req[r].party /\ u = req[r].user
      BY <1>2, Fields DEF CreateRow, Creating, TypeOK
    <2>2. a \notin Live
      BY <1>2, <2>1 DEF CreateRow, FreshIds
    <2>3. Leaders(a) = {}
      BY <2>1, <2>2, LeadIsMember DEF NoOrphans
    <2>4. /\ WriteRole(a, u, "LEADER")
          /\ \A p \in Party \ {a} : party'[p] = party[p]
          /\ party'[a].owner = u
      BY <1>2, <2>1 DEF CreateRow, TypeOK
    <2>5. Leaders(a)' = {u} /\ \A p \in Party \ {a} : Leaders(p)' = Leaders(p)
      BY <2>1, <2>3, <2>4, LeadersWritten
    <2>6. \A p \in Live' : p \in Party /\ (p = a \/ p \in Live)
      BY <2>4 DEF Live
    <2> QED
      BY <1>1, <2>4, <2>5, <2>6
  <1>3. CASE LeaveDelete(r)
    <2> DEFINE a == req[r].party
    <2>1. \A p \in Party : /\ party'[p] = IF p = a THEN NoParty ELSE party[p]
                           /\ p # a => role'[p] = role[p]
      BY <1>3 DEF LeaveDelete, DeleteRows
    <2>2. \A p \in Live' : p \in Live /\ p # a
      BY <2>1 DEF Live, NoParty
    <2>3. \A p \in Party : p # a => Leaders(p)' = Leaders(p)
      BY <2>1 DEF Leaders
    <2> QED
      BY <1>1, <2>1, <2>2, <2>3
  <1>4. CASE SettingsUpdate(r)
    <2> DEFINE a == req[r].party
    <2>1. \/ UNCHANGED party
          \/ a \in Live /\ party' = [party EXCEPT ![a].settings = req[r].value]
      BY <1>4, Zenon DEF SettingsUpdate
    <2>2. ASSUME NEW p \in Live'
          PROVE  p \in Live /\ party'[p].owner = party[p].owner
      <3>1. p \in Party
        BY DEF Live
      <3>2. CASE party'[p] = party[p]
        BY <3>1, <3>2 DEF Live
      <3>3. CASE p = a /\ a \in Live /\ party'[p] = [party[p] EXCEPT !.settings = req[r].value]
        <4>1. [party[p] EXCEPT !.settings = req[r].value].owner = party[p].owner
          BY <3>3, LiveRow
        <4> QED
          BY <3>3, <4>1
      <3> QED
        BY <2>1, <3>1, <3>2, <3>3 DEF TypeOK
    <2>3. \A p : Leaders(p)' = Leaders(p)
      BY <1>4 DEF SettingsUpdate, Leaders
    <2> QED
      BY <1>1, <2>2, <2>3
  <1> QED
    BY <1>2, <1>3, <1>4

\* Where a party goes when its owner deletes his account, and who leads it then.
LEMMA HandedOver ==
  ASSUME TypeOK, NEW p \in Live, NEW u \in User, Leaders(p) = {u}, NEW heirs,
         NEW w \in User, <<p, w>> \in heirs, w # u,
         \A v \in User : <<p, v>> \in heirs => v = w
  PROVE  /\ HandedRow(p, heirs).owner = w
         /\ \A v \in User : HandedRole(u, heirs)[p][v] = "LEADER" <=> v = w
  <1>1. HandedRow(p, heirs) = [party[p] EXCEPT !.owner = w]
    BY DEF HandedRow
  <1>2. [party[p] EXCEPT !.owner = w].owner = w
    BY LiveRow
  <1>3. ASSUME NEW v \in User
        PROVE  HandedRole(u, heirs)[p][v] =
                 IF v = w THEN "LEADER" ELSE IF v = u THEN "MEMBER" ELSE role[p][v]
    BY DEF HandedRole, Live
  <1>4. \A v \in User : role[p][v] = "LEADER" => v = u
    BY DEF Leaders
  <1> QED
    BY <1>1, <1>2, <1>3, <1>4

LEMMA SerialCommit ==
  ASSUME Alone, TypeOK, OwnerLeads, Known, NEW r \in Req, AccountCommit(r)
  PROVE  \A p \in Live' : Leaders(p)' = {party'[p].owner}
  <1>1. PICK u \in User, heirs \in SUBSET (Party \X User), doomed \in SUBSET Party :
          u = req[r].user /\ heirs = req[r].heirs /\ doomed = req[r].doomed
    BY Fields DEF AccountCommit, Closing, TypeOK
  <1>2. \A p \in Live : p \in Party /\ Leaders(p) = {party[p].owner}
    BY OwnersLead DEF AccountCommit, MovesLead, Live
  <1>3. /\ \A p \in Party, v \in User : <<p, v>> \in heirs =>
             p \in OwnedBy(u) \ doomed /\ v \in Members(p) \ {u}
        /\ \A p \in Party, v, w \in User : <<p, v>> \in heirs /\ <<p, w>> \in heirs => v = w
    BY <1>1 DEF Known, Sure, AccountCommit
  <1>4. CASE ~CanCommit(u, heirs, doomed)
    <2>1. UNCHANGED <<party, role>>
      BY <1>1, <1>4 DEF AccountCommit
    <2> QED
      BY <1>2, <2>1 DEF Live, Leaders
  <1>5. CASE CanCommit(u, heirs, doomed)
    <2>1. \A p \in Party : /\ party'[p] = IF p \in doomed THEN NoParty ELSE HandedRow(p, heirs)
                           /\ p \notin doomed => role'[p] = HandedRole(u, heirs)[p]
      BY <1>1, <1>5 DEF AccountCommit
    <2> SUFFICES ASSUME NEW p \in Live'
                 PROVE  Leaders(p)' = {party'[p].owner}
      OBVIOUS
    <2>2. p \in Party /\ p \notin doomed
      BY <2>1 DEF Live, NoParty
    <2>3. p \in Live
      BY <2>1, <2>2, RowHanded DEF Live
    <2>4. /\ party'[p] = HandedRow(p, heirs)
          /\ Leaders(p)' = {v \in User : HandedRole(u, heirs)[p][v] = "LEADER"}
      BY <2>1, <2>2 DEF Leaders
    <2>5. CASE \E w \in User : <<p, w>> \in heirs
      <3>1. PICK w \in User : <<p, w>> \in heirs
        BY <2>5
      <3>2. w # u /\ Leaders(p) = {u} /\ \A v \in User : <<p, v>> \in heirs => v = w
        BY <1>2, <1>3, <2>2, <2>3, <3>1 DEF OwnedBy
      <3> QED
        BY <2>3, <2>4, <3>1, <3>2, HandedOver
    <2>6. CASE ~\E w \in User : <<p, w>> \in heirs
      <3>1. HandedRow(p, heirs) = party[p] /\ \A v \in User : HandedRole(u, heirs)[p][v] = role[p][v]
        BY <2>2, <2>6 DEF HandedRow, HandedRole
      <3> QED
        BY <1>2, <2>3, <2>4, <3>1 DEF Leaders
    <2> QED
      BY <2>5, <2>6
  <1> QED
    BY <1>4, <1>5

LEMMA SerialProceeds ==
  ASSUME Alone, TypeOK, NoOrphans, FreshIds, OwnerLeads, Known, NEW r \in Req, Proceed(r)
  PROVE  SerialStep(r)
  <1>1. CASE TransferDemote(r) \/ TransferPromote(r) \/ TransferOwner(r)
    BY <1>1, SerialTransfers
  <1>2. CASE UNCHANGED <<party, role>> /\ req[r].pc \notin MovesLead
    BY <1>2, SerialReads
  <1>3. CASE \/ RespondTx(r) \/ KickRemove(r) \/ CreateRow(r) \/ LeaveDelete(r) \/ SettingsUpdate(r)
    <2>1. Done(r)
      BY <1>3 DEF RespondTx, KickRemove, CreateRow, LeaveDelete, SettingsUpdate
    <2>2. \A p \in Live' : Leaders(p)' = {party'[p].owner}
      BY <1>3, SerialRoles, SerialRows
    <2> QED
      BY <2>1, <2>2, Finished DEF SerialStep
  <1>4. CASE LeaveRemove(r)
    <2>1. \A p \in Live' : Leaders(p)' = {party'[p].owner}
      BY <1>4, SerialRoles
    <2>2. Done(r) \/ req'[r] = [req[r] EXCEPT !.pc = "leave.count"]
      BY <1>4, WentTo DEF LeaveRemove
    <2>3. req[r] \in Leaving
      BY <1>4, Fields DEF LeaveRemove, TypeOK
    <2>4. ASSUME req'[r] = [req[r] EXCEPT !.pc = "leave.count"]
          PROVE  Sure(req[r])'
      <3>1. req'[r].pc = "leave.count"
        BY <2>3, <2>4 DEF Leaving
      <3> QED
        BY <3>1 DEF Sure, MovesLead
    <2> QED
      BY <2>1, <2>2, <2>4, Finished DEF SerialStep
  <1>5. CASE AccountCommit(r)
    <2>1. \A p \in Live' : Leaders(p)' = {party'[p].owner}
      BY <1>5, SerialCommit
    <2>2. Done(r) \/ req'[r] = [pc |-> "account.close", user |-> req[r].user, doomed |-> req[r].doomed]
      BY <1>5, WentTo DEF AccountCommit
    <2>3. ASSUME req'[r] = [pc |-> "account.close", user |-> req[r].user, doomed |-> req[r].doomed]
          PROVE  Sure(req[r])'
      <3>1. req'[r].pc = "account.close"
        BY <2>3
      <3> QED
        BY <3>1 DEF Sure, MovesLead
    <2> QED
      BY <2>1, <2>2, <2>3, Finished DEF SerialStep
  <1>6. \/ UNCHANGED <<party, role>> /\ req[r].pc \notin MovesLead
        \/ RespondTx(r) \/ KickRemove(r) \/ CreateRow(r) \/ LeaveDelete(r) \/ SettingsUpdate(r)
        \/ LeaveRemove(r) \/ AccountCommit(r)
        \/ TransferDemote(r) \/ TransferPromote(r) \/ TransferOwner(r)
    BY DEF Proceed, CreateRoom, InviteTargets, InviteNobody, InviteCheck, InviteInsert, InviteNotify,
           InviteDone, LeaveCount, LeaveClose, TransferTarget, VoiceUpdate, AccountPlan,
           AccountClose, MovesLead
  <1> QED
    BY <1>1, <1>2, <1>3, <1>4, <1>5, <1>6

\* Without overlap a request stays right about the party it has looked at.
THEOREM Serially == ASSUME Alone PROVE Spec => []SerialInv
<1>1. Init => SerialInv
  BY DEF Init, SerialInv, OwnerLeads, Known, Sure, Live, NoParty, Idle, MovesLead
<1>2. TypeOK /\ NoOrphans /\ FreshIds /\ SerialInv /\ [Next]_vars => SerialInv'
  <2> SUFFICES ASSUME TypeOK, NoOrphans, FreshIds, SerialInv, [Next]_vars
               PROVE  SerialInv'
    OBVIOUS
  <2>1. OwnerLeads /\ Known
    BY DEF SerialInv
  <2>2. ASSUME NEW r \in Req, NEW u \in User, Arrive(r, u)
        PROVE  SerialInv'
    BY <2>1, <2>2, SerialArrivals, StepEnough
  <2>3. ASSUME NEW r \in Req, Proceed(r)
        PROVE  SerialInv'
    BY <2>1, <2>3, SerialProceeds, StepEnough
  <2>4. CASE UNCHANGED vars
    BY <2>1, <2>4 DEF vars, SerialInv, OwnerLeads, Known, Sure, Live, Leaders, Members, OwnedBy,
                      Transferring, MovesLead
  <2> QED
    BY <2>2, <2>3, <2>4 DEF Next
<1> QED
  BY <1>1, <1>2, Typing, Orphans, Freshness, PTL DEF Spec

\* As long as no request overlaps another, every party has one leader, its owner: what
\* create, transferOwnership and deleteAccount each write in several statements.
THEOREM Leads == ASSUME Alone PROVE Spec => []OwnerLeads
<1>1. SerialInv => OwnerLeads
  BY DEF SerialInv
<1> QED
  BY <1>1, Serially, PTL

\* Who acts on p when it changes, loses its row, or loses a member other than who acts.
Decided(p) ==
  (party'[p] # party[p] \/ \E v \in Members(p) \ Actors : role'[p][v] = "none")
    => party[p].owner \in Actors

LEMMA Decisions ==
  ASSUME Alone, TypeOK, NoOrphans, FreshIds, OwnerLeads, Known, [Next]_vars, NEW p \in Live
  PROVE  Decided(p)
  <1>0. p \in Party
    BY DEF Live
  <1>1. ASSUME NEW r \in Req, req[r].pc # "idle"
        PROVE  req[r].user \in Actors
    BY <1>1 DEF Actors
  <1>2. ASSUME NEW r \in Req, req[r].pc # "idle", req[r].user = party[p].owner
        PROVE  Decided(p)
    BY <1>1, <1>2 DEF Decided
  <1>3. ASSUME party'[p] = party[p], \A v \in Members(p) \ Actors : role'[p][v] # "none"
        PROVE  Decided(p)
    BY <1>3 DEF Decided
  <1>4. CASE UNCHANGED <<party, role>>
    BY <1>3, <1>4 DEF Members
  <1>5. \A r \in Req : Sure(req[r])
    BY DEF Known
  <1>6. ASSUME NEW r \in Req, RespondTx(r) \/ LeaveRemove(r) \/ TransferDemote(r) \/ TransferPromote(r)
        PROVE  Decided(p)
    <2>1. UNCHANGED party
      BY <1>6 DEF RespondTx, LeaveRemove, TransferDemote, TransferPromote, SetMemberRole
    <2>2. /\ req[r].party \in Party /\ req[r].user \in User /\ req[r].pc # "idle"
          /\ TransferPromote(r) => req[r].target \in User
      BY <1>6, Fields DEF RespondTx, LeaveRemove, TransferDemote, TransferPromote, Responding,
                          Leaving, Leading, TypeOK
    <2>3. \/ UNCHANGED role \/ WriteRole(req[r].party, req[r].user, "none")
          \/ \E b \in User, x \in {"MEMBER", "LEADER"} : WriteRole(req[r].party, b, x)
      BY <1>6, <2>2 DEF RespondTx, LeaveRemove, RemoveRow, TransferDemote, TransferPromote, SetMemberRole
    <2>4. ASSUME NEW v \in Members(p) \ Actors
          PROVE  role'[p][v] # "none"
      <3>1. v # req[r].user /\ v \in User /\ role[p][v] # "none"
        BY <1>1, <2>2 DEF Members
      <3> QED
        BY <1>0, <2>2, <2>3, <3>1, RoleCell
    <2> QED
      BY <1>3, <2>1, <2>4
  <1>7. ASSUME NEW r \in Req, CreateRow(r)
        PROVE  Decided(p)
    <2>1. req[r].party \in Party /\ req[r].user \in User
      BY <1>7, Fields DEF CreateRow, Creating, TypeOK
    <2>2. party'[p] = party[p] /\ WriteRole(req[r].party, req[r].user, "LEADER")
      BY <1>0, <1>7, <2>1 DEF CreateRow, FreshIds, TypeOK
    <2>3. \A v \in Members(p) : role'[p][v] # "none"
      BY <1>0, <2>1, <2>2, RoleCell DEF Members
    <2> QED
      BY <1>3, <2>2, <2>3
  <1>8. ASSUME NEW r \in Req, LeaveDelete(r) \/ KickRemove(r) \/ TransferOwner(r) \/ SettingsUpdate(r)
        PROVE  Decided(p)
    <2>1. req[r].pc # "idle"
      BY <1>8 DEF LeaveDelete, KickRemove, TransferOwner, SettingsUpdate
    <2>2. CASE req[r].party = p
      <3>1. LeaveDelete(r) \/ TransferOwner(r) => party[p].owner = req[r].user
        BY <1>5, <2>2 DEF Sure, LeaveDelete, TransferOwner, MovesLead
      <3>2. KickRemove(r) \/ SettingsUpdate(r) => req[r].user \in Leaders(p) /\ req[r].pc \notin MovesLead
        BY <1>5, <2>2 DEF Sure, KickRemove, SettingsUpdate, MovesLead
      <3> QED
        BY <1>2, <1>8, <2>1, <3>1, <3>2, OwnersLead
    <2>3. CASE req[r].party # p
      <3>1. party'[p] = party[p]
        BY <1>0, <1>8, <2>3 DEF LeaveDelete, DeleteRows, KickRemove, TransferOwner, SettingsUpdate, TypeOK
      <3>2. role'[p] = role[p]
        BY <1>0, <1>8, <2>3 DEF LeaveDelete, DeleteRows, KickRemove, RemoveRow, WriteRole, TransferOwner,
                          SettingsUpdate, TypeOK
      <3> QED
        BY <1>3, <3>1, <3>2 DEF Members
    <2> QED
      BY <2>2, <2>3
  <1>9. ASSUME NEW r \in Req, AccountCommit(r)
        PROVE  Decided(p)
    <2>1. PICK u \in User, heirs \in SUBSET (Party \X User), doomed \in SUBSET Party :
            u = req[r].user /\ heirs = req[r].heirs /\ doomed = req[r].doomed
      BY <1>9, Fields DEF AccountCommit, Closing, TypeOK
    <2>2. /\ doomed \subseteq OwnedBy(u)
          /\ \A q \in Party, v \in User : <<q, v>> \in heirs => q \in OwnedBy(u)
      <3>1. Sure(req[r]) /\ req[r].pc = "account.commit"
        BY <1>5, <1>9 DEF AccountCommit
      <3>2. doomed = {q \in OwnedBy(u) : Members(q) \ {u} = {}}
        BY <2>1, <3>1 DEF Sure
      <3>3. \A q \in Party, v \in User : <<q, v>> \in heirs => q \in OwnedBy(u)
        BY <2>1, <3>1 DEF Sure
      <3> QED
        BY <3>2, <3>3
    <2>3. CASE p \in OwnedBy(u)
      BY <1>2, <1>9, <2>1, <2>3 DEF OwnedBy, AccountCommit
    <2>4. CASE p \notin OwnedBy(u)
      <3>1. p \notin doomed /\ \A v \in User : <<p, v>> \notin heirs
        BY <1>0, <2>2, <2>4
      <3>2. /\ HandedRow(p, heirs) = party[p]
            /\ \A v \in User : HandedRole(u, heirs)[p][v] = role[p][v]
        BY <1>0, <3>1 DEF HandedRow, HandedRole
      <3>3. party'[p] = party[p] /\ \A v \in User : role'[p][v] = role[p][v]
        BY <1>0, <1>9, <2>1, <3>1, <3>2 DEF AccountCommit
      <3> QED
        BY <1>3, <3>3 DEF Members
    <2> QED
      BY <2>3, <2>4
  <1>10. ASSUME NEW r \in Req, NEW v \in User, NEW i \in Invite, InviteInsert(r, v, i)
         PROVE  UNCHANGED <<party, role>>
    BY <1>10 DEF InviteInsert
  <1> QED
    BY <1>4, <1>6, <1>7, <1>8, <1>9, <1>10, Writers

\* As long as no request overlaps another, only the owner changes or ends his party or
\* takes somebody else out of it (assertLeader, and the read of leave).
THEOREM Decides == ASSUME Alone PROVE Spec => OwnerDecides
<1>1. TypeOK /\ NoOrphans /\ FreshIds /\ SerialInv /\ [Next]_vars => [\A p \in Live :
        (party'[p] # party[p] \/ \E v \in Members(p) \ Actors : role'[p][v] = "none")
          => party[p].owner \in Actors]_vars
  BY Decisions DEF SerialInv, Decided
<1> QED
  BY <1>1, Typing, Orphans, Freshness, Serially, PTL DEF Spec, OwnerDecides

\* An account is deleted by the commit of its transaction only.
LEMMA Deletions ==
  ASSUME [Next]_vars, NEW u \in deleted' \ deleted
  PROVE  \E r \in Req : /\ AccountCommit(r) /\ req[r].user = u
                       /\ CanCommit(u, req[r].heirs, req[r].doomed)
  <1>1. ASSUME NEW r \in Req, NEW w \in User, Arrive(r, w)
        PROVE  UNCHANGED deleted
    BY <1>1 DEF Arrive, CreateCheck, InviteOne, InviteAll, RespondCheck, LeaveCheck, KickCheck,
                TransferCheck, SettingsCheck, LeaderCheck, VoiceCheck, AccountCheck
  <1>2. ASSUME NEW r \in Req, Proceed(r)
        PROVE  AccountCommit(r) \/ UNCHANGED deleted
    BY <1>2 DEF Proceed, CreateRoom, CreateRow, InviteTargets, InviteNobody, InviteCheck, InviteInsert,
                InviteNotify, InviteDone, RespondTx, LeaveRemove, LeaveCount, LeaveClose, LeaveDelete,
                KickRemove, TransferTarget, TransferDemote, TransferPromote, TransferOwner,
                SetMemberRole, SettingsUpdate, VoiceUpdate, AccountPlan, AccountClose
  <1>3. PICK r \in Req : AccountCommit(r)
    BY <1>1, <1>2 DEF Next, vars
  <1> QED
    BY <1>3 DEF AccountCommit

Handover(u, p) ==
  LET others == Members(p) \ {u}
  IN IF others = {} THEN p \notin Live'
     ELSE p \in Live' /\ party'[p].owner \in others /\ role'[p][party'[p].owner] = "LEADER"

LEMMA Handovers ==
  ASSUME Alone, TypeOK, OwnerLeads, Known, [Next]_vars, NEW u \in deleted' \ deleted,
         NEW p \in OwnedBy(u)
  PROVE  Handover(u, p)
  <1>1. PICK r \in Req : /\ AccountCommit(r) /\ req[r].user = u
                         /\ CanCommit(u, req[r].heirs, req[r].doomed)
    BY Deletions
  <1>2. PICK heirs \in SUBSET (Party \X User), doomed \in SUBSET Party :
          u \in User /\ heirs = req[r].heirs /\ doomed = req[r].doomed
    BY <1>1, Fields DEF AccountCommit, Closing, TypeOK
  <1>3. p \in Party /\ p \in Live /\ Leaders(p) = {u}
    BY <1>1, OwnersLead DEF AccountCommit, MovesLead, OwnedBy, Live
  <1>4. Sure(req[r]) /\ req[r].pc = "account.commit"
    BY <1>1 DEF Known, AccountCommit
  <1>5. /\ p \in doomed <=> Members(p) \ {u} = {}
        /\ \A v \in User : <<p, v>> \in heirs => v \in Members(p) \ {u}
        /\ \A v, w \in User : <<p, v>> \in heirs /\ <<p, w>> \in heirs => v = w
        /\ p \notin doomed => \E w \in User : <<p, w>> \in heirs
    BY <1>1, <1>2, <1>3, <1>4 DEF Sure
  <1>6. /\ party'[p] = IF p \in doomed THEN NoParty ELSE HandedRow(p, heirs)
        /\ p \notin doomed => role'[p] = HandedRole(u, heirs)[p]
    BY <1>1, <1>2, <1>3 DEF AccountCommit
  <1>7. CASE p \in doomed
    BY <1>5, <1>6, <1>7 DEF Handover, Live, NoParty
  <1>8. CASE p \notin doomed
    <2>1. PICK w \in User : <<p, w>> \in heirs
      BY <1>5, <1>8
    <2>2. w \in Members(p) \ {u} /\ \A v \in User : <<p, v>> \in heirs => v = w
      BY <1>5, <2>1
    <2>3. party'[p].owner = w /\ role'[p][w] = "LEADER"
      BY <1>2, <1>3, <1>6, <1>8, <2>1, <2>2, HandedOver
    <2>4. p \in Live'
      BY <1>3, <1>6, <1>8, RowHanded DEF Live
    <2> QED
      BY <1>5, <1>8, <2>2, <2>3, <2>4 DEF Handover
  <1> QED
    BY <1>7, <1>8

\* As long as no request overlaps another, deleteAccount ends the parties its user has to
\* himself and hands each of the others to one of its members, who leads it.
THEOREM HandsOver == ASSUME Alone PROVE Spec => DeletionHandsOver
<1>1. TypeOK /\ SerialInv /\ [Next]_vars => [\A u \in deleted' \ deleted : \A p \in OwnedBy(u) :
        LET others == Members(p) \ {u}
        IN IF others = {} THEN p \notin Live'
           ELSE p \in Live' /\ party'[p].owner \in others /\ role'[p][party'[p].owner] = "LEADER"]_vars
  BY Handovers DEF SerialInv, Handover
<1> QED
  BY <1>1, Typing, Serially, PTL DEF Spec, DeletionHandsOver

=============================================================================
