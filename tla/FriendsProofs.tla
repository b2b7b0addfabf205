--------------------------- MODULE FriendsProofs ---------------------------
(***************************************************************************)
(* Proofs about module Friends: the tables stay well-typed, nothing         *)
(* happens without its notification, and the tables implement module       *)
(* Consent.                                                                *)
(***************************************************************************)
EXTENDS Friends, TLAPS

LEMMA Steps ==
  ASSUME NEW u \in User, NEW v \in User
  PROVE /\ Idle \in Request
        /\ \A pc \in {"send.friends", "send.between", "send.create", "send.notify",
                      "accept.tx", "accept.notify", "decline.update", "cancel.update",
                      "remove.delete", "block.friends", "block.remove", "block.create"} :
             Step(pc, u, v) \in Request
        /\ \A pin \in BOOLEAN :
             [pc |-> "pin.update", from |-> u, to |-> v, pin |-> pin] \in Request
  BY DEF Request, Idle, Step, Sending, Answering, Parting, Pinning

\* The slot of the request that took the step holds its next one, the others
\* what they held.
LEMMA Goes ==
  ASSUME NEW r \in Req, req \in [Req -> Request], NEW next \in Request, Go(r, next)
  PROVE /\ req' \in [Req -> Request]
        /\ req'[r] = next
        /\ \A s \in Req : s # r => req'[s] = req[s]
  BY DEF Go

LEMMA StatusWritten ==
  ASSUME NEW u \in User, NEW v \in User, NEW status \in Status,
         request \in [User -> [User -> Status]], SetStatus(u, v, status)
  PROVE /\ request' \in [User -> [User -> Status]]
        /\ \A s, t \in User :
             request'[s][t] = IF s = u /\ t = v THEN status ELSE request[s][t]
  BY DEF SetStatus

\* What the writes to Friendship mean to the pairs of friends.
LEMMA Dropped ==
  ASSUME NEW u \in User, NEW v \in User, friendship \in SUBSET Row, DropFriendship(u, v)
  PROVE friendship' \in SUBSET Row /\ friends' = friends \ {{u, v}}
  BY DEF DropFriendship, friends

LEMMA Befriended ==
  ASSUME NEW u \in User, NEW v \in User, u # v, friendship \in SUBSET Row, Befriend(u, v)
  PROVE friendship' \in SUBSET Row /\ friends' = friends \cup {{u, v}}
<1>1. [between |-> {u, v}, pinned |-> {}] \in Row
  BY DEF Row, Pairs
<1>2. friendship' \in SUBSET Row
  BY <1>1 DEF Befriend
<1>3. friends' = friends \cup {{u, v}}
  <2> DEFINE new == [between |-> {u, v}, pinned |-> {}]
  <2>1. friendship' = friendship \cup {new} /\ new.between = {u, v}
    BY DEF Befriend
  <2> HIDE DEF new
  <2> QED  BY <2>1 DEF friends
<1> QED  BY <1>2, <1>3

LEMMA PinKeeps ==
  ASSUME NEW row \in Row, NEW u \in User, NEW pin \in BOOLEAN
  PROVE Pinned(row, u, pin) \in Row /\ Pinned(row, u, pin).between = row.between
  BY DEF Pinned, Row

LEMMA Repinned ==
  ASSUME NEW r \in Req, NEW u \in User, NEW v \in User,
         friendship \in SUBSET Row, req \in [Req -> Request], PinUpdate(r, u, v)
  PROVE friendship' \in SUBSET Row /\ friends' = friends
<1> DEFINE New(row) == IF row.between = {u, v} THEN Pinned(row, u, req[r].pin) ELSE row
<1>1. req[r].pin \in BOOLEAN
  BY DEF PinUpdate, At, Request, Idle, Sending, Answering, Parting, Pinning
<1>2. ASSUME NEW row \in friendship
      PROVE New(row) \in Row /\ New(row).between = row.between
  BY <1>1, PinKeeps
<1>3. friendship' = {New(row) : row \in friendship}
  BY DEF PinUpdate
<1> HIDE DEF New
<1>4. friendship' \in SUBSET Row
  BY <1>2, <1>3
<1>5. friends' = friends
  BY <1>2, <1>3 DEF friends
<1> QED  BY <1>4, <1>5

-----------------------------------------------------------------------------
(* The invariant, in a part about the tables and one about the requests.   *)

TablesOK ==
  /\ request \in [User -> [User -> Status]]
  /\ friendship \in SUBSET Row /\ blocked \in SUBSET (User \X User)
  /\ notified \in SUBSET ({"asked", "accepted"} \X User \X User)
  /\ \A u \in User : request[u][u] = "none"

SlotsOK ==
  /\ req \in [Req -> Request]
  /\ \A r \in Req : req[r].pc # "idle" => req[r].from # req[r].to

Inv == TablesOK /\ SlotsOK

LEMMA InvMeans == Inv <=> TypeOK /\ Apart
  BY DEF Inv, TablesOK, SlotsOK, TypeOK, Apart

LEMMA SlotsGo ==
  ASSUME SlotsOK, NEW r \in Req, NEW next \in Request, Go(r, next),
         next.pc # "idle" => next.from # next.to
  PROVE SlotsOK'
<1>1. req' \in [Req -> Request]
  BY Goes DEF SlotsOK
<1>2. ASSUME NEW s \in Req, req'[s].pc # "idle" PROVE req'[s].from # req'[s].to
  BY <1>2, Goes DEF SlotsOK
<1> QED  BY <1>1, <1>2 DEF SlotsOK

LEMMA SlotsDone ==
  ASSUME SlotsOK, NEW r \in Req, Done(r)
  PROVE SlotsOK'
<1>1. Idle \in Request
  BY DEF Request
<1> QED  BY <1>1, SlotsGo DEF Done, Idle

LEMMA SlotsStep ==
  ASSUME SlotsOK, NEW r \in Req, NEW u \in User, NEW v \in User, u # v,
         NEW pc \in {"send.friends", "send.between", "send.create", "send.notify",
                     "accept.tx", "accept.notify", "decline.update", "cancel.update",
                     "remove.delete", "block.friends", "block.remove", "block.create"},
         Go(r, Step(pc, u, v))
  PROVE SlotsOK'
<1>1. Step(pc, u, v) \in Request
  BY Steps
<1> QED  BY <1>1, SlotsGo DEF Step

LEMMA SlotApart ==
  ASSUME SlotsOK, NEW r \in Req, NEW u, NEW v, NEW pc, pc # "idle", At(r, pc, u, v)
  PROVE u # v
  BY DEF SlotsOK, At

LEMMA TablesSame ==
  ASSUME TablesOK, UNCHANGED tables
  PROVE TablesOK'
  BY DEF TablesOK, tables

LEMMA TablesStatus ==
  ASSUME TablesOK, NEW u \in User, NEW v \in User, u # v, NEW status \in Status,
         SetStatus(u, v, status), UNCHANGED <<friendship, blocked, notified>>
  PROVE TablesOK'
<1>1. request' \in [User -> [User -> Status]] /\ \A w \in User : request'[w][w] = "none"
  BY StatusWritten DEF TablesOK
<1> QED  BY <1>1 DEF TablesOK

LEMMA InitInv == Init => Inv
  BY DEF Init, Inv, TablesOK, SlotsOK, Status, Request, Idle

LEMMA ArriveInv ==
  ASSUME Inv, NEW r \in Req, NEW u \in User, NEW v \in User, Arrive(r, u, v)
  PROVE Inv'
<1> USE DEF Inv
<1>0. UNCHANGED tables => TablesOK'
  BY TablesSame
<1>1. CASE SendCheck(r, u, v)
  BY <1>0, <1>1, SlotsStep DEF SendCheck
<1>2. CASE AcceptCheck(r, u, v)
  <2>1. u # v
    BY <1>2 DEF AcceptCheck, TablesOK
  <2> QED  BY <1>0, <1>2, <2>1, SlotsStep DEF AcceptCheck
<1>3. ASSUME NEW pc \in {"decline.update", "cancel.update"}, RetractCheck(r, u, v, pc)
      PROVE Inv'
  <2>1. u # v
    BY <1>3 DEF RetractCheck, TablesOK
  <2> QED  BY <1>0, <1>3, <2>1, SlotsStep DEF RetractCheck
<1>4. CASE RemoveCheck(r, u, v)
  BY <1>0, <1>4, SlotsStep DEF RemoveCheck
<1>5. ASSUME NEW pin \in BOOLEAN, PinCheck(r, u, v, pin)
      PROVE Inv'
  <2> DEFINE next == [pc |-> "pin.update", from |-> u, to |-> v, pin |-> pin]
  <2>1. next \in Request
    BY Steps
  <2>2. next.from # next.to
    BY <1>5 DEF PinCheck
  <2>3. Go(r, next) /\ UNCHANGED tables
    BY <1>5 DEF PinCheck
  <2> HIDE DEF next
  <2> QED  BY <1>0, <2>1, <2>2, <2>3, SlotsGo
<1>6. CASE BlockCheck(r, u, v)
  BY <1>0, <1>6, SlotsStep DEF BlockCheck
<1> QED  BY <1>1, <1>2, <1>3, <1>4, <1>5, <1>6 DEF Arrive

LEMMA SendingInv ==
  ASSUME Inv, NEW r \in Req, NEW u \in User, NEW v \in User,
         SendFriends(r, u, v) \/ SendBetween(r, u, v)
           \/ SendCreate(r, u, v) \/ SendNotify(r, u, v)
  PROVE Inv'
<1> USE DEF Inv
<1>0. UNCHANGED tables => TablesOK'
  BY TablesSame
<1>1. CASE SendFriends(r, u, v)
  <2>1. u # v
    BY <1>1, SlotApart DEF SendFriends
  <2> QED  BY <1>0, <1>1, <2>1, SlotsStep, SlotsDone DEF SendFriends
<1>2. CASE SendBetween(r, u, v)
  <2>1. u # v
    BY <1>2, SlotApart DEF SendBetween
  <2> QED  BY <1>0, <1>2, <2>1, SlotsStep, SlotsDone DEF SendBetween
<1>3. CASE SendCreate(r, u, v)
  <2>1. u # v
    BY <1>3, SlotApart DEF SendCreate
  <2>2. CASE request[u][v] = "none"
    <3>1. SetStatus(u, v, "PENDING") /\ UNCHANGED <<friendship, blocked, notified>>
          /\ Go(r, Step("send.notify", u, v))
      BY <1>3, <2>2 DEF SendCreate
    <3>2. TablesOK'
      BY <2>1, <3>1, TablesStatus DEF Status
    <3> QED  BY <2>1, <3>1, <3>2, SlotsStep
  <2>3. CASE request[u][v] # "none"
    <3>1. UNCHANGED tables /\ Done(r)
      BY <1>3, <2>3 DEF SendCreate, tables
    <3> QED  BY <1>0, <3>1, SlotsDone
  <2> QED  BY <2>2, <2>3
<1>4. CASE SendNotify(r, u, v)
  <2>1. TablesOK'
    BY <1>4 DEF SendNotify, TablesOK
  <2> QED  BY <1>4, <2>1, SlotsDone DEF SendNotify
<1> QED  BY <1>1, <1>2, <1>3, <1>4

LEMMA AnsweringInv ==
  ASSUME Inv, NEW r \in Req, NEW u \in User, NEW v \in User,
         AcceptTx(r, u, v) \/ AcceptNotify(r, u, v)
           \/ DeclineUpdate(r, u, v) \/ CancelUpdate(r, u, v)
  PROVE Inv'
<1> USE DEF Inv
<1>1. CASE AcceptTx(r, u, v)
  <2>1. u # v
    BY <1>1, SlotApart DEF AcceptTx
  <2>2. CASE request[u][v] = "PENDING" /\ {u, v} \notin friends
    <3>1. /\ SetStatus(u, v, "ACCEPTED") /\ Befriend(u, v)
          /\ Go(r, Step("accept.notify", u, v))
          /\ UNCHANGED <<blocked, notified>>
      BY <1>1, <2>2 DEF AcceptTx
    <3>2. request' \in [User -> [User -> Status]] /\ \A w \in User : request'[w][w] = "none"
      BY <2>1, <3>1, StatusWritten DEF TablesOK, Status
    <3>3. friendship' \in SUBSET Row
      BY <2>1, <3>1, Befriended DEF TablesOK
    <3>4. TablesOK'
      BY <3>1, <3>2, <3>3 DEF TablesOK
    <3> QED  BY <2>1, <3>1, <3>4, SlotsStep
  <2>3. CASE ~(request[u][v] = "PENDING" /\ {u, v} \notin friends)
    <3>1. UNCHANGED tables /\ Done(r)
      BY <1>1, <2>3 DEF AcceptTx, tables
    <3> QED  BY <3>1, TablesSame, SlotsDone
  <2> QED  BY <2>2, <2>3
<1>2. CASE AcceptNotify(r, u, v)
  <2>1. TablesOK'
    BY <1>2 DEF AcceptNotify, TablesOK
  <2> QED  BY <1>2, <2>1, SlotsDone DEF AcceptNotify
<1>3. CASE DeclineUpdate(r, u, v)
  <2>1. u # v
    BY <1>3, SlotApart DEF DeclineUpdate
  <2>2. TablesOK'
    BY <1>3, <2>1, TablesStatus DEF DeclineUpdate, Status
  <2> QED  BY <1>3, <2>2, SlotsDone DEF DeclineUpdate
<1>4. CASE CancelUpdate(r, u, v)
  <2>1. u # v
    BY <1>4, SlotApart DEF CancelUpdate
  <2>2. TablesOK'
    BY <1>4, <2>1, TablesStatus DEF CancelUpdate, Status
  <2> QED  BY <1>4, <2>2, SlotsDone DEF CancelUpdate
<1> QED  BY <1>1, <1>2, <1>3, <1>4

LEMMA PartingInv ==
  ASSUME Inv, NEW r \in Req, NEW u \in User, NEW v \in User,
         \/ RemoveDelete(r, u, v) \/ PinUpdate(r, u, v)
         \/ BlockFriends(r, u, v) \/ BlockRemove(r, u, v) \/ BlockCreate(r, u, v)
  PROVE Inv'
<1> USE DEF Inv
<1>0. DropFriendship(u, v) /\ UNCHANGED <<request, blocked, notified>> => TablesOK'
  BY Dropped DEF TablesOK
<1>1. CASE RemoveDelete(r, u, v)
  BY <1>0, <1>1, SlotsDone DEF RemoveDelete
<1>2. CASE PinUpdate(r, u, v)
  <2>1. friendship' \in SUBSET Row
    BY <1>2, Repinned DEF TablesOK, SlotsOK
  <2>2. TablesOK'
    BY <1>2, <2>1 DEF PinUpdate, TablesOK
  <2> QED  BY <1>2, <2>2, SlotsDone DEF PinUpdate
<1>3. CASE BlockFriends(r, u, v)
  <2>1. u # v
    BY <1>3, SlotApart DEF BlockFriends
  <2>2. TablesOK'
    BY <1>3, TablesSame DEF BlockFriends
  <2>3. SlotsOK'
    BY <1>3, <2>1, SlotsStep DEF BlockFriends
  <2> QED  BY <2>2, <2>3
<1>4. CASE BlockRemove(r, u, v)
  <2>1. u # v
    BY <1>4, SlotApart DEF BlockRemove
  <2>2. CASE {u, v} \in friends
    <3>1. DropFriendship(u, v) /\ UNCHANGED <<request, blocked, notified>>
          /\ Go(r, Step("block.create", u, v))
      BY <1>4, <2>2 DEF BlockRemove
    <3> QED  BY <1>0, <2>1, <3>1, SlotsStep
  <2>3. CASE {u, v} \notin friends
    <3>1. UNCHANGED tables /\ Done(r)
      BY <1>4, <2>3 DEF BlockRemove, tables
    <3> QED  BY <3>1, TablesSame, SlotsDone
  <2> QED  BY <2>2, <2>3
<1>5. CASE BlockCreate(r, u, v)
  <2>1. TablesOK'
    BY <1>5 DEF BlockCreate, TablesOK
  <2> QED  BY <1>5, <2>1, SlotsDone DEF BlockCreate
<1> QED  BY <1>1, <1>2, <1>3, <1>4, <1>5

LEMMA NextInv ==
  ASSUME Inv, [Next]_vars
  PROVE Inv'
<1>1. CASE UNCHANGED vars
  BY <1>1, TablesSame DEF vars, tables, Inv, SlotsOK
<1>2. ASSUME NEW u \in User, NEW v \in User, Unblock(u, v)
      PROVE Inv'
  BY <1>2 DEF Unblock, Inv, TablesOK, SlotsOK
<1>3. ASSUME NEW u \in User, NEW v \in User, NEW r \in Req, Proceed(r, u, v)
      PROVE Inv'
  BY <1>3, SendingInv, AnsweringInv, PartingInv DEF Proceed
<1> QED  BY <1>1, <1>2, <1>3, ArriveInv DEF Next

\* No step removes a request row.
LEMMA RowsKept ==
  ASSUME Inv, [Next]_vars
  PROVE \A s, t \in User : request[s][t] # "none" => request'[s][t] # "none"
<1>1. CASE request' = request
  BY <1>1
<1>2. ASSUME NEW u \in User, NEW v \in User, NEW status \in Status \ {"none"},
             SetStatus(u, v, status)
      PROVE \A s, t \in User : request[s][t] # "none" => request'[s][t] # "none"
  BY <1>2, StatusWritten DEF Inv, TablesOK
<1>3. ASSUME NEW r \in Req, NEW u \in User, NEW v \in User, Arrive(r, u, v)
      PROVE request' = request
  BY <1>3 DEF Arrive, SendCheck, AcceptCheck, RetractCheck, RemoveCheck, PinCheck, BlockCheck,
             tables
<1>4. ASSUME NEW r \in Req, NEW u \in User, NEW v \in User, Proceed(r, u, v)
      PROVE request' = request \/ \E status \in Status \ {"none"} : SetStatus(u, v, status)
  BY <1>4 DEF Proceed, SendFriends, SendBetween, SendCreate, SendNotify, AcceptTx, AcceptNotify,
             DeclineUpdate, CancelUpdate, RemoveDelete, PinUpdate, BlockFriends, BlockRemove,
             BlockCreate, tables, Status
<1> QED  BY <1>1, <1>2, <1>3, <1>4 DEF Next, Unblock, vars

\* The only way into the two last steps of a retraction is to have read the row.
LEMMA RowsRead ==
  ASSUME Inv, [Next]_vars, NEW s \in Req
  PROVE \/ req'[s] = req[s]
        \/ req'[s].pc \notin {"decline.update", "cancel.update"}
        \/ request[req'[s].from][req'[s].to] # "none"
<1> DEFINE Fine == \/ req'[s] = req[s]
                   \/ req'[s].pc \notin {"decline.update", "cancel.update"}
                   \/ request[req'[s].from][req'[s].to] # "none"
<1>1. CASE req' = req
  BY <1>1
<1>2. ASSUME NEW r \in Req, NEW next, Go(r, next),
             next.pc \in {"decline.update", "cancel.update"} => request[next.from][next.to] # "none"
      PROVE Fine
  <2>1. req'[s] = IF s = r THEN next ELSE req[s]
    BY <1>2 DEF Go, Inv, SlotsOK
  <2> QED  BY <1>2, <2>1
<1>3. ASSUME NEW r \in Req, Done(r)
      PROVE Fine
  BY <1>2, <1>3 DEF Done, Idle
<1>4. ASSUME NEW r \in Req, NEW u, NEW v, NEW pc, Go(r, Step(pc, u, v)),
             pc \in {"decline.update", "cancel.update"} => request[u][v] # "none"
      PROVE Fine
  BY <1>2, <1>4 DEF Step
<1>5. ASSUME NEW r \in Req, NEW u \in User, NEW v \in User, Arrive(r, u, v)
      PROVE Fine
  <2>1. ASSUME NEW pin \in BOOLEAN, PinCheck(r, u, v, pin)
        PROVE Fine
    BY <1>2, <2>1 DEF PinCheck
  <2>2. ASSUME NEW pc, RetractCheck(r, u, v, pc)
        PROVE Fine
    BY <1>4, <2>2 DEF RetractCheck
  <2>3. CASE SendCheck(r, u, v) \/ AcceptCheck(r, u, v) \/ RemoveCheck(r, u, v)
             \/ BlockCheck(r, u, v)
    BY <1>4, <2>3 DEF SendCheck, AcceptCheck, RemoveCheck, BlockCheck
  <2> QED  BY <1>5, <2>1, <2>2, <2>3 DEF Arrive
<1>6. ASSUME NEW r \in Req, NEW u \in User, NEW v \in User, Proceed(r, u, v)
      PROVE Fine
  <2>1. \/ Done(r)
        \/ \E pc \in {"send.between", "send.create", "send.notify", "accept.notify",
                       "block.remove", "block.create"} : Go(r, Step(pc, u, v))
    BY <1>6 DEF Proceed, SendFriends, SendBetween, SendCreate, SendNotify, AcceptTx, AcceptNotify,
               DeclineUpdate, CancelUpdate, RemoveDelete, PinUpdate, BlockFriends, BlockRemove,
               BlockCreate
  <2> QED  BY <1>3, <1>4, <2>1
<1>7. CASE UNCHANGED vars \/ \E u, v \in User : Unblock(u, v)
  BY <1>1, <1>7 DEF Unblock, vars
<1>8. CASE \E r \in Req, u, v \in User : Arrive(r, u, v) \/ Proceed(r, u, v)
  BY <1>5, <1>6, <1>8
<1> QED  BY <1>7, <1>8 DEF Next

LEMMA RowsStaying ==
  ASSUME Inv, RowsStay, [Next]_vars
  PROVE RowsStay'
<1> SUFFICES ASSUME NEW s \in Req, req'[s].pc \in {"decline.update", "cancel.update"}
             PROVE request'[req'[s].from][req'[s].to] # "none"
  BY DEF RowsStay
<1>1. request[req'[s].from][req'[s].to] # "none"
  BY RowsRead DEF RowsStay
<1>2. req'[s].from \in User /\ req'[s].to \in User
  <2>1. req'[s] \in Request
    BY NextInv DEF Inv, SlotsOK
  <2> QED  BY <2>1 DEF Request, Idle, Sending, Answering, Parting, Pinning
<1> QED  BY <1>1, <1>2, RowsKept

LEMMA Invariance == Spec => [](Inv /\ RowsStay)
<1>1. Init => RowsStay
  BY DEF Init, RowsStay, Idle
<1> QED  BY <1>1, InitInv, NextInv, RowsStaying, PTL DEF Spec

\* The tables stay well-typed for any number of users and of requests at once.
THEOREM Typing == Spec => []TypeOK
  BY Invariance, InvMeans, PTL

-----------------------------------------------------------------------------
(* The refinement: every step is a step of module Consent or changes none  *)
(* of its variables.                                                       *)

LEMMA StatusMeans ==
  ASSUME TablesOK, NEW u \in User, NEW v \in User, NEW status \in Status \ {"none"},
         SetStatus(u, v, status)
  PROVE /\ Asked' = Asked \cup {<<u, v>>}
        /\ status = "PENDING" => Open' = Open \cup {<<u, v>>}
        /\ status # "PENDING" => Open' = Open \ {<<u, v>>}
<1> DEFINE Cell(ask) == request[ask[1]][ask[2]]
<1>1. \A ask \in User \X User :
        Cell(ask)' = IF ask = <<u, v>> THEN status ELSE Cell(ask)
  <2> SUFFICES ASSUME NEW s \in User, NEW t \in User
               PROVE request'[s][t] = IF <<s, t>> = <<u, v>> THEN status ELSE request[s][t]
    OBVIOUS
  <2> QED  BY StatusWritten DEF TablesOK
<1>2. Asked = {ask \in User \X User : Cell(ask) # "none"}
      /\ Open = {ask \in User \X User : Cell(ask) = "PENDING"}
  BY DEF Asked, Open
<1>3. Asked' = {ask \in User \X User : Cell(ask)' # "none"}
      /\ Open' = {ask \in User \X User : Cell(ask)' = "PENDING"}
  BY DEF Asked, Open
<1>4. <<u, v>> \in User \X User /\ status # "none"
  OBVIOUS
<1> HIDE DEF Cell
<1> QED  BY <1>1, <1>2, <1>3, <1>4

LEMMA CellMeans ==
  ASSUME TablesOK, NEW u \in User, NEW v \in User
  PROVE /\ <<u, v>> \in Asked <=> request[u][v] # "none"
        /\ <<u, v>> \in Open <=> request[u][v] = "PENDING"
  BY DEF Asked, Open

LEMMA InitContract == Init => C!Init
  BY DEF Init, C!Init, Asked, Open, friends

LEMMA SameMeans ==
  ASSUME request' = request, friends' = friends
  PROVE UNCHANGED C!vars
  BY DEF C!vars, Asked, Open

\* A decline or a cancellation closes an open request and is nothing to a
\* closed one.
LEMMA Retraction ==
  ASSUME Inv, NEW u \in User, NEW v \in User, NEW status \in {"DECLINED", "CANCELLED"},
         request[u][v] # "none", SetStatus(u, v, status), friends' = friends
  PROVE C!Next \/ UNCHANGED C!vars
<1>0. TablesOK /\ status \in Status \ {"none"} /\ status # "PENDING"
  BY DEF Inv, Status
<1>1. <<u, v>> \in Asked
  BY <1>0, CellMeans
<1>2. Asked' = Asked \cup {<<u, v>>} /\ Open' = Open \ {<<u, v>>}
  BY <1>0, StatusMeans
<1>3. Asked' = Asked /\ Open' = Open \ {<<u, v>>}
  BY <1>1, <1>2
<1>4. CASE <<u, v>> \in Open
  BY <1>3, <1>4 DEF C!Next, C!Withdraw
<1>5. CASE <<u, v>> \notin Open
  BY <1>3, <1>5 DEF C!vars
<1> QED  BY <1>4, <1>5

LEMMA Parts ==
  ASSUME TablesOK, NEW u \in User, NEW v \in User, DropFriendship(u, v), request' = request
  PROVE C!Next \/ UNCHANGED C!vars
<1>1. Asked' = Asked /\ Open' = Open
  BY DEF Asked, Open
<1>2. friends' = friends \ {{u, v}}
  BY Dropped DEF TablesOK
<1>3. CASE {u, v} \in friends
  BY <1>1, <1>2, <1>3 DEF C!Next, C!Part
<1>4. CASE {u, v} \notin friends
  BY <1>1, <1>2, <1>4 DEF C!vars
<1> QED  BY <1>3, <1>4

LEMMA NextContract ==
  ASSUME Inv, RowsStay, [Next]_vars
  PROVE [C!Next]_C!vars
<1>1. ASSUME NEW r \in Req, NEW u \in User, NEW v \in User, Arrive(r, u, v)
      PROVE UNCHANGED C!vars
  <2>1. UNCHANGED tables
    BY <1>1 DEF Arrive, SendCheck, AcceptCheck, RetractCheck, RemoveCheck, PinCheck, BlockCheck
  <2> QED  BY <2>1, SameMeans DEF tables, friends
<1>2. ASSUME NEW r \in Req, NEW u \in User, NEW v \in User, SendCreate(r, u, v)
      PROVE C!Next \/ UNCHANGED C!vars
  <2>1. u # v
    BY <1>2, SlotApart DEF SendCreate, Inv
  <2>2. CASE request[u][v] = "none"
    <3>1. /\ Asked' = Asked \cup {<<u, v>>} /\ Open' = Open \cup {<<u, v>>}
          /\ <<u, v>> \notin Asked /\ friends' = friends
      BY <1>2, <2>2, StatusMeans, CellMeans DEF SendCreate, Inv, Status, friends
    <3> QED  BY <2>1, <3>1 DEF C!Next, C!Ask
  <2>3. CASE request[u][v] # "none"
    BY <1>2, <2>3, SameMeans DEF SendCreate, friends
  <2> QED  BY <2>2, <2>3
<1>3. ASSUME NEW r \in Req, NEW u \in User, NEW v \in User, AcceptTx(r, u, v)
      PROVE C!Next \/ UNCHANGED C!vars
  <2>1. CASE request[u][v] = "PENDING" /\ {u, v} \notin friends
    <3>0. u # v /\ TablesOK
      BY <1>3, SlotApart DEF AcceptTx, Inv
    <3>1. SetStatus(u, v, "ACCEPTED") /\ friends' = friends \cup {{u, v}}
      BY <1>3, <2>1, <3>0, Befriended DEF AcceptTx, TablesOK
    <3>2. <<u, v>> \in Asked /\ <<u, v>> \in Open
      BY <2>1, CellMeans DEF Inv
    <3>3. Asked' = Asked \cup {<<u, v>>} /\ Open' = Open \ {<<u, v>>}
      BY <3>1, StatusMeans DEF Inv, Status
    <3> QED  BY <2>1, <3>1, <3>2, <3>3 DEF C!Next, C!Consents
  <2>2. CASE ~(request[u][v] = "PENDING" /\ {u, v} \notin friends)
    BY <1>3, <2>2, SameMeans DEF AcceptTx, friends
  <2> QED  BY <2>1, <2>2
<1>4. ASSUME NEW r \in Req, NEW u \in User, NEW v \in User,
             DeclineUpdate(r, u, v) \/ CancelUpdate(r, u, v)
      PROVE C!Next \/ UNCHANGED C!vars
  <2>1. SetStatus(u, v, "DECLINED") \/ SetStatus(u, v, "CANCELLED")
    BY <1>4 DEF DeclineUpdate, CancelUpdate
  <2>2. friends' = friends
    BY <1>4 DEF DeclineUpdate, CancelUpdate, friends
  <2>3. request[u][v] # "none"
    BY <1>4 DEF DeclineUpdate, CancelUpdate, At, RowsStay
  <2> QED  BY <2>1, <2>2, <2>3, Retraction
<1>5. ASSUME NEW r \in Req, NEW u \in User, NEW v \in User,
             RemoveDelete(r, u, v) \/ BlockRemove(r, u, v)
      PROVE C!Next \/ UNCHANGED C!vars
  <2>1. \/ DropFriendship(u, v) /\ request' = request
        \/ request' = request /\ friends' = friends
    BY <1>5 DEF RemoveDelete, BlockRemove, friends
  <2> QED  BY <2>1, SameMeans, Parts DEF Inv
<1>6. ASSUME NEW r \in Req, NEW u \in User, NEW v \in User, Proceed(r, u, v)
      PROVE C!Next \/ UNCHANGED C!vars
  <2>1. CASE \/ SendFriends(r, u, v) \/ SendBetween(r, u, v) \/ SendNotify(r, u, v)
             \/ AcceptNotify(r, u, v) \/ PinUpdate(r, u, v) \/ BlockFriends(r, u, v)
             \/ BlockCreate(r, u, v)
    <3>1. request' = request /\ (friendship' = friendship \/ PinUpdate(r, u, v))
      BY <2>1 DEF SendFriends, SendBetween, SendNotify, AcceptNotify, PinUpdate, BlockFriends,
                  BlockCreate, tables
    <3>2. friends' = friends
      BY <3>1, Repinned DEF friends, Inv, TablesOK, SlotsOK
    <3> QED  BY <3>1, <3>2, SameMeans
  <2> QED  BY <1>2, <1>3, <1>4, <1>5, <1>6, <2>1 DEF Proceed
<1>7. UNCHANGED vars \/ (\E u, v \in User : Unblock(u, v)) => UNCHANGED C!vars
  BY SameMeans DEF vars, Unblock, friends
<1> QED  BY <1>1, <1>6, <1>7 DEF Next

\* acceptRequestAtomic's promise, as the contract Consent: nobody gets a friend
\* without an open request accepted in that step, no request is consented to
\* twice and none is made twice, however many users and requests there are.
THEOREM Implements == Spec => Contract
<1>1. C!Spec <=> C!Init /\ [][C!Next]_C!vars
  BY DEF C!Spec
<1> QED  BY <1>1, Invariance, InitContract, NextContract, PTL DEF Spec, Contract
-----------------------------------------------------------------------------
(* The notifications: each is owed by the request that stored the row, from *)
(* that step on, until it is stored itself.                                 *)

\* What a step does to the request in a slot it is not the step of: nothing.
LEMMA Untouched ==
  ASSUME Inv, NEW r \in Req, NEW u \in User, NEW v \in User,
         Arrive(r, u, v) \/ Proceed(r, u, v), NEW s \in Req, s # r
  PROVE req'[s] = req[s]
<1>1. ASSUME NEW next, Go(r, next)
      PROVE req'[s] = req[s]
  BY <1>1 DEF Go, Inv, SlotsOK
<1>2. CASE Arrive(r, u, v)
  BY <1>1, <1>2 DEF Arrive, SendCheck, AcceptCheck, RetractCheck, RemoveCheck, PinCheck, BlockCheck
<1>3. CASE Proceed(r, u, v)
  BY <1>1, <1>3 DEF Proceed, SendFriends, SendBetween, SendCreate, SendNotify, AcceptTx,
             AcceptNotify, DeclineUpdate, CancelUpdate, RemoveDelete, PinUpdate, BlockFriends,
             BlockRemove, BlockCreate, Done
<1> QED  BY <1>2, <1>3

LEMMA NotifiedGrows ==
  ASSUME [Next]_vars
  PROVE notified \subseteq notified'
<1>1. ASSUME NEW r \in Req, NEW u \in User, NEW v \in User, Arrive(r, u, v)
      PROVE UNCHANGED notified
  BY <1>1 DEF Arrive, SendCheck, AcceptCheck, RetractCheck, RemoveCheck, PinCheck, BlockCheck, tables
<1>2. ASSUME NEW r \in Req, NEW u \in User, NEW v \in User, Proceed(r, u, v)
      PROVE notified \subseteq notified'
  BY <1>2 DEF Proceed, SendFriends, SendBetween, SendCreate, SendNotify, AcceptTx, AcceptNotify,
             DeclineUpdate, CancelUpdate, RemoveDelete, PinUpdate, BlockFriends, BlockRemove,
             BlockCreate, tables
<1> QED  BY <1>1, <1>2 DEF Next, Unblock, vars

LEMMA StillOwed ==
  ASSUME Inv, [Next]_vars, NEW s \in Req, NEW a \in User, NEW b \in User
  PROVE /\ At(s, "send.notify", a, b) => At(s, "send.notify", a, b)' \/ <<"asked", a, b>> \in notified'
        /\ At(s, "accept.notify", a, b)
             => At(s, "accept.notify", a, b)' \/ <<"accepted", a, b>> \in notified'
<1> DEFINE Fine ==
      /\ At(s, "send.notify", a, b) => At(s, "send.notify", a, b)' \/ <<"asked", a, b>> \in notified'
      /\ At(s, "accept.notify", a, b)
           => At(s, "accept.notify", a, b)' \/ <<"accepted", a, b>> \in notified'
<1>1. ASSUME req'[s] = req[s]
      PROVE Fine
  BY <1>1 DEF At
<1>2. ASSUME NEW r \in Req, NEW u \in User, NEW v \in User, Arrive(r, u, v)
      PROVE Fine
  <2>1. req[r] = Idle
    BY <1>2 DEF Arrive, SendCheck, AcceptCheck, RetractCheck, RemoveCheck, PinCheck, BlockCheck,
               tables
  <2>2. CASE s = r
    BY <2>1, <2>2 DEF At, Idle
  <2> QED  BY <1>1, <1>2, <2>1, <2>2, Untouched
<1>3. ASSUME NEW r \in Req, NEW u \in User, NEW v \in User, SendNotify(r, u, v) \/ AcceptNotify(r, u, v)
      PROVE Fine
  <2>1. CASE s = r
    BY <1>3, <2>1 DEF SendNotify, AcceptNotify, At
  <2> QED  BY <1>1, <1>3, <2>1, Untouched DEF Proceed
<1>4. ASSUME NEW r \in Req, NEW u \in User, NEW v \in User, Proceed(r, u, v),
             ~SendNotify(r, u, v), ~AcceptNotify(r, u, v)
      PROVE Fine
  <2>1. req[r].pc \notin {"send.notify", "accept.notify"}
    BY <1>4 DEF Proceed, SendFriends, SendBetween, SendCreate, AcceptTx, DeclineUpdate,
               CancelUpdate, RemoveDelete, PinUpdate, BlockFriends, BlockRemove, BlockCreate,
               tables, At
  <2>2. CASE s = r
    BY <2>1, <2>2 DEF At
  <2> QED  BY <1>1, <1>4, <2>1, <2>2, Untouched
<1>5. CASE UNCHANGED vars \/ \E u, v \in User : Unblock(u, v)
  BY <1>1, <1>5 DEF Unblock, vars
<1> QED  BY <1>2, <1>3, <1>4, <1>5 DEF Next

\* The step that stores a request row, or a friendship, owes its notification.
LEMMA OwedFromTheStart ==
  ASSUME Inv, RowsStay, [Next]_vars, NEW a \in User, NEW b \in User
  PROVE /\ request[a][b] = "none" /\ request'[a][b] # "none"
             => \E s \in Req : At(s, "send.notify", a, b)'
        /\ {a, b} \notin friends /\ {a, b} \in friends'
             => \E s \in Req, c, d \in {a, b} : At(s, "accept.notify", c, d)'
<1> DEFINE Fine ==
      /\ request[a][b] = "none" /\ request'[a][b] # "none"
           => \E s \in Req : At(s, "send.notify", a, b)'
      /\ {a, b} \notin friends /\ {a, b} \in friends'
           => \E s \in Req, c, d \in {a, b} : At(s, "accept.notify", c, d)'
<1>0. ASSUME NEW r \in Req, NEW pc, NEW u, NEW v, Go(r, Step(pc, u, v))
      PROVE At(r, pc, u, v)'
  BY <1>0 DEF Go, Step, At, Inv, SlotsOK
<1>1. ASSUME UNCHANGED request, friends' \subseteq friends
      PROVE Fine
  BY <1>1
<1>2. ASSUME NEW r \in Req, NEW u \in User, NEW v \in User, SendCreate(r, u, v)
      PROVE Fine
  <2>1. CASE request[u][v] = "none"
    <3>1. SetStatus(u, v, "PENDING") /\ UNCHANGED friends /\ At(r, "send.notify", u, v)'
      BY <1>0, <1>2, <2>1 DEF SendCreate, friends
    <3>2. request'[a][b] = IF a = u /\ b = v THEN "PENDING" ELSE request[a][b]
      BY <3>1, StatusWritten DEF Inv, TablesOK, Status
    <3> QED  BY <3>1, <3>2
  <2>2. CASE request[u][v] # "none"
    BY <1>1, <1>2, <2>2 DEF SendCreate, friends
  <2> QED  BY <2>1, <2>2
<1>3. ASSUME NEW r \in Req, NEW u \in User, NEW v \in User, AcceptTx(r, u, v)
      PROVE Fine
  <2>1. CASE request[u][v] = "PENDING" /\ {u, v} \notin friends
    <3>1. /\ SetStatus(u, v, "ACCEPTED")
          /\ friends' = friends \cup {{u, v}}
          /\ At(r, "accept.notify", u, v)'
      <4>1. u # v
        BY <1>3, SlotApart DEF AcceptTx, Inv
      <4> QED  BY <1>0, <1>3, <2>1, <4>1, Befriended DEF AcceptTx, Inv, TablesOK
    <3>2. request'[a][b] = IF a = u /\ b = v THEN "ACCEPTED" ELSE request[a][b]
      BY <3>1, StatusWritten DEF Inv, TablesOK, Status
    <3>3. {a, b} \notin friends /\ {a, b} \in friends' => u \in {a, b} /\ v \in {a, b}
      BY <3>1
    <3> QED  BY <2>1, <3>1, <3>2, <3>3
  <2>2. CASE ~(request[u][v] = "PENDING" /\ {u, v} \notin friends)
    BY <1>1, <1>3, <2>2 DEF AcceptTx, friends
  <2> QED  BY <2>1, <2>2
<1>4. ASSUME NEW r \in Req, NEW u \in User, NEW v \in User,
             DeclineUpdate(r, u, v) \/ CancelUpdate(r, u, v)
      PROVE Fine
  <2>1. request[u][v] # "none" /\ UNCHANGED friends
    BY <1>4 DEF DeclineUpdate, CancelUpdate, RowsStay, At, friends
  <2>2. \E status \in Status : SetStatus(u, v, status)
    BY <1>4 DEF DeclineUpdate, CancelUpdate, Status
  <2>3. (a = u /\ b = v) \/ request'[a][b] = request[a][b]
    <3>1. PICK status \in Status : SetStatus(u, v, status)
      BY <2>2
    <3>2. request'[a][b] = IF a = u /\ b = v THEN status ELSE request[a][b]
      BY <3>1, StatusWritten DEF Inv, TablesOK
    <3> QED  BY <3>2
  <2> QED  BY <2>1, <2>3
<1>5. ASSUME NEW r \in Req, NEW u \in User, NEW v \in User, Arrive(r, u, v)
      PROVE Fine
  BY <1>1, <1>5 DEF friends, Arrive, SendCheck, AcceptCheck, RetractCheck, RemoveCheck, PinCheck, BlockCheck,
             tables
<1>6. ASSUME NEW r \in Req, NEW u \in User, NEW v \in User, Proceed(r, u, v)
      PROVE Fine
  <2>1. CASE \/ SendFriends(r, u, v) \/ SendBetween(r, u, v) \/ SendNotify(r, u, v)
             \/ AcceptNotify(r, u, v) \/ RemoveDelete(r, u, v) \/ PinUpdate(r, u, v)
             \/ BlockFriends(r, u, v) \/ BlockRemove(r, u, v) \/ BlockCreate(r, u, v)
    <3>1. /\ UNCHANGED request
          /\ \/ UNCHANGED friendship
             \/ DropFriendship(u, v)
             \/ PinUpdate(r, u, v)
      BY <2>1 DEF SendFriends, SendBetween, SendNotify, AcceptNotify, RemoveDelete, PinUpdate,
                 BlockFriends, BlockRemove, BlockCreate, tables
    <3>2. friends' \subseteq friends
      BY <3>1, Dropped, Repinned DEF friends, Inv, TablesOK, SlotsOK
    <3> QED  BY <1>1, <3>1, <3>2
  <2> QED  BY <1>2, <1>3, <1>4, <1>6, <2>1 DEF Proceed
<1>7. CASE UNCHANGED vars \/ \E u, v \in User : Unblock(u, v)
  BY <1>1, <1>7 DEF Unblock, vars, friends
<1> QED  BY <1>5, <1>6, <1>7 DEF Next

LEMMA AnnouncedStays ==
  ASSUME Inv, RowsStay, Announced, [Next]_vars
  PROVE Announced'
<1>1. ASSUME NEW u \in User, NEW v \in User, request'[u][v] # "none"
      PROVE \/ <<"asked", u, v>> \in notified'
            \/ \E r \in Req : At(r, "send.notify", u, v)'
  <2>1. CASE request[u][v] = "none"
    BY <1>1, <2>1, OwedFromTheStart
  <2>2. CASE <<"asked", u, v>> \in notified
    BY <2>2, NotifiedGrows
  <2>3. CASE \E r \in Req : At(r, "send.notify", u, v)
    BY <2>3, StillOwed
  <2> QED  BY <2>1, <2>2, <2>3 DEF Announced
<1>2. ASSUME NEW u \in User, NEW v \in User, {u, v} \in friends'
      PROVE \E s, t \in {u, v} : \/ <<"accepted", s, t>> \in notified'
                                 \/ \E r \in Req : At(r, "accept.notify", s, t)'
  <2>1. CASE {u, v} \notin friends
    BY <1>2, <2>1, OwedFromTheStart
  <2>2. CASE {u, v} \in friends
    <3>1. PICK s, t \in {u, v} : \/ <<"accepted", s, t>> \in notified
                                 \/ \E r \in Req : At(r, "accept.notify", s, t)
      BY <2>2 DEF Announced
    <3>2. s \in User /\ t \in User
      OBVIOUS
    <3>3. CASE <<"accepted", s, t>> \in notified
      BY <3>3, NotifiedGrows
    <3>4. ASSUME NEW r \in Req, At(r, "accept.notify", s, t)
          PROVE At(r, "accept.notify", s, t)' \/ <<"accepted", s, t>> \in notified'
      BY <3>2, <3>4, StillOwed
    <3> QED  BY <3>1, <3>3, <3>4
  <2> QED  BY <2>1, <2>2
<1> QED  BY <1>1, <1>2 DEF Announced

\* Nobody is asked, and nobody's request accepted, without being told, unless
\* the operation that owes it is still at it or died there.
THEOREM Announcements == Spec => []Announced
<1>1. Init => Announced
  BY DEF Init, Announced, friends
<1> QED  BY <1>1, AnnouncedStays, Invariance, PTL DEF Spec
=============================================================================
