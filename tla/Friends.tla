------------------------------ MODULE Friends ------------------------------
(***************************************************************************)
(* Friend requests, friendships and blocks: FriendsService.                *)
(*                                                                         *)
(* As in module Party, an operation is a request that holds a slot of Req  *)
(* and goes on, statement by statement, when it will or never; one whose   *)
(* first read rejects it is left out.  A friendship row is the set of its  *)
(* two users, orderedPair having made its key independent of their order.  *)
(***************************************************************************)
EXTENDS FiniteSets

CONSTANTS
  User,  \* accounts
  Req    \* request slots; bounds the requests in flight at once

VARIABLES
  request,    \* FriendRequest.status by sender and receiver, "none" where no row is
  friendship, \* table Friendship: who it is between, and which of the two have pinned it
  blocked,    \* table Block: <<blocker, blocked>>
  notified,   \* the notifications stored: <<"asked" or "accepted", sender, receiver>>
  req         \* the requests in flight

tables == <<request, friendship, blocked, notified>>
vars == <<request, friendship, blocked, notified, req>>

-----------------------------------------------------------------------------
Status == {"none", "PENDING", "ACCEPTED", "DECLINED", "CANCELLED"}
Pairs == {pair \in SUBSET User : \E u, v \in User : u # v /\ pair = {u, v}}

Row == [between : Pairs, pinned : SUBSET User]
friends == {row.between : row \in friendship}

Idle == [pc |-> "idle"]
Step(pc, u, v) == [pc |-> pc, from |-> u, to |-> v]

\* A request about the two users from and to; for an answer they are the
\* sender and the receiver of the row answered, otherwise the caller comes first.
Sending == [pc : {"send.friends", "send.between", "send.create", "send.notify"},
            from : User, to : User]
Answering == [pc : {"accept.tx", "accept.notify", "decline.update", "cancel.update"},
              from : User, to : User]
Parting == [pc : {"remove.delete", "block.friends", "block.remove", "block.create"},
            from : User, to : User]
Pinning == [pc : {"pin.update"}, from : User, to : User, pin : BOOLEAN]

Request == {Idle} \cup Sending \cup Answering \cup Parting \cup Pinning

BlockedEitherWay(u, v) == <<u, v>> \in blocked \/ <<v, u>> \in blocked
PendingBetween(u, v) == request[u][v] = "PENDING" \/ request[v][u] = "PENDING"

Go(r, next) == req' = [req EXCEPT ![r] = next]
Done(r) == Go(r, Idle)
At(r, pc, u, v) == req[r].pc = pc /\ req[r].from = u /\ req[r].to = v

SetStatus(u, v, status) == request' = [request EXCEPT ![u][v] = status]

\* The pins go with the row they are columns of.
DropFriendship(u, v) == friendship' = {row \in friendship : row.between # {u, v}}

\* @@unique([userAId, userBId]) allows one row a pair.
Befriend(u, v) == friendship' = friendship \cup {[between |-> {u, v}, pinned |-> {}]}

Pinned(row, u, pin) ==
  [row EXCEPT !.pinned = IF pin THEN @ \cup {u} ELSE @ \ {u}]

-----------------------------------------------------------------------------
(* Mutated forms: what a plausible slip in the code would make of the      *)
(* definition whose name each one carries.  No action uses them; replacing *)
(* the definition by its form must break the property the form is for.     *)

\* the notification forgotten
SendCreateSilently(r, u, v) ==
  /\ At(r, "send.create", u, v)
  /\ IF request[u][v] = "none" THEN SetStatus(u, v, "PENDING") ELSE UNCHANGED request
  /\ Done(r)
  /\ UNCHANGED <<friendship, blocked, notified>>

\* the status not looked at again in the transaction
AcceptTxUnconditional(r, u, v) ==
  /\ At(r, "accept.tx", u, v)
  /\ IF {u, v} \notin friends
       THEN /\ SetStatus(u, v, "ACCEPTED")
            /\ Befriend(u, v)
            /\ Go(r, Step("accept.notify", u, v))
       ELSE /\ Done(r)
            /\ UNCHANGED <<request, friendship>>
  /\ UNCHANGED <<blocked, notified>>

\* a value the enum does not have
DeclineUpdateRejected(r, u, v) ==
  /\ At(r, "decline.update", u, v)
  /\ SetStatus(u, v, "REJECTED")
  /\ Done(r)
  /\ UNCHANGED <<friendship, blocked, notified>>

Init ==
  /\ request = [u \in User |-> [v \in User |-> "none"]]
  /\ friendship = {} /\ blocked = {} /\ notified = {}
  /\ req = [r \in Req |-> Idle]

-----------------------------------------------------------------------------
(* sendRequest: three reads that may each refuse, the insert, which         *)
(* @@unique([senderId, receiverId]) refuses once there is a row, whatever   *)
(* its status, and the notification.                                        *)

SendCheck(r, u, v) ==
  /\ req[r] = Idle
  /\ u # v /\ ~BlockedEitherWay(u, v)
  /\ Go(r, Step("send.friends", u, v))
  /\ UNCHANGED tables

SendFriends(r, u, v) ==
  /\ At(r, "send.friends", u, v)
  /\ IF {u, v} \in friends THEN Done(r) ELSE Go(r, Step("send.between", u, v))
  /\ UNCHANGED tables

SendBetween(r, u, v) ==
  /\ At(r, "send.between", u, v)
  /\ IF PendingBetween(u, v) THEN Done(r) ELSE Go(r, Step("send.create", u, v))
  /\ UNCHANGED tables

SendCreate(r, u, v) ==
  /\ At(r, "send.create", u, v)
  /\ IF request[u][v] = "none"
       THEN SetStatus(u, v, "PENDING") /\ Go(r, Step("send.notify", u, v))
       ELSE UNCHANGED request /\ Done(r)
  /\ UNCHANGED <<friendship, blocked, notified>>

SendNotify(r, u, v) ==
  /\ At(r, "send.notify", u, v)
  /\ notified' = notified \cup {<<"asked", u, v>>}
  /\ Done(r)
  /\ UNCHANGED <<request, friendship, blocked>>

-----------------------------------------------------------------------------
(* acceptRequest, declineRequest, cancelRequest.  Only accepting looks at  *)
(* the status, on the read and again in its transaction.                   *)

AcceptCheck(r, u, v) ==
  /\ req[r] = Idle
  /\ request[u][v] = "PENDING"
  /\ Go(r, Step("accept.tx", u, v))
  /\ UNCHANGED tables

\* Friends already (of the opposite request): the unique key of Friendship
\* rolls the transaction back.
AcceptTx(r, u, v) ==
  /\ At(r, "accept.tx", u, v)
  /\ IF request[u][v] = "PENDING" /\ {u, v} \notin friends
       THEN /\ SetStatus(u, v, "ACCEPTED")
            /\ Befriend(u, v)
            /\ Go(r, Step("accept.notify", u, v))
       ELSE /\ Done(r)
            /\ UNCHANGED <<request, friendship>>
  /\ UNCHANGED <<blocked, notified>>

AcceptNotify(r, u, v) ==
  /\ At(r, "accept.notify", u, v)
  /\ notified' = notified \cup {<<"accepted", u, v>>}
  /\ Done(r)
  /\ UNCHANGED <<request, friendship, blocked>>

RetractCheck(r, u, v, pc) ==
  /\ req[r] = Idle
  /\ request[u][v] # "none"
  /\ Go(r, Step(pc, u, v))
  /\ UNCHANGED tables

DeclineUpdate(r, u, v) ==
  /\ At(r, "decline.update", u, v)
  /\ SetStatus(u, v, "DECLINED")
  /\ Done(r)
  /\ UNCHANGED <<friendship, blocked, notified>>

CancelUpdate(r, u, v) ==
  /\ At(r, "cancel.update", u, v)
  /\ SetStatus(u, v, "CANCELLED")
  /\ Done(r)
  /\ UNCHANGED <<friendship, blocked, notified>>

-----------------------------------------------------------------------------
(* removeFriend, setPinned, blockUser, unblockUser.  Deleting or updating  *)
(* a row that is gone throws, which leaves a block unmade.                 *)

RemoveCheck(r, u, v) ==
  /\ req[r] = Idle
  /\ {u, v} \in friends /\ u # v
  /\ Go(r, Step("remove.delete", u, v))
  /\ UNCHANGED tables

RemoveDelete(r, u, v) ==
  /\ At(r, "remove.delete", u, v)
  /\ DropFriendship(u, v)
  /\ Done(r)
  /\ UNCHANGED <<request, blocked, notified>>

PinCheck(r, u, v, pin) ==
  /\ req[r] = Idle
  /\ {u, v} \in friends /\ u # v
  /\ Go(r, [pc |-> "pin.update", from |-> u, to |-> v, pin |-> pin])
  /\ UNCHANGED tables

PinUpdate(r, u, v) ==
  /\ At(r, "pin.update", u, v)
  /\ friendship' = {IF row.between = {u, v} THEN Pinned(row, u, req[r].pin) ELSE row :
                       row \in friendship}
  /\ Done(r)
  /\ UNCHANGED <<request, blocked, notified>>

BlockCheck(r, u, v) ==
  /\ req[r] = Idle
  /\ u # v /\ <<u, v>> \notin blocked
  /\ Go(r, Step("block.friends", u, v))
  /\ UNCHANGED tables

BlockFriends(r, u, v) ==
  /\ At(r, "block.friends", u, v)
  /\ Go(r, Step(IF {u, v} \in friends THEN "block.remove" ELSE "block.create", u, v))
  /\ UNCHANGED tables

BlockRemove(r, u, v) ==
  /\ At(r, "block.remove", u, v)
  /\ IF {u, v} \in friends
       THEN Go(r, Step("block.create", u, v)) /\ DropFriendship(u, v)
       ELSE Done(r) /\ UNCHANGED <<friendship>>
  /\ UNCHANGED <<request, blocked, notified>>

BlockCreate(r, u, v) ==
  /\ At(r, "block.create", u, v)
  /\ blocked' = blocked \cup {<<u, v>>}
  /\ Done(r)
  /\ UNCHANGED <<request, friendship, notified>>

Unblock(u, v) ==
  /\ blocked' = blocked \ {<<u, v>>}
  /\ UNCHANGED <<request, friendship, notified, req>>

-----------------------------------------------------------------------------
Arrive(r, u, v) ==
  \/ SendCheck(r, u, v)
  \/ AcceptCheck(r, u, v)
  \/ RetractCheck(r, u, v, "decline.update") \/ RetractCheck(r, u, v, "cancel.update")
  \/ RemoveCheck(r, u, v)
  \/ \E pin \in BOOLEAN : PinCheck(r, u, v, pin)
  \/ BlockCheck(r, u, v)

Proceed(r, u, v) ==
  \/ SendFriends(r, u, v) \/ SendBetween(r, u, v) \/ SendCreate(r, u, v) \/ SendNotify(r, u, v)
  \/ AcceptTx(r, u, v) \/ AcceptNotify(r, u, v)
  \/ DeclineUpdate(r, u, v) \/ CancelUpdate(r, u, v)
  \/ RemoveDelete(r, u, v) \/ PinUpdate(r, u, v)
  \/ BlockFriends(r, u, v) \/ BlockRemove(r, u, v) \/ BlockCreate(r, u, v)

Next == \E u, v \in User :
  \/ \E r \in Req : Arrive(r, u, v) \/ Proceed(r, u, v)
  \/ Unblock(u, v)

Spec == Init /\ [][Next]_vars

-----------------------------------------------------------------------------
\* Every column holds a value of its type, every slot a request of the API.
TypeOK ==
  /\ request \in [User -> [User -> Status]]
  /\ friendship \in SUBSET Row /\ blocked \in SUBSET (User \X User)
  /\ notified \in SUBSET ({"asked", "accepted"} \X User \X User)
  /\ req \in [Req -> Request]

\* Every request tells its receiver, every friendship the one who had asked
\* for it, unless the operation that owes the notification is still at it.
Announced ==
  /\ \A u, v \in User : request[u][v] # "none" =>
       <<"asked", u, v>> \in notified \/ \E r \in Req : At(r, "send.notify", u, v)
  /\ \A u, v \in User : {u, v} \in friends =>
       \E s, t \in {u, v} : \/ <<"accepted", s, t>> \in notified
                            \/ \E r \in Req : At(r, "accept.notify", s, t)

\* Nobody is his own friend or correspondent: what the operations check once,
\* at their start, stays true of the rows and the requests in flight.
Apart ==
  /\ \A u \in User : request[u][u] = "none"
  /\ \A r \in Req : req[r].pc # "idle" => req[r].from # req[r].to

\* A request row once read is there for good: nothing deletes one, so that a
\* decline or a cancellation updates the row it has read.
RowsStay == \A r \in Req :
  req[r].pc \in {"decline.update", "cancel.update"} => request[req[r].from][req[r].to] # "none"

\* What the tables mean to the two users: the requests ever made and those
\* still open.
Asked == {ask \in User \X User : request[ask[1]][ask[2]] # "none"}
Open == {ask \in User \X User : request[ask[1]][ask[2]] = "PENDING"}

C == INSTANCE Consent WITH asked <- Asked, open <- Open

\* acceptRequestAtomic's promise, as a contract: nobody gets a friend without
\* an open request that the receiver accepts in that step, no request is used
\* twice, whatever raced with it, and a receiver is asked once per sender.
Contract == C!Spec
=============================================================================
