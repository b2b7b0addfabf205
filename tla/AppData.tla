------------------------------ MODULE AppData ------------------------------
(***************************************************************************)
(* What AppDataContext keeps of the user who is signed in: his profile and *)
(* his communities, which are kept alike, here as one datum with a version *)
(* that counts its changes, and the number of his unread notifications.    *)
(*                                                                         *)
(* A change and a refresh are requests.  They carry the user they are of   *)
(* and go on when he signs out; what they bring is taken as it comes.      *)
(***************************************************************************)
EXTENDS Naturals, FiniteSets

CONSTANTS
  User, Nobody,
  Task,      \* slots of requests; bounds those in flight at once
  MaxSaves,  \* bounds the changes of a user's datum
  MaxUnread  \* bounds the unread notifications, and the badge as they come

VARIABLES
  user,     \* who is signed in, or Nobody
  saved,    \* of each user, the version of the datum that is stored
  unread,   \* of each user, his unread notifications
  untold,   \* of those of the signed-in user, the ones whose event is to come
  profile,  \* the datum the page shows
  badge,    \* unreadNotifications
  task,     \* the requests in flight
  foreign,  \* history: something shown came after the user it is of signed out
  crossed,  \* history: the datum met what no refresh follows
  drift     \* history: the badge did

shown == <<profile, badge>>
stored == <<saved, unread>>
past == <<foreign, crossed, drift>>
vars == <<user, stored, untold, shown, task, past>>

-----------------------------------------------------------------------------
Blank == [of |-> Nobody, v |-> 0]

Idle == [op |-> "idle"]
Asked(op) == [op |-> op, pc |-> "asked", of |-> user, late |-> FALSE]

Is(t, op, pc) == task[t].op = op /\ task[t].pc = pc
Quiet == untold = 0 /\ \A t \in Task : task[t] = Idle
Forget == user' = Nobody /\ profile' = Blank /\ badge' = 0 /\ untold' = 0
Reply(t, n) == task' = [task EXCEPT ![t] = [op |-> @.op, pc |-> "done", of |-> @.of, late |-> @.late, n |-> n]]

-----------------------------------------------------------------------------
(* Mutated forms: what a plausible slip in the code would make of the      *)
(* definition whose name each one carries.  No action uses them; replacing *)
(* the definition by its form must break the property the form is for.     *)

\* the effect left without its reset
ClearedNothing == UNCHANGED shown /\ user' = Nobody /\ untold' = 0

Init ==
  /\ user = Nobody
  /\ saved = [u \in User |-> 0] /\ unread = [u \in User |-> 0] /\ untold = 0
  /\ profile = Blank /\ badge = 0
  /\ task = [t \in Task |-> Idle]
  /\ foreign = FALSE /\ crossed = FALSE /\ drift = FALSE

-----------------------------------------------------------------------------
\* The effect of status: everything of the next user is asked for.
SignIn(u, t, s) ==
  /\ user = Nobody /\ t # s /\ task[t] = Idle /\ task[s] = Idle
  /\ user' = u
  /\ task' = [task EXCEPT ![t] = [Asked("refresh") EXCEPT !.of = u],
                          ![s] = [Asked("count") EXCEPT !.of = u]]
  /\ crossed' = FALSE /\ drift' = FALSE
  /\ UNCHANGED <<stored, untold, shown, foreign>>

Cleared == Forget

SignOut ==
  /\ user # Nobody
  /\ Cleared
  /\ task' = [t \in Task |-> IF task[t] = Idle THEN Idle ELSE [task[t] EXCEPT !.late = TRUE]]
  /\ foreign' = FALSE
  /\ UNCHANGED <<stored, crossed, drift>>

-----------------------------------------------------------------------------
(* The datum: changed by what waits for refreshProfile or, of communities, *)
(* for refreshCommunities, after it.                                       *)

Change(t) ==
  /\ user # Nobody /\ task[t] = Idle
  /\ task' = [task EXCEPT ![t] = Asked("change")]
  /\ UNCHANGED <<user, stored, untold, shown, past>>

Save(t) ==
  /\ Is(t, "change", "asked") /\ saved[task[t].of] < MaxSaves
  /\ saved' = [saved EXCEPT ![task[t].of] = @ + 1]
  /\ Reply(t, 0)
  /\ UNCHANGED <<user, unread, untold, shown, past>>

\* what is asked for once a change is made: with the access token of then, which is
\* of who is signed in by then, and in vain if nobody is
Follows(op) == IF op = "mark" THEN "count" ELSE "refresh"

Changed(t) ==
  /\ task[t].op \in {"change", "mark"} /\ task[t].pc = "done"
  /\ task' = [task EXCEPT ![t] = IF user = Nobody THEN Idle ELSE Asked(Follows(task[t].op))]
  /\ UNCHANGED <<user, stored, untold, shown, past>>

\* usersApi.me, communitiesApi.listMine
ReadDatum(t) ==
  /\ Is(t, "refresh", "asked")
  /\ Reply(t, saved[task[t].of])
  /\ UNCHANGED <<user, stored, untold, shown, past>>

Refreshed(t) ==
  /\ Is(t, "refresh", "done")
  /\ profile' = [of |-> task[t].of, v |-> task[t].n]
  /\ task' = [task EXCEPT ![t] = Idle]
  /\ foreign' = task[t].late
  /\ crossed' = (crossed \/ task[t].late \/ task[t].n < profile.v)
  /\ UNCHANGED <<user, stored, untold, badge, drift>>

-----------------------------------------------------------------------------
(* The badge: counted, counted anew after a mark, and one more for each    *)
(* notification that comes.                                                *)

Notify ==
  /\ user # Nobody /\ unread[user] < MaxUnread /\ badge + untold < MaxUnread
  /\ unread' = [unread EXCEPT ![user] = @ + 1]
  /\ untold' = untold + 1
  /\ UNCHANGED <<user, saved, shown, task, past>>

Told ==
  /\ untold > 0 /\ untold' = untold - 1
  /\ badge' = badge + 1
  /\ drift' = (drift \/ \E t \in Task : Is(t, "count", "done"))
  /\ UNCHANGED <<user, stored, profile, task, foreign, crossed>>

\* one is read, or all of them; or one is removed unread, and nothing follows
Mark(t) ==
  /\ user # Nobody /\ task[t] = Idle /\ unread[user] > 0
  /\ task' = [task EXCEPT ![t] = Asked("mark")]
  /\ UNCHANGED <<user, stored, untold, shown, past>>

MarkRead(t) ==
  /\ Is(t, "mark", "asked") /\ unread[task[t].of] > 0
  /\ unread' = [unread EXCEPT ![task[t].of] = @ - 1]
  /\ \/ Reply(t, 0) /\ UNCHANGED drift
     \/ task' = [task EXCEPT ![t] = Idle] /\ drift' = TRUE
  /\ UNCHANGED <<user, saved, untold, shown, foreign, crossed>>

ReadCount(t) ==
  /\ Is(t, "count", "asked")
  /\ Reply(t, unread[task[t].of])
  /\ drift' = (drift \/ untold # 0 \/ \E s \in Task \ {t} : task[s].op = "count")
  /\ UNCHANGED <<user, stored, untold, shown, foreign, crossed>>

Counted(t) ==
  /\ Is(t, "count", "done")
  /\ badge' = task[t].n
  /\ task' = [task EXCEPT ![t] = Idle]
  /\ UNCHANGED <<user, stored, untold, profile, past>>

-----------------------------------------------------------------------------
\* catch(() => {}), and every other way a request comes to nothing
Fail(t) ==
  /\ task[t] # Idle
  /\ task' = [task EXCEPT ![t] = Idle]
  /\ crossed' = (crossed \/ task[t].op = "refresh" \/ Is(t, "change", "done"))
  /\ drift' = (drift \/ task[t].op = "count" \/ Is(t, "mark", "done"))
  /\ UNCHANGED <<user, stored, untold, shown, foreign>>

Next ==
  \/ \E t \in Task :
       \/ \E u \in User, s \in Task : SignIn(u, t, s)
       \/ Change(t) \/ Save(t) \/ Changed(t) \/ ReadDatum(t) \/ Refreshed(t)
       \/ Mark(t) \/ MarkRead(t) \/ ReadCount(t) \/ Counted(t) \/ Fail(t)
  \/ SignOut \/ Notify \/ Told

Spec == Init /\ [][Next]_vars

-----------------------------------------------------------------------------
\* What is stored and shown and the requests are well-typed.
TypeOK ==
  /\ user \in User \cup {Nobody}
  /\ saved \in [User -> 0 .. MaxSaves] /\ unread \in [User -> 0 .. MaxUnread]
  /\ untold \in Nat /\ badge \in Nat
  /\ profile.of \in User \cup {Nobody} /\ profile.v \in 0 .. MaxSaves
  /\ \A t \in Task : task[t].op \in {"idle", "change", "refresh", "mark", "count"}
  /\ foreign \in BOOLEAN /\ crossed \in BOOLEAN /\ drift \in BOOLEAN

\* What is shown is of the user who is signed in and of nobody when none is,
\* except for an answer that came after its user had signed out.
OwnData == ~foreign => profile = Blank \/ profile.of = user

\* Once nothing is on its way, the datum shown is the one stored and the badge
\* the number of the unread: every change made here is followed by a read that
\* comes after it.  The exceptions: answers that come in the wrong order, too
\* late or not at all, counts that cross one another or the word of a new
\* notification, and the removal of an unread one, which no count follows.
DataTrue == Quiet /\ user # Nobody =>
  /\ ~crossed => profile = [of |-> user, v |-> saved[user]]
  /\ ~drift => badge = unread[user]
=============================================================================
