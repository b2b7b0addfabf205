----------------------------- MODULE FriendList -----------------------------
(***************************************************************************)
(* FriendsPage: the list it keeps beside the hook that loads it.  The list *)
(* takes what the hook loaded when the hook's status changes, and a removal *)
(* or a pin before the server has it; an accept loads it anew.             *)
(***************************************************************************)
EXTENDS Naturals

CONSTANTS
  Friend,  \* users the page's user may have to do with
  Fetch,   \* slots of the hook's fetches; bounds those in flight at once
  Task     \* slots of what the page asks; bounds those in flight at once

VARIABLES
  stored,  \* what each is to the user: the row Friendship, or a request
  status,  \* of friendsState
  list,    \* friendsList
  fetch,   \* the fetches in flight
  task,    \* the changes in flight
  astray   \* history: the list met what no fetch has made good since

vars == <<stored, status, list, fetch, task, astray>>

-----------------------------------------------------------------------------
Idle == [pc |-> "idle"]
Ops == {"accept", "remove", "pin", "unpin"}

\* listFriends
Listed == [f \in Friend |-> IF stored[f] = "asks" THEN "none" ELSE stored[f]]

\* requests that have changed the list before the server had them
Ahead == {t \in Task : task[t] # Idle /\ task[t].op # "accept"}
Quiet == \A f \in Fetch, t \in Task : fetch[f] = Idle /\ task[t] = Idle

\* what was read of the list before it changed is of no use to it
Spoiled == [f \in Fetch |-> IF fetch[f].pc = "read" THEN [fetch[f] EXCEPT !.good = FALSE] ELSE fetch[f]]

Init ==
  /\ stored \in [Friend -> {"none", "asks", "plain"}]
  /\ status = "loading" /\ list = [f \in Friend |-> "none"]
  /\ \E f \in Fetch : fetch = [g \in Fetch |-> [pc |-> IF g = f THEN "asked" ELSE "idle"]]
  /\ task = [t \in Task |-> Idle]
  /\ astray = TRUE

-----------------------------------------------------------------------------
\* retry, also the button of the error
Retry(f) ==
  /\ fetch[f] = Idle
  /\ fetch' = [Spoiled EXCEPT ![f] = [pc |-> "asked"]]
  /\ status' = "loading"

RetryError(f) ==
  /\ status = "error" /\ Retry(f)
  /\ UNCHANGED <<stored, list, task, astray>>

Read(f) ==
  /\ fetch[f].pc = "asked"
  /\ fetch' = [fetch EXCEPT ![f] = [pc |-> "read", data |-> Listed, good |-> Ahead = {}]]
  /\ UNCHANGED <<stored, status, list, task, astray>>

\* The effect runs when the status changes: a second answer may not be shown.
Answer(f) ==
  /\ fetch[f].pc = "read"
  /\ status' = IF \A g \in Friend : fetch[f].data[g] = "none" THEN "empty" ELSE "success"
  /\ fetch' = [fetch EXCEPT ![f] = Idle]
  /\ IF status' = status
       THEN UNCHANGED <<list, astray>>
       ELSE list' = fetch[f].data /\ astray' = ~fetch[f].good
  /\ UNCHANGED <<stored, task>>

Fail(f) ==
  /\ fetch[f] # Idle
  /\ fetch' = [fetch EXCEPT ![f] = Idle]
  /\ status' = "error"
  /\ UNCHANGED <<stored, list, task, astray>>

-----------------------------------------------------------------------------
(* What the page changes.                                                  *)

Shown(op, f) ==
  CASE op = "accept" -> list
    [] op = "remove" -> [list EXCEPT ![f] = "none"]
    [] op = "pin" -> [list EXCEPT ![f] = "pinned"]
    [] op = "unpin" -> [list EXCEPT ![f] = "plain"]

\* togglePin turns what is shown; the requests are a list of their own
Offered(op, f) ==
  CASE op = "accept" -> TRUE
    [] op = "remove" -> list[f] # "none"
    [] op = "pin" -> list[f] = "plain"
    [] op = "unpin" -> list[f] = "pinned"

Ask(t, op, f) ==
  /\ task[t] = Idle /\ Offered(op, f)
  /\ task' = [task EXCEPT ![t] = [pc |-> "asked", op |-> op, f |-> f, prev |-> list, next |-> Shown(op, f)]]
  /\ list' = Shown(op, f)
  /\ fetch' = IF op = "accept" THEN fetch ELSE Spoiled
  /\ astray' = (astray \/ \E s \in Ahead : task[s].f = f /\ op # "accept")
  /\ UNCHANGED <<stored, status>>

\* acceptRequest, removeFriend and setPinned, whose checks fail otherwise
Serve(t) ==
  LET op == task[t].op  f == task[t].f IN
  /\ task[t].pc = "asked"
  /\ IF op = "accept" THEN stored[f] = "asks" ELSE stored[f] \in {"plain", "pinned"}
  /\ stored' = [stored EXCEPT ![f] = CASE op = "remove" -> "none" [] op = "pin" -> "pinned" [] OTHER -> "plain"]
  /\ task' = [task EXCEPT ![t].pc = "done"]
  /\ fetch' = Spoiled
  /\ astray' = (astray \/ op = "accept")
  /\ UNCHANGED <<status, list>>

Done(t) ==
  /\ task[t].pc = "done" /\ task[t].op # "accept"
  /\ task' = [task EXCEPT ![t] = Idle]
  /\ UNCHANGED <<stored, status, list, fetch, astray>>

\* acceptRequest of the page: both lists are loaded anew
Accepted(t, f) ==
  /\ task[t].pc = "done" /\ task[t].op = "accept"
  /\ task' = [task EXCEPT ![t] = Idle]
  /\ Retry(f)
  /\ UNCHANGED <<stored, list, astray>>

\* catch: the list it began with, whatever came in between
Refused(t) ==
  /\ task[t] # Idle
  /\ task' = [task EXCEPT ![t] = Idle]
  /\ IF task[t].op = "accept"
       THEN UNCHANGED <<list, fetch, astray>>
       ELSE /\ list' = task[t].prev
            /\ fetch' = Spoiled
            /\ astray' = (astray \/ task[t].pc = "done" \/ list # task[t].next)
  /\ UNCHANGED <<stored, status>>

\* The other one removes the user, or accepts: the page is not told.
Other(f) ==
  /\ \/ stored[f] \in {"plain", "pinned"} /\ stored' = [stored EXCEPT ![f] = "none"]
     \/ stored[f] = "none" /\ \E s \in {"asks", "plain"} : stored' = [stored EXCEPT ![f] = s]
  /\ fetch' = Spoiled /\ astray' = TRUE
  /\ UNCHANGED <<status, list, task>>

Next ==
  \/ \E f \in Fetch : RetryError(f) \/ Read(f) \/ Answer(f) \/ Fail(f) \/ \E t \in Task : Accepted(t, f)
  \/ \E t \in Task : Serve(t) \/ Done(t) \/ Refused(t) \/ \E op \in Ops, f \in Friend : Ask(t, op, f)
  \/ \E f \in Friend : Other(f)

Spec == Init /\ [][Next]_vars

-----------------------------------------------------------------------------
\* Rows, list, fetches and changes are well-typed.
TypeOK ==
  /\ stored \in [Friend -> {"none", "asks", "plain", "pinned"}]
  /\ list \in [Friend -> {"none", "plain", "pinned"}]
  /\ status \in {"loading", "success", "empty", "error"} /\ astray \in BOOLEAN
  /\ \A f \in Fetch : fetch[f].pc \in {"idle", "asked", "read"}
  /\ \A t \in Task : task[t].pc \in {"idle", "asked", "done"}

\* Once nothing is in flight the list is the one stored, every pin as it is.  The
\* exceptions last until a load that met no change is shown: an answer that came
\* on top of another's, a load that failed or crossed a change, changes of one
\* friend that overlapped, a catch that put back a list that had changed since, and
\* what the other one did.
ListTrue == Quiet /\ ~astray => list = Listed
=============================================================================
