----------------------------- MODULE Reactions -----------------------------
(***************************************************************************)
(* The marks of one message: its pin and who reacted with one emoji.  A     *)
(* reaction or an edit is written, the whole message read again and sent to *)
(* the conversation's room; a pin is sent to nobody.  MessagesPage shows    *)
(* what it is sent, and on the answers to its own requests reckons itself.  *)
(***************************************************************************)
EXTENDS Naturals, Sequences, FiniteSets

CONSTANTS
  User, Me,   \* participants; Me is at the page and wrote the message
  Task,       \* slots of requests; bounds those in flight at once
  MaxWrites   \* bounds the writes to the message

VARIABLES
  stored,   \* reacts: who reacted; pinned
  writes,   \* how often it was written to
  shown,    \* what the page shows of it
  shownAt,  \* history: the last write the page has seen, or missed
  task,     \* the requests in flight
  events,   \* message:updated on their way to the page: a copy, and its write
  astray    \* history: shown need not be what was stored at shownAt

vars == <<stored, writes, shown, shownAt, task, events, astray>>

-----------------------------------------------------------------------------
Idle == [pc |-> "idle"]
Told == {"react", "unreact", "edit"}  \* operations that end in message:updated
Ops == Told \cup {"pin", "unpin"}

\* messageToUi: of the reactions their number, and whether one is the user's own
Face(m) == [count |-> Cardinality(m.reacts), mine |-> Me \in m.reacts, pinned |-> m.pinned]

Later(at) == IF at > shownAt THEN at ELSE shownAt
Quiet == events = <<>> /\ \A t \in Task : task[t] = Idle

\* the page does not learn of the write
Missed(at) == astray' = TRUE /\ shownAt' = Later(at)
Free(t) == task' = [task EXCEPT ![t] = Idle]

Init ==
  /\ stored \in [reacts : SUBSET (User \ {Me}), pinned : {FALSE}]
  /\ writes = 0 /\ shown = Face(stored) /\ shownAt = 0
  /\ task = [t \in Task |-> Idle]
  /\ events = <<>> /\ astray = FALSE

-----------------------------------------------------------------------------
\* what the bubble of the message offers
Offered(op) ==
  CASE op = "react" -> ~shown.mine
    [] op = "unreact" -> shown.mine
    [] op = "pin" -> ~shown.pinned
    [] op = "unpin" -> shown.pinned
    [] op = "edit" -> TRUE

\* Another's page offers him what it shows, which may be anything.
Ask(t, u, op) ==
  /\ task[t] = Idle
  /\ IF u = Me THEN Offered(op) ELSE op \in {"react", "unreact"}
  /\ task' = [task EXCEPT ![t] = [pc |-> "asked", op |-> op, by |-> u, wrote |-> 0]]
  /\ UNCHANGED <<stored, writes, shown, shownAt, events, astray>>

Marked(m, op, u) ==
  CASE op = "react" -> [m EXCEPT !.reacts = @ \cup {u}]
    [] op = "unreact" -> [m EXCEPT !.reacts = @ \ {u}]
    [] op = "edit" -> m
    [] OTHER -> [m EXCEPT !.pinned = op = "pin"]

Wrote(t) == [task[t] EXCEPT !.wrote = writes']
Copied(r, m, at) == [pc |-> "copied", op |-> r.op, by |-> r.by, wrote |-> r.wrote, copy |-> m, at |-> at]

\* addReaction, removeReaction; the update of an edit or a pin returns the row
Write(t) ==
  LET op == task[t].op  now == Marked(stored, op, task[t].by) IN
  /\ task[t].pc = "asked" /\ writes < MaxWrites
  /\ stored' = now
  /\ writes' = writes + 1
  /\ task' = [task EXCEPT ![t] =
                CASE op = "edit" -> Copied(Wrote(t), now, writes')
                  [] op \in {"react", "unreact"} -> [Wrote(t) EXCEPT !.pc = "written"]
                  [] OTHER -> [Wrote(t) EXCEPT !.pc = "answered"]]
  /\ UNCHANGED <<shown, shownAt, events, astray>>

\* findMessageById
Read(t) ==
  /\ task[t].pc = "written"
  /\ task' = [task EXCEPT ![t] = Copied(@, stored, writes)]
  /\ UNCHANGED <<stored, writes, shown, shownAt, events, astray>>

\* The event is emitted, then the answer sent; it matters to Me alone.
Emit(t) ==
  /\ task[t].pc = "copied"
  /\ events' = Append(events, [copy |-> task[t].copy, at |-> task[t].at])
  /\ task' = [task EXCEPT ![t] = IF task[t].by = Me THEN [@ EXCEPT !.pc = "answered"] ELSE Idle]
  /\ UNCHANGED <<stored, writes, shown, shownAt, astray>>

\* A request fails before its write or after it, or its answer is lost.
Fail(t) ==
  /\ task[t] # Idle
  /\ Free(t)
  /\ IF task[t].pc \in {"written", "copied"} \/ (task[t].pc = "answered" /\ task[t].op \notin Told)
       THEN Missed(task[t].wrote)
       ELSE UNCHANGED <<shownAt, astray>>
  /\ UNCHANGED <<stored, writes, shown, events>>

\* setPinned for another participant: nothing is emitted
PinByOther ==
  /\ writes < MaxWrites
  /\ writes' = writes + 1
  /\ stored' = [stored EXCEPT !.pinned = ~@]
  /\ Missed(writes')
  /\ UNCHANGED <<shown, task, events>>

-----------------------------------------------------------------------------
(* The page.                                                               *)

\* the copy replaces what is shown, even one of a later write
Replaced(copy, at) ==
  /\ shown' = Face(copy)
  /\ shownAt' = Later(at)
  /\ astray' = (at < shownAt)

Updated ==
  /\ events # <<>>
  /\ events' = Tail(events)
  /\ Replaced(Head(events).copy, Head(events).at)
  /\ UNCHANGED <<stored, writes, task>>

LoseEvent ==
  /\ events # <<>>
  /\ events' = Tail(events)
  /\ Missed(Head(events).at)
  /\ UNCHANGED <<stored, writes, shown, task>>

\* react of the page; an emoji no longer shown is put there once more, even by
\* the answer that took it away
Reckoned(op) ==
  LET fewer == op = "unreact" /\ shown.count > 0
  IN  [shown EXCEPT !.count = IF fewer THEN @ - 1 ELSE @ + 1, !.mine = ~fewer]

\* after the event it counts the reaction twice
ReactAnswered(t) ==
  /\ task[t].pc = "answered" /\ task[t].op \in {"react", "unreact"}
  /\ shown' = Reckoned(task[t].op)
  /\ astray' = (astray \/ task[t].wrote <= shownAt)
  /\ Free(t)
  /\ UNCHANGED <<stored, writes, shownAt, events>>

EditAnswered(t) ==
  /\ task[t].pc = "answered" /\ task[t].op = "edit"
  /\ Replaced(task[t].copy, task[t].at)
  /\ Free(t)
  /\ UNCHANGED <<stored, writes, events>>

\* togglePin turns what is shown by then, whatever was asked
PinAnswered(t) ==
  /\ task[t].pc = "answered" /\ task[t].op \notin Told
  /\ shown' = [shown EXCEPT !.pinned = ~@]
  /\ shownAt' = Later(task[t].wrote)
  /\ astray' = (astray \/ task[t].wrote <= shownAt \/ shown'.pinned # (task[t].op = "pin"))
  /\ Free(t)
  /\ UNCHANGED <<stored, writes, events>>

\* the pin of another message: the page takes this one for unpinned
OtherPinned ==
  /\ shown.pinned
  /\ shown' = [shown EXCEPT !.pinned = FALSE]
  /\ astray' = TRUE
  /\ UNCHANGED <<stored, writes, shownAt, task, events>>

Next ==
  \/ \E t \in Task : \/ Write(t) \/ Read(t) \/ Emit(t) \/ Fail(t)
                     \/ ReactAnswered(t) \/ EditAnswered(t) \/ PinAnswered(t)
                     \/ \E u \in User, op \in Ops : Ask(t, u, op)
  \/ PinByOther \/ Updated \/ LoseEvent \/ OtherPinned

Spec == Init /\ [][Next]_vars

-----------------------------------------------------------------------------
\* The message, its requests, the events and the page are well-typed.
TypeOK ==
  /\ stored \in [reacts : SUBSET User, pinned : BOOLEAN]
  /\ writes \in 0..MaxWrites /\ shownAt \in 0..writes
  /\ shown.count \in Nat /\ shown.mine \in BOOLEAN /\ shown.pinned \in BOOLEAN
  /\ \A t \in Task : task[t].pc \in {"idle", "asked", "written", "copied", "answered"}
  /\ astray \in BOOLEAN

\* Once nothing is in flight the page shows the marks that are stored.  The
\* exceptions last until a later copy comes: a pin by another, or of another
\* message; an event or a pin's answer lost; a copy older than one shown; and an
\* own reaction answered after its event, in which order the server sends them.
MarksTrue == Quiet /\ ~astray => shown = Face(stored)
=============================================================================
