------------------------------ MODULE Notices ------------------------------
(***************************************************************************)
(* The notifications of one user: the rows, what is told of them as they   *)
(* come, and the list of NotificationsPage, which loads PageSize of them   *)
(* at a time and changes what it shows before it asks the server.  The     *)
(* number of the unread ones is in AppData.                                *)
(***************************************************************************)
EXTENDS Listing, SequencesExt

CONSTANTS
  MaxNotices,  \* bounds the notifications there ever are
  PageSize,    \* PAGE_SIZE
  Task         \* slots of what the page asks; bounds those in flight at once

VARIABLES
  stored,   \* the rows; they are numbered as they come
  untold,   \* rows whose notification:created has not reached the page
  items,    \* the list
  load,     \* the load in flight
  more,     \* how far the list is loaded, and whether there is more
  task,     \* the changes in flight
  moved,    \* history: a row came or went since the first page was read
  crossed   \* history: the list met what it cannot follow

page == <<items, load, more, task>>
vars == <<stored, untold, page, moved, crossed>>

-----------------------------------------------------------------------------
Notice == 1 .. MaxNotices

\* rows there are, the newest first
Rows == Reverse(InOrder({n \in Notice : stored[n] \in {"unread", "read"}}))
Unread == {n \in Notice : stored[n] = "unread"}
Item(n, read) == [id |-> n, read |-> read]

(* A change keeps the list it began with, for its catch.                   *)
Idle == [op |-> "idle"]
Change(op, n) == [op |-> op, pc |-> "asked", n |-> n, prev |-> items]

NoLoad == [pc |-> "idle"]
Load(p) == [pc |-> "asked", page |-> p]

Quiet == untold = {} /\ load = NoLoad /\ \A t \in Task : task[t] = Idle

-----------------------------------------------------------------------------
Init ==
  /\ stored = [n \in Notice |-> "none"] /\ untold = {}
  /\ items = <<>> /\ task = [t \in Task |-> Idle]
  /\ load = Load(1) /\ more = [page |-> 1, has |-> FALSE]
  /\ moved = FALSE /\ crossed = FALSE

-----------------------------------------------------------------------------
(* Rows come, and the page is told.                                        *)

\* NotificationsService.create of somebody else's act; the event follows
Create(n) ==
  /\ stored[n] = "none" /\ (n > 1 => stored[n - 1] # "none")
  /\ stored' = [stored EXCEPT ![n] = "unread"]
  /\ untold' = untold \cup {n}
  /\ moved' = TRUE
  /\ UNCHANGED <<page, crossed>>

\* onCreated
Prepended(n) == <<Item(n, FALSE)>> \o items

Told(n) ==
  /\ n \in untold /\ untold' = untold \ {n}
  /\ items' = Prepended(n)
  /\ crossed' = (crossed \/ load.pc = "answered" \/ stored[n] # "unread")
  /\ UNCHANGED <<stored, load, more, task, moved>>

\* while the socket is down
Lost(n) ==
  /\ n \in untold /\ untold' = untold \ {n}
  /\ crossed' = TRUE
  /\ UNCHANGED <<stored, page, moved>>

\* markAllRead of another page of his, of which this one hears nothing
ReadElsewhere ==
  /\ Unread # {}
  /\ stored' = [n \in Notice |-> IF n \in Unread THEN "read" ELSE stored[n]]
  /\ crossed' = TRUE
  /\ UNCHANGED <<untold, page, moved>>

-----------------------------------------------------------------------------
(* load: by offset, whatever came or went in front of it.                  *)

LoadMore ==
  /\ more.has /\ load = NoLoad
  /\ load' = Load(more.page + 1)
  /\ UNCHANGED <<stored, untold, items, more, task, moved, crossed>>

\* NotificationsRepository.list
Chunk(p) == [i \in 1 .. (IF Len(Rows) >= p * PageSize THEN PageSize
                         ELSE IF Len(Rows) > (p - 1) * PageSize THEN Len(Rows) - (p - 1) * PageSize ELSE 0) |->
               LET n == Rows[(p - 1) * PageSize + i] IN Item(n, stored[n] = "read")]

ReadPage ==
  /\ load.pc = "asked"
  /\ load' = [pc |-> "answered", page |-> load.page, part |-> Chunk(load.page),
              has |-> load.page * PageSize < Len(Rows)]
  /\ moved' = (moved /\ load.page # 1)
  /\ crossed' = \/ crossed \/ untold # {} \/ (moved /\ load.page # 1)
                \/ \E t \in Task : task[t] # Idle
  /\ UNCHANGED <<stored, untold, items, more, task>>

Loaded ==
  /\ load.pc = "answered"
  /\ items' = IF load.page = 1 THEN load.part ELSE items \o load.part
  /\ more' = [page |-> load.page, has |-> load.has]
  /\ load' = NoLoad
  /\ UNCHANGED <<stored, untold, task, moved, crossed>>

\* catch, and the Retry that is offered then
LoadFailed ==
  /\ load # NoLoad
  /\ load' = Load(1)
  /\ UNCHANGED <<stored, untold, items, more, task, moved, crossed>>

-----------------------------------------------------------------------------
(* What the page changes: shown first, asked then, shown back if refused.  *)

Shown(list, op, n) ==
  CASE op = "read" -> [i \in DOMAIN list |-> IF list[i].id = n THEN Item(n, TRUE) ELSE list[i]]
    [] op = "readAll" -> [i \in DOMAIN list |-> Item(list[i].id, TRUE)]
    [] op = "remove" -> Without(Without(list, Item(n, TRUE)), Item(n, FALSE))

\* The buttons of an item, and Mark all read while one is unread.
Offered(op, n) ==
  CASE op = "read" -> \E i \in DOMAIN items : items[i] = Item(n, FALSE)
    [] op = "readAll" -> n = 1 /\ \E i \in DOMAIN items : ~items[i].read
    [] op = "remove" -> \E i \in DOMAIN items : items[i].id = n

Ask(t, op, n) ==
  /\ task[t] = Idle /\ Offered(op, n)
  /\ items' = Shown(items, op, n)
  /\ task' = [task EXCEPT ![t] = Change(op, n)]
  /\ crossed' = (crossed \/ load.pc = "answered")
  /\ UNCHANGED <<stored, untold, load, more, moved>>

\* markRead, markAllRead, remove of the service: the row is his
Reads(t) == IF task[t].op = "readAll" THEN Unread ELSE {task[t].n}

Serve(t) ==
  /\ task[t].op # "idle" /\ task[t].pc = "asked"
  /\ task[t].op # "readAll" => stored[task[t].n] # "gone"
  /\ stored' = [n \in Notice |-> IF n \in Reads(t)
                                   THEN IF task[t].op = "remove" THEN "gone" ELSE "read"
                                   ELSE stored[n]]
  /\ task' = [task EXCEPT ![t].pc = "done"]
  /\ moved' = (moved \/ task[t].op = "remove")
  /\ crossed' = \/ crossed
                \/ task[t].op = "readAll" /\ \/ \E s \in Task \ {t} : task[s] # Idle
                                             \/ Unread \cap untold # {} \/ (Unread # {} /\ load # NoLoad)
                                             \/ \E i \in DOMAIN items : ~items[i].read
  /\ UNCHANGED <<untold, items, load, more>>

Done(t) ==
  /\ task[t].op # "idle" /\ task[t].pc = "done"
  /\ task' = [task EXCEPT ![t] = Idle]
  /\ UNCHANGED <<stored, untold, items, load, more, moved, crossed>>

\* catch: the list it began with, whatever came in between
Restored(t) == task[t].prev

Refused(t) ==
  /\ task[t] # Idle
  /\ items' = Restored(t)
  /\ task' = [task EXCEPT ![t] = Idle]
  /\ crossed' = \/ crossed \/ task[t].pc = "done"
                \/ items # Shown(task[t].prev, task[t].op, task[t].n)
  /\ UNCHANGED <<stored, untold, load, more, moved>>

Next ==
  \/ \E n \in Notice : Create(n) \/ Told(n) \/ Lost(n)
  \/ ReadElsewhere \/ LoadMore \/ ReadPage \/ Loaded \/ LoadFailed
  \/ \E t \in Task :
       \/ \E n \in Notice, op \in {"read", "readAll", "remove"} : Ask(t, op, n)
       \/ Serve(t) \/ Done(t) \/ Refused(t)

Spec == Init /\ [][Next]_vars

-----------------------------------------------------------------------------
\* The rows and the page are well-typed.
TypeOK ==
  /\ stored \in [Notice -> {"none", "unread", "read", "gone"}]
  /\ untold \in SUBSET Notice /\ moved \in BOOLEAN /\ crossed \in BOOLEAN
  /\ \A i \in DOMAIN items : items[i].id \in Notice /\ items[i].read \in BOOLEAN
  /\ load.pc \in {"idle", "asked", "answered"} /\ more.has \in BOOLEAN
  /\ \A t \in Task : task[t].op \in {"idle", "read", "readAll", "remove"}

\* Once nothing is on its way, the list shows the newest rows, each of them once
\* and read if it is read, and all of them when it offers no more.  It does not
\* after a page that was read by an offset rows had moved, or crossed the word of
\* a new row or a change, after Mark all read met a row the page did not show as
\* read yet, a catch that put back a list that had changed in the meantime, an
\* answer that was lost, a row that came while the socket was down, and what
\* another page did.
ListTrue == Quiet /\ ~crossed =>
  /\ Len(items) <= Len(Rows) /\ (~more.has => Len(items) = Len(Rows))
  /\ {items[i] : i \in DOMAIN items} =
       {Item(Rows[i], stored[Rows[i]] = "read") : i \in 1 .. Len(items)}

\* What is claimed ends with the first crossing: what follows need not be explored.
Followed == ~crossed
=============================================================================
