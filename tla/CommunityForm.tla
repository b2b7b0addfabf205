---------------------------- MODULE CommunityForm ----------------------------
(***************************************************************************)
(* The settings of a community on CommunityDetailPage: read by the page's   *)
(* useApiData, copied into a form, saved from it and read again.  The page  *)
(* stays mounted when it goes from one community to another, and so do its  *)
(* form and what its handlers await.                                        *)
(***************************************************************************)
EXTENDS Naturals

CONSTANTS
  Community,  \* communities of the user
  Fetch       \* slots of run; bounds the fetches in flight at once

VARIABLES
  stored,   \* table Community: name, tag and accentColor as one value
  at,       \* the id in the page's location
  data,     \* communityState
  fetch,    \* the fetches in flight
  form,     \* stName, stTag, stAccent, and settingsOpen
  save,     \* the request of saveSettings
  left,     \* history: something was in flight when the page last went on
  carried,  \* history: the form was open as the page went on, or filled while left
  changed   \* history: changed under the data the page has, or unknown to it

vars == <<stored, at, data, fetch, form, save, left, carried, changed>>

-----------------------------------------------------------------------------
\* The settings: for which community they were chosen, and whether they are those
\* it began with or later ones, of the user or of another manager.
Setting == [of : Community, new : BOOLEAN]

Loading == [status |-> "loading"]
Error == [status |-> "error"]
Data == {Loading, Error} \cup [status : {"success"}, of : Community, row : Setting]

\* As in PageData; the server reads while the fetch is asked.
Idle == [pc |-> "idle"]
Run(by, c) == [pc |-> "asked", by |-> by, of |-> c, aborted |-> FALSE]
Reading(f) == [pc |-> "read", by |-> fetch[f].by, of |-> fetch[f].of,
               aborted |-> fetch[f].aborted, row |-> stored[fetch[f].of]]
By == {"effect", "retry"}
Fetches == {Idle}
  \cup [pc : {"asked"}, by : By, of : Community, aborted : BOOLEAN]
  \cup [pc : {"read"}, by : By, of : Community, aborted : BOOLEAN, row : Setting]

Saving == {Idle} \cup [pc : {"asked"}, of : Community, row : Setting]
                 \cup [pc : {"written", "refused"}, of : Community]

\* What a closed form holds is of no account: openSettings fills it.
Closed == [open |-> FALSE]
Opened(row) == [open |-> TRUE, row |-> row]
Forms == {Closed} \cup [open : {TRUE}, row : Setting]

InFlight(f) == fetch[f] # Idle
Rendered == data.status = "success"  \* otherwise a skeleton or an error is shown
Quiet == save = Idle /\ \A f \in Fetch : ~InFlight(f)

Init ==
  /\ stored = [c \in Community |-> [of |-> c, new |-> FALSE]]
  /\ at \in Community
  /\ data = Loading
  /\ \E f \in Fetch : fetch = [g \in Fetch |-> IF g = f THEN Run("effect", at) ELSE Idle]
  /\ form = Closed /\ save = Idle
  /\ left = FALSE /\ carried = FALSE /\ changed = FALSE

-----------------------------------------------------------------------------
(* The data of the page.                                                   *)

Aborted == [f \in Fetch |->
  IF InFlight(f) /\ fetch[f].by = "effect" THEN [fetch[f] EXCEPT !.aborted = TRUE] ELSE fetch[f]]

\* A link of the side bar, or the browser's Back.
Go(f, c) ==
  /\ c # at /\ ~InFlight(f)
  /\ ~left /\ ~carried  \* bound: what one such move leaves behind is followed, not two
  /\ at' = c
  /\ data' = Loading
  /\ fetch' = [Aborted EXCEPT ![f] = Run("effect", c)]
  /\ left' = ~Quiet
  /\ carried' = (carried \/ form.open)
  /\ changed' = FALSE
  /\ UNCHANGED <<stored, form, save>>

FetchRead(f) ==
  /\ fetch[f].pc = "asked"
  /\ fetch' = [fetch EXCEPT ![f] = Reading(f)]
  /\ UNCHANGED <<stored, at, data, form, save, left, carried, changed>>

Answer(f) ==
  /\ fetch[f].pc = "read"
  /\ data' = [status |-> "success", of |-> fetch[f].of, row |-> fetch[f].row]
  /\ fetch' = [fetch EXCEPT ![f] = Idle]
  /\ UNCHANGED <<stored, at, form, save, left, carried, changed>>

Fail(f) ==
  /\ InFlight(f)
  /\ data' = IF fetch[f].aborted THEN data ELSE Error
  /\ fetch' = [fetch EXCEPT ![f] = Idle]
  /\ UNCHANGED <<stored, at, form, save, left, carried, changed>>

\* The button of the error.
Retry(f) ==
  /\ data = Error /\ ~InFlight(f)
  /\ data' = Loading
  /\ fetch' = [fetch EXCEPT ![f] = Run("retry", at)]
  /\ UNCHANGED <<stored, at, form, save, left, carried, changed>>

-----------------------------------------------------------------------------
(* The form.                                                               *)

OpenSettings ==
  /\ Rendered /\ ~form.open
  /\ form' = Opened(data.row)
  /\ carried' = (carried \/ left)
  /\ UNCHANGED <<stored, at, data, fetch, save, left, changed>>

Type ==
  /\ Rendered /\ form.open
  /\ form' = Opened([of |-> at, new |-> TRUE])
  /\ UNCHANGED <<stored, at, data, fetch, save, left, carried, changed>>

Close ==
  /\ Rendered /\ form.open
  /\ form' = Closed
  /\ UNCHANGED <<stored, at, data, fetch, save, left, carried, changed>>

\* The id is that of the location, whatever the form was filled with.
SaveSettings ==
  /\ Rendered /\ form.open /\ save = Idle
  /\ save' = [pc |-> "asked", of |-> at, row |-> form.row]
  /\ UNCHANGED <<stored, at, data, fetch, form, left, carried, changed>>

\* The page's data are read again once it has the answer.
Update ==
  /\ save.pc = "asked"
  /\ stored' = [stored EXCEPT ![save.of] = save.row]
  /\ save' = [pc |-> "written", of |-> save.of]
  /\ UNCHANGED <<at, data, fetch, form, left, carried, changed>>

\* assertManager, or the row is gone
Refuse ==
  /\ save.pc = "asked"
  /\ save' = [pc |-> "refused", of |-> save.of]
  /\ UNCHANGED <<stored, at, data, fetch, form, left, carried, changed>>

\* retry is that of the page as it was when it asked.
Again == save.of

Saved(f) ==
  /\ save.pc = "written" /\ ~InFlight(f)
  /\ data' = Loading
  /\ fetch' = [fetch EXCEPT ![f] = Run("retry", Again)]
  /\ form' = Closed
  /\ save' = Idle
  /\ UNCHANGED <<stored, at, left, carried, changed>>

\* The update may have been made, and the answer be lost.
NotSaved ==
  /\ save.pc \in {"written", "refused"}
  /\ changed' = (changed \/ save.pc = "written")
  /\ save' = Idle
  /\ UNCHANGED <<stored, at, data, fetch, form, left, carried>>

UpdateByOther(c) ==
  /\ stored[c] = [of |-> c, new |-> FALSE]  \* bound
  /\ stored' = [stored EXCEPT ![c] = [of |-> c, new |-> TRUE]]
  /\ changed' = (changed \/ c = at)
  /\ UNCHANGED <<at, data, fetch, form, save, left, carried>>

Next ==
  \/ \E f \in Fetch : \/ FetchRead(f) \/ Answer(f) \/ Fail(f) \/ Retry(f) \/ Saved(f)
                      \/ \E c \in Community : Go(f, c)
  \/ OpenSettings \/ Type \/ Close \/ SaveSettings
  \/ Update \/ Refuse \/ NotSaved
  \/ \E c \in Community : UpdateByOther(c)

Spec == Init /\ [][Next]_vars

-----------------------------------------------------------------------------
\* The table, the page and the requests in flight are well-typed.
TypeOK ==
  /\ stored \in [Community -> Setting] /\ at \in Community
  /\ data \in Data /\ fetch \in [Fetch -> Fetches]
  /\ form \in Forms /\ save \in Saving
  /\ left \in BOOLEAN /\ carried \in BOOLEAN /\ changed \in BOOLEAN

\* The page shows the community it is at, except when it went on while a fetch,
\* or a save that was to fetch again, was on its way.
RightCommunity == Rendered => data.of = at \/ left

\* No community gets the settings of another, unless the page went on to it
\* with its form open, or the form was opened on data that were late.
OwnSettings == carried \/ \A c \in Community : stored[c].of = c

\* A page that shows itself loading has a fetch that will end that.
LoadingIsAwaited ==
  data = Loading => \E f \in Fetch : InFlight(f) /\ ~fetch[f].aborted

\* Once nothing is in flight, the page shows what is stored, whatever it saved,
\* failed to save and went through before, except what somebody changed
\* meanwhile or was written without the page's learning of it.
SavedTrue ==
  Quiet /\ Rendered /\ ~left /\ ~changed => data.row = stored[at]
=============================================================================
