------------------------------ MODULE SearchBox ------------------------------
(***************************************************************************)
(* SearchPage: what is typed is searched for after a pause; the search     *)
(* aborts the one before it.                                               *)
(*                                                                         *)
(* An aborted request fails, unless it stands between a 401 and its second *)
(* try: http.ts gives that the same signal, which has aborted already and  *)
(* does so no more.                                                        *)
(***************************************************************************)
EXTENDS Naturals

CONSTANTS
  Query,  \* what may be typed
  Search  \* slots of searchApi.all; bounds those in flight at once

VARIABLES
  query,    \* what stands in the box
  timer,    \* the pause runs
  search,   \* the searches in flight
  results,  \* the query whose results are shown
  shows,    \* loading and error
  behind    \* history: a search in flight that nothing can stop any more

vars == <<query, timer, search, results, shows, behind>>

-----------------------------------------------------------------------------
Blank == "blank"
Idle == [pc |-> "idle"]
Searches == {Idle} \cup [pc : {"asked", "refused"}, of : Query, aborted : BOOLEAN]

InFlight(s) == search[s] # Idle
Awaited(s) == InFlight(s) /\ ~search[s].aborted
End(s) == search' = [search EXCEPT ![s] = Idle]
Looks(loading, error) == [loading |-> loading, error |-> error]

-----------------------------------------------------------------------------
(* Mutated forms: what a plausible slip in the code would make of the      *)
(* definition whose name each one carries.  No action uses them; replacing *)
(* the definition by its form must break the property the form is for.     *)

\* setLoading(false) left to the results, not to finally
FailedLoading == [shows EXCEPT !.error = TRUE]

Init ==
  /\ query = Blank /\ timer = FALSE /\ results = Blank
  /\ search = [s \in Search |-> Idle]
  /\ shows = Looks(FALSE, FALSE)
  /\ behind = FALSE

-----------------------------------------------------------------------------
\* The effect of a keystroke.  A search in flight is not aborted by it, by the
\* next search only; after a box that was emptied there is none.
Type(q) ==
  /\ q # query
  /\ query' = q
  /\ timer' = (q # Blank)
  /\ shows' = Looks(q # Blank, FALSE)
  /\ IF q = Blank
       THEN /\ results' = Blank
            /\ behind' = (behind \/ \E s \in Search : Awaited(s))
       ELSE UNCHANGED <<results, behind>>
  /\ UNCHANGED search

\* abortRef.current?.abort(), the others being aborted already
Aborted == [s \in Search |-> IF InFlight(s) THEN [search[s] EXCEPT !.aborted = TRUE] ELSE search[s]]

\* the pause is over
Fire(s) ==
  /\ timer /\ ~InFlight(s)
  /\ timer' = FALSE
  /\ search' = [Aborted EXCEPT ![s] = [pc |-> "asked", of |-> query, aborted |-> FALSE]]
  /\ behind' = \E t \in Search : search[t].pc = "refused"
  /\ UNCHANGED <<query, results, shows>>

\* 401, and the second try once the session is refreshed
Refuse(s) ==
  /\ search[s].pc = "asked" /\ ~search[s].aborted
  /\ search' = [search EXCEPT ![s].pc = "refused"]
  /\ UNCHANGED <<query, timer, results, shows, behind>>

\* then and finally
Answer(s) ==
  /\ InFlight(s) /\ (search[s].aborted => search[s].pc = "refused")
  /\ results' = search[s].of
  /\ shows' = IF search[s].aborted THEN shows ELSE [shows EXCEPT !.loading = FALSE]
  /\ End(s)
  /\ UNCHANGED <<query, timer, behind>>

\* catch and finally
Failed == Looks(FALSE, TRUE)

Fail(s) ==
  /\ InFlight(s)
  /\ shows' = IF search[s].aborted THEN shows ELSE Failed
  /\ End(s)
  /\ UNCHANGED <<query, timer, results, behind>>

Next ==
  \/ \E q \in Query \cup {Blank} : Type(q)
  \/ \E s \in Search : Fire(s) \/ Refuse(s) \/ Answer(s) \/ Fail(s)

Spec == Init /\ [][Next]_vars

-----------------------------------------------------------------------------
\* The box and its searches are well-typed.
TypeOK ==
  /\ query \in Query \cup {Blank} /\ results \in Query \cup {Blank}
  /\ timer \in BOOLEAN /\ behind \in BOOLEAN
  /\ shows \in [loading : BOOLEAN, error : BOOLEAN]
  /\ search \in [Search -> Searches]

\* What is shown once nothing is awaited any more is what was searched for last,
\* except after a search that was overtaken when nothing could abort it: the box
\* was emptied, or it stood before its second try.
RightResults ==
  ~timer /\ (\A s \in Search : ~Awaited(s)) /\ ~shows.error => results = query \/ behind

\* A page that shows itself loading has the pause or a search to end that.
LoadingIsAwaited == shows.loading => timer \/ \E s \in Search : Awaited(s)
=============================================================================
