------------------------------ MODULE PageData ------------------------------
(***************************************************************************)
(* useApiData: the data a page loads for what it shows, its deps.  It      *)
(* fetches again when they change and when retry is called.  The fetches   *)
(* that the change leaves behind are aborted, but no caller hands the      *)
(* signal on: they end as they would have ended.                           *)
(***************************************************************************)
EXTENDS Naturals

CONSTANTS
  Subject,  \* what a page may show: a community, a query
  Fetch     \* slots of run; bounds the fetches in flight at once

VARIABLES
  subject,  \* the deps of the page
  state,    \* state of the hook: how far it is, and what its data is of
  fetch,    \* the fetches in flight
  left      \* history: fetches were in flight when the subject last changed

vars == <<subject, state, fetch, left>>

-----------------------------------------------------------------------------
Nothing == "nothing"
Loading == [status |-> "loading", of |-> Nothing]

\* A fetch belongs to the effect, which aborts it, or to a retry.
Idle == [by |-> "nobody"]
Run(by, s) == [by |-> by, of |-> s, aborted |-> FALSE]
Fetches == {Idle} \cup [by : {"effect", "retry"}, of : Subject, aborted : BOOLEAN]

InFlight(f) == fetch[f] # Idle
Awaited(f) == InFlight(f) /\ ~fetch[f].aborted

-----------------------------------------------------------------------------
Init ==
  /\ subject \in Subject
  /\ state = Loading
  /\ \E f \in Fetch : fetch = [g \in Fetch |-> IF g = f THEN Run("effect", subject) ELSE Idle]
  /\ left = FALSE

-----------------------------------------------------------------------------
\* run, up to its await
Started == Loading

\* the effect of a change: its last fetch aborted, the next one begun
Aborted == [f \in Fetch |-> IF fetch[f].by = "effect" THEN [fetch[f] EXCEPT !.aborted = TRUE] ELSE fetch[f]]

Change(f, s) ==
  /\ s # subject /\ ~InFlight(f)
  /\ subject' = s
  /\ state' = Started
  /\ fetch' = [Aborted EXCEPT ![f] = Run("effect", s)]
  /\ left' = \E g \in Fetch : InFlight(g)

Retry(f) ==
  /\ ~InFlight(f)
  /\ state' = Started
  /\ fetch' = [fetch EXCEPT ![f] = Run("retry", subject)]
  /\ UNCHANGED <<subject, left>>

\* then: installed whether or not it was aborted
Answer(f) ==
  /\ InFlight(f)
  /\ state' = [status |-> "success", of |-> fetch[f].of]
  /\ fetch' = [fetch EXCEPT ![f] = Idle]
  /\ UNCHANGED <<subject, left>>

\* catch
Failed(f) == IF fetch[f].aborted THEN state ELSE [status |-> "error", of |-> Nothing]

Fail(f) ==
  /\ InFlight(f)
  /\ state' = Failed(f)
  /\ fetch' = [fetch EXCEPT ![f] = Idle]
  /\ UNCHANGED <<subject, left>>

Next == \E f \in Fetch :
  (\E s \in Subject : Change(f, s)) \/ Retry(f) \/ Answer(f) \/ Fail(f)

Spec == Init /\ [][Next]_vars

-----------------------------------------------------------------------------
\* The hook and its fetches are well-typed.
TypeOK ==
  /\ subject \in Subject
  /\ state \in [status : {"loading", "success", "error"}, of : Subject \cup {Nothing}]
  /\ fetch \in [Fetch -> Fetches] /\ left \in BOOLEAN

\* The data shown is of what the page shows, except when the page went on to
\* another subject while data of the last one was on its way.
RightSubject == state.status = "success" => state.of = subject \/ left

\* A page that shows itself loading has a fetch that will end that, for better
\* or worse: the errors that are ignored are never those of the last fetch.
LoadingIsAwaited == state.status = "loading" => \E f \in Fetch : Awaited(f)
=============================================================================
