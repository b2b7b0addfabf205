--------------------------- MODULE SessionsProofs ---------------------------
(***************************************************************************)
(* Theorems about Sessions, for every set of pages, browsers, sessions and *)
(* requests.                                                               *)
(***************************************************************************)
EXTENDS Sessions, TLAPS

-----------------------------------------------------------------------------
(* Requests: what each way of changing one leaves behind. *)

Open == {"find", "refused"}

LEMMA NewTyped ==
  ASSUME TypeOK, NEW p \in Page, NEW kind \in Kind, NEW pc \in Open
  PROVE  New(p, kind, pc) \in Request
  <1>1. cookie[Jar[p]] \in Session \cup {None}
    BY JarAssumption DEF TypeOK
  <1> QED
    BY <1>1 DEF New, Request, At, Open

LEMMA SendTyped ==
  ASSUME TypeOK, NEW p \in Page, NEW kind \in Kind, NEW pc \in Open, Send(p, kind, pc)
  PROVE  req' \in [Req -> Request]
  BY NewTyped DEF Send, TypeOK

LEMMA ShareTyped ==
  ASSUME TypeOK, NEW p \in Page, Share(p)
  PROVE  req' \in [Req -> Request]
  BY SendTyped DEF Share, TypeOK, Kind, Open

\* What a request that is given up becomes.
LEMMA Orphaned ==
  ASSUME TypeOK, NEW r \in Req
  PROVE  /\ Orphan(r) \in Request
         /\ Orphan(r).page = None
         /\ req[r].pc = "create"
              => Orphan(r).kind = req[r].kind /\ Orphan(r).pc = "create"
  <1>1. req[r] \in Request
    BY DEF TypeOK
  <1>2. CASE Reading(r)
    BY <1>2 DEF Orphan, Reading, Idle, Request
  <1>3. CASE ~Reading(r)
    BY <1>1, <1>3 DEF Orphan, Request, At, Idle
  <1> QED
    BY <1>2, <1>3

LEMMA FreeTyped ==
  ASSUME TypeOK, NEW r \in Req, Free(r) \/ GiveUp(r)
  PROVE  req' \in [Req -> Request]
  <1>1. req[r] \in Request /\ Idle \in Request
    BY DEF TypeOK, Request
  <1>2. CASE Free(r)
    BY <1>1, <1>2 DEF Free, TypeOK
  <1>3. CASE GiveUp(r)
    BY <1>3, Orphaned DEF GiveUp, TypeOK
  <1> QED
    BY <1>2, <1>3

\* A request at one of the statements of the server keeps its type.
LEMMA ReplyTyped ==
  ASSUME TypeOK, NEW r \in Req, NEW pc, Reply(r, pc),
         \/ req[r].pc = "find" /\ pc = "refused"
         \/ req[r].pc = "find" /\ req[r].kind = "login" /\ pc = "create"
         \/ req[r].pc = "find" /\ req[r].kind = "logout" /\ pc = "ok"
         \/ req[r].pc = "revoke" /\ req[r].kind = "refresh" /\ pc = "create"
         \/ req[r].pc = "revoke" /\ pc = "ok"
         \/ req[r].pc = "refused" /\ pc = "refused.body"
         \/ req[r].pc = "ok" /\ req[r].kind # "logout" /\ pc = "ok.body"
  PROVE  req' \in [Req -> Request]
  <1>1. req[r] \in Request
    BY DEF TypeOK
  <1>2. [req[r] EXCEPT !.pc = pc] \in Request
    <2>1. CASE req[r] \in At(Kind, {"find", "refused", "refused.body"}, {None})
      BY <2>1 DEF Request, At
    <2>2. CASE req[r] \in At({"refresh", "logout"}, {"revoke"}, Session)
      BY <2>2 DEF Request, At, Kind
    <2>3. CASE req[r] \in At(Kind, {"ok"}, Session)
      BY <2>3 DEF Request, At, Kind
    <2> QED
      BY <1>1, <2>1, <2>2, <2>3 DEF Request, At, Idle
  <1> QED
    BY <1>2 DEF Reply, TypeOK

LEMMA MatchedTyped ==
  ASSUME TypeOK, NEW r \in Req, NEW pc, NEW s \in Session, Matched(r, pc, s),
         \/ req[r].pc = "find" /\ req[r].kind \in {"refresh", "logout"} /\ pc = "revoke"
         \/ req[r].pc = "create" /\ pc = "ok"
  PROVE  req' \in [Req -> Request]
  <1> DEFINE matched == [req[r] EXCEPT !.pc = pc, !.session = s]
  <1>1. \/ req[r] \in At(Kind, {"find", "refused", "refused.body"}, {None})
        \/ req[r] \in At({"login"}, {"create"}, {None})
        \/ req[r] \in At({"refresh"}, {"create"}, Session)
    BY DEF TypeOK, Request, At, Idle
  <1>2. matched \in At({"refresh", "logout"}, {"revoke"}, Session) \cup At(Kind, {"ok"}, Session)
    <2>1. CASE req[r] \in At(Kind, {"find", "refused", "refused.body"}, {None})
      BY <2>1 DEF At
    <2>2. CASE req[r] \in At({"login"}, {"create"}, {None})
      BY <2>2 DEF At, Kind
    <2>3. CASE req[r] \in At({"refresh"}, {"create"}, Session)
      BY <2>3 DEF At, Kind
    <2> QED
      BY <1>1, <2>1, <2>2, <2>3
  <1>3. matched \in Request
    BY <1>2 DEF Request
  <1> QED
    BY <1>3 DEF Matched, TypeOK

\* What a request has matched or made is a session, unless it is a logout
\* that found nothing to do.
LEMMA SessionMatched ==
  ASSUME TypeOK, NEW r \in Req,
         \/ req[r].pc = "revoke"
         \/ req[r].pc = "ok" /\ req[r].kind # "logout"
  PROVE  req[r].session \in Session
  <1>1. req[r] \in Request
    BY DEF TypeOK
  <1> QED
    BY <1>1 DEF Request, At, Idle

-----------------------------------------------------------------------------
(* Calls. *)

LEMMA SetTyped ==
  ASSUME TypeOK, NEW p \in Page, NEW o \in Op, NEW stage \in Stage, Set(p, o, stage)
  PROVE  call' \in [Page -> [Op -> Stage]]
  BY DEF Set, TypeOK

LEMMA ReleasedTyped ==
  ASSUME TypeOK, NEW p \in Page, NEW stage \in Stage, Released(p, stage)
  PROVE  call' \in [Page -> [Op -> Stage]]
  BY DEF Released, TypeOK

LEMMA FailedTyped ==
  ASSUME TypeOK, NEW p \in Page, Failed(p)
  PROVE  /\ call' \in [Page -> [Op -> Stage]]
         /\ token' \in [Page -> BOOLEAN]
         /\ status' \in [Page -> Status]
  BY ReleasedTyped DEF Failed, TypeOK, Stage, Status

LEMMA OverTyped ==
  ASSUME TypeOK, NEW p \in Page, NEW kind \in {"login", "logout"}, Over(p, kind)
  PROVE  /\ call' \in [Page -> [Op -> Stage]]
         /\ token' \in [Page -> BOOLEAN]
         /\ status' \in [Page -> Status]
  <1>1. call' \in [Page -> [Op -> Stage]]
    BY SetTyped DEF Over, Op, Stage
  <1> QED
    BY <1>1 DEF Over, TypeOK, Status

LEMMA ApplyTyped ==
  ASSUME TypeOK, NEW p \in Page, NEW r \in Req, Apply(p, r)
  PROVE  /\ token' \in [Page -> BOOLEAN]
         /\ status' \in [Page -> Status]
         /\ req' \in [Req -> Request]
  <1>1. req' \in [Req -> Request]
    BY FreeTyped DEF Apply
  <1> QED
    BY <1>1 DEF Apply, TypeOK, Status

-----------------------------------------------------------------------------
(* Type correctness. *)

LEMMA InitTyped == Init => TypeOK
  <1> SUFFICES ASSUME Init PROVE TypeOK
    OBVIOUS
  <1>1. req \in [Req -> Request]
    BY DEF Init, Request
  <1>2. call \in [Page -> [Op -> Stage]]
    BY DEF Init, Stage
  <1>3. status \in [Page -> Status]
    BY DEF Init, Status
  <1> QED
    BY <1>1, <1>2, <1>3 DEF Init, TypeOK

\* The steps of the server.
LEMMA ServerTyped ==
  ASSUME TypeOK, Server
  PROVE  TypeOK'
  <1>1. ASSUME NEW r \in Req, FindSession(r)
        PROVE  TypeOK'
    <2>1. req' \in [Req -> Request]
      BY <1>1, MatchedTyped, ReplyTyped DEF FindSession, Live
    <2> QED
      BY <1>1, <2>1 DEF FindSession, table, pages, TypeOK
  <1>2. ASSUME NEW r \in Req, CheckPassword(r)
        PROVE  TypeOK'
    <2>1. req' \in [Req -> Request]
      BY <1>2, ReplyTyped DEF CheckPassword
    <2> QED
      BY <1>2, <2>1 DEF CheckPassword, table, pages, TypeOK
  <1>3. ASSUME NEW r \in Req, FindLogout(r)
        PROVE  TypeOK'
    <2>1. req' \in [Req -> Request]
      BY <1>3, MatchedTyped, ReplyTyped DEF FindLogout, Unrevoked
    <2> QED
      BY <1>3, <2>1 DEF FindLogout, table, pages, TypeOK
  <1>4. ASSUME NEW r \in Req, Revoke(r)
        PROVE  TypeOK'
    <2>1. req' \in [Req -> Request]
      BY <1>4, ReplyTyped DEF Revoke
    <2>2. ended' \in BOOLEAN
      BY <1>4 DEF Revoke, TypeOK
    <2>3. session' \in [Session -> {"none", "live", "revoked", "expired"}]
      BY <1>4 DEF Revoke, TypeOK
    <2> QED
      BY <1>4, <2>1, <2>2, <2>3 DEF Revoke, pages, TypeOK
  <1>5. ASSUME NEW r \in Req, Create(r)
        PROVE  TypeOK'
    <2>1. req' \in [Req -> Request]
      BY <1>5, MatchedTyped DEF Create
    <2> QED
      BY <1>5, <2>1 DEF Create, pages, TypeOK
  <1>6. ASSUME NEW r \in Req, Unheard(r)
        PROVE  TypeOK'
    <2>1. req' \in [Req -> Request]
      BY <1>6, FreeTyped DEF Unheard
    <2> QED
      BY <1>6, <2>1 DEF Unheard, table, pages, TypeOK
  <1>7. ASSUME NEW gone \in SUBSET Session, NEW as \in {"revoked", "expired"}, End(gone, as)
        PROVE  TypeOK'
    BY <1>7 DEF End, pages, TypeOK
  <1>8. \A s \in Session : {s} \in SUBSET Session
    OBVIOUS
  <1>9. Unrevoked \in SUBSET Session
    BY DEF Unrevoked
  <1> QED
    BY <1>1, <1>2, <1>3, <1>4, <1>5, <1>6, <1>7, <1>8, <1>9
    DEF Server, RevokeSession, RevokeAll, Expire

\* The steps of a page to do with its refresh.
LEMMA RefreshTyped ==
  ASSUME TypeOK, NEW p \in Page, Load(p) \/ RefreshEnds(p) \/ RefreshUser(p)
  PROVE  TypeOK'
  <1>1. CASE Load(p)
    <2>1. New(p, "refresh", "find") \in Request
      BY NewTyped DEF Kind, Open
    <2>2. \A q \in Req : Orphan(q) \in Request
      BY Orphaned
    <2>3. req' \in [Req -> Request]
      BY <1>1, <2>1, <2>2 DEF Load, TypeOK
    <2> QED
      BY <1>1, <2>3 DEF Load, table, TypeOK, Status, Stage
  <1>2. ASSUME NEW r \in Req, Refreshed(p, r)
        PROVE  TypeOK'
    <2>1. call' \in [Page -> [Op -> Stage]]
      BY <1>2, ReleasedTyped DEF Refreshed, Stage
    <2>2. /\ token' \in [Page -> BOOLEAN]
          /\ status' \in [Page -> Status]
          /\ req' \in [Req -> Request]
      BY <1>2, ApplyTyped DEF Refreshed
    <2> QED
      BY <1>2, <2>1, <2>2 DEF Refreshed, table, TypeOK
  <1>3. ASSUME NEW r \in Req, NotRefreshed(p, r)
        PROVE  TypeOK'
    <2>1. req' \in [Req -> Request]
      BY <1>3, FreeTyped DEF NotRefreshed
    <2> QED
      BY <1>3, <2>1, FailedTyped DEF NotRefreshed, table, TypeOK
  <1>4. CASE RefreshUser(p)
    BY <1>4, ShareTyped DEF RefreshUser, table, pages, TypeOK
  <1> QED
    BY <1>1, <1>2, <1>3, <1>4 DEF RefreshEnds

\* The headers of an answer.
LEMMA HeadersTyped ==
  ASSUME TypeOK, NEW p \in Page, NEW r \in Req, NEW kind \in Kind, Headers(p, r, kind)
  PROVE  TypeOK'
  <1>1. req' \in [Req -> Request]
    BY ReplyTyped DEF Headers, Of
  <1>2. cookie' \in [Browser -> Session \cup {None}]
    <2>1. CASE req[r].pc = "ok" /\ kind # "logout"
      <3>1. req[r].session \in Session
        BY <2>1, SessionMatched DEF Headers, Of
      <3> QED
        BY <2>1, <3>1, JarAssumption DEF Headers, TypeOK
    <2> QED
      BY <2>1 DEF Headers, TypeOK
  <1> QED
    BY <1>1, <1>2 DEF Headers, table, pages, TypeOK

\* The API calls of a page.
LEMMA CallTyped ==
  ASSUME TypeOK, NEW p \in Page, NEW c \in Call,
         CallSend(p, c) \/ CallHeaders(p, c) \/ CallEnds(p, c)
  PROVE  TypeOK'
  <1>1. c \in Op
    BY DEF Op
  <1>2. CASE CallSend(p, c)
    BY <1>1, <1>2, SetTyped DEF CallSend, Stage, table, TypeOK
  <1>3. CASE CallHeaders(p, c)
    BY <1>1, <1>3, SetTyped DEF CallHeaders, Stage, table, TypeOK
  <1>4. CASE CallOver(p, c) \/ CallDone(p, c)
    BY <1>1, <1>4, SetTyped DEF CallOver, CallDone, Stage, table, TypeOK
  <1>5. CASE CallRefused(p, c)
    BY <1>1, <1>5, SetTyped, ShareTyped DEF CallRefused, Stage, table, TypeOK
  <1> QED
    BY <1>2, <1>3, <1>4, <1>5 DEF CallEnds

\* Its login and its logout.
LEMMA OwnTyped ==
  ASSUME TypeOK, NEW p \in Page,
         \/ Login(p) \/ Logout(p)
         \/ \E kind \in {"login", "logout"} : Retry(p, kind) \/ OwnEnds(p, kind)
  PROVE  TypeOK'
  <1>1. CASE Login(p)
    <2>1. req' \in [Req -> Request]
      BY <1>1, SendTyped DEF Login, Kind, Open
    <2> QED
      BY <1>1, <2>1, SetTyped DEF Login, Op, Stage, table, TypeOK
  <1>2. CASE Logout(p)
    <2>1. req' \in [Req -> Request]
      BY <1>2, SendTyped DEF Logout, Guarded, Kind, Open
    <2> QED
      BY <1>2, <2>1, SetTyped DEF Logout, Op, Stage, table, TypeOK
  <1>3. ASSUME NEW kind \in {"login", "logout"}, Retry(p, kind)
        PROVE  TypeOK'
    <2>1. req' \in [Req -> Request]
      BY <1>3, SendTyped DEF Retry, Guarded, Kind, Open
    <2> QED
      BY <1>3, <2>1 DEF Retry, pages, table, TypeOK
  <1>4. ASSUME NEW r \in Req, LoggedIn(p, r)
        PROVE  TypeOK'
    <2>1. call' \in [Page -> [Op -> Stage]]
      BY <1>4, SetTyped DEF LoggedIn, Op, Stage
    <2>2. /\ token' \in [Page -> BOOLEAN]
          /\ status' \in [Page -> Status]
          /\ req' \in [Req -> Request]
      BY <1>4, ApplyTyped DEF LoggedIn
    <2> QED
      BY <1>4, <2>1, <2>2 DEF LoggedIn, table, TypeOK
  <1>5. ASSUME NEW r \in Req, LoggedOut(p, r)
        PROVE  TypeOK'
    <2>1. req' \in [Req -> Request]
      BY <1>5, FreeTyped DEF LoggedOut
    <2> QED
      BY <1>5, <2>1, OverTyped DEF LoggedOut, table, TypeOK
  <1>6. ASSUME NEW kind \in {"login", "logout"}, NEW r \in Req, Refused(p, kind, r)
        PROVE  TypeOK'
    <2>1. New(p, "refresh", "find") \in Request /\ Idle \in Request
      BY NewTyped DEF Kind, Open, Request
    <2>2. req' \in [Req -> Request]
      BY <1>6, <2>1 DEF Refused, TypeOK
    <2> QED
      BY <1>6, <2>2, SetTyped DEF Refused, Op, Stage, table, TypeOK
  <1>7. ASSUME NEW kind \in {"login", "logout"}, Unanswered(p, kind)
        PROVE  TypeOK'
    <2>1. req' \in [Req -> Request]
      BY <1>7, FreeTyped DEF Unanswered, TypeOK
    <2> QED
      BY <1>7, <2>1, OverTyped DEF Unanswered, table, TypeOK
  <1> QED
    BY <1>1, <1>2, <1>3, <1>4, <1>5, <1>6, <1>7 DEF OwnEnds

LEMMA NextTyped == TypeOK /\ [Next]_vars => TypeOK'
  <1>1. ASSUME TypeOK, UNCHANGED vars
        PROVE  TypeOK'
    BY <1>1 DEF TypeOK, vars
  <1> QED
    BY <1>1, ServerTyped, RefreshTyped, HeadersTyped, CallTyped, OwnTyped DEF Next, Client

\* Every variable keeps its type: a rotation works on a session that exists,
\* a page is answered with one, and a logout alone may find nothing to do.
THEOREM Typing == Spec => []TypeOK
  <1> QED
    BY InitTyped, NextTyped, PTL DEF Spec

-----------------------------------------------------------------------------
(* Rotation never strands the account. *)

\* No refresh between its two statements is lost.
Kept == \A r \in Req :
  (req[r].kind = "refresh" /\ req[r].pc = "create")
    => (req'[r].kind = "refresh" /\ req'[r].pc = "create")

LEMMA KeptKeeps ==
  ASSUME NeverStranded, Kept, UNCHANGED table
  PROVE  NeverStranded'
  BY DEF NeverStranded, Kept, table, Live

LEMMA SendKept ==
  ASSUME TypeOK, NEW p, NEW kind, NEW pc, Send(p, kind, pc) \/ Share(p)
  PROVE  Kept
  BY DEF Send, Share, Kept, Idle, TypeOK

LEMMA FreeKept ==
  ASSUME TypeOK, NEW r \in Req, GiveUp(r) \/ (Free(r) /\ req[r].pc # "create")
  PROVE  Kept
  BY Orphaned DEF GiveUp, Free, Kept, TypeOK

LEMMA ReplyKept ==
  ASSUME TypeOK, NEW r \in Req, NEW pc, NEW s, Reply(r, pc) \/ Matched(r, pc, s),
         req[r].pc # "create"
  PROVE  Kept
  BY DEF Reply, Matched, Kept, TypeOK

LEMMA InitStranded == Init => NeverStranded
  BY DEF Init, NeverStranded

LEMMA ServerStranded ==
  ASSUME TypeOK, NeverStranded, Server
  PROVE  NeverStranded'
  <1>1. ASSUME NEW r \in Req, FindSession(r) \/ CheckPassword(r) \/ FindLogout(r)
        PROVE  NeverStranded'
    BY <1>1, ReplyKept, KeptKeeps DEF FindSession, CheckPassword, FindLogout
  <1>2. ASSUME NEW r \in Req, Revoke(r)
        PROVE  NeverStranded'
    <2>1. req[r] \in At({"refresh", "logout"}, {"revoke"}, Session)
      BY <1>2 DEF Revoke, TypeOK, Request, At, Idle
    <2>2. CASE req[r].kind = "refresh"
      <3>1. req'[r].kind = "refresh" /\ req'[r].pc = "create"
        BY <1>2, <2>1, <2>2 DEF Revoke, Reply, TypeOK, At
      <3> QED
        BY <3>1 DEF NeverStranded
    <2>3. CASE req[r].kind = "logout"
      BY <1>2, <2>3 DEF Revoke, NeverStranded
    <2> QED
      BY <2>1, <2>2, <2>3 DEF At
  <1>3. ASSUME NEW r \in Req, Create(r)
        PROVE  NeverStranded'
    <2>1. Live' # {}
      BY <1>3 DEF Create, Live, TypeOK
    <2> QED
      BY <2>1 DEF NeverStranded
  <1>4. ASSUME NEW r \in Req, Unheard(r)
        PROVE  NeverStranded'
    BY <1>4, FreeKept, KeptKeeps DEF Unheard
  <1>5. ASSUME NEW gone, NEW as, End(gone, as)
        PROVE  NeverStranded'
    BY <1>5 DEF End, NeverStranded
  <1> QED
    BY <1>1, <1>2, <1>3, <1>4, <1>5 DEF Server, RevokeSession, RevokeAll, Expire

LEMMA ClientStranded ==
  ASSUME TypeOK, NeverStranded, NEW p \in Page, Client(p)
  PROVE  NeverStranded'
  <1>1. ASSUME Load(p)
        PROVE  Kept /\ UNCHANGED table
    BY <1>1, Orphaned DEF Load, Kept, Idle
  <1>2. ASSUME RefreshEnds(p)
        PROVE  Kept /\ UNCHANGED table
    BY <1>2, FreeKept DEF RefreshEnds, Refreshed, NotRefreshed, Apply
  <1>3. ASSUME RefreshUser(p)
        PROVE  Kept /\ UNCHANGED table
    BY <1>3, SendKept DEF RefreshUser
  <1>4. ASSUME NEW c \in Call, CallSend(p, c) \/ CallHeaders(p, c) \/ CallEnds(p, c)
        PROVE  Kept /\ UNCHANGED table
    <2>1. UNCHANGED req => Kept
      BY DEF Kept
    <2> QED
      BY <1>4, <2>1, SendKept
      DEF CallSend, CallHeaders, CallEnds, CallOver, CallDone, CallRefused
  <1>5. ASSUME \/ Login(p) \/ Logout(p)
               \/ \E kind \in {"login", "logout"} : Retry(p, kind)
        PROVE  Kept /\ UNCHANGED table
    BY <1>5, SendKept DEF Login, Logout, Retry
  <1>6. ASSUME NEW kind \in {"login", "logout"}, OwnEnds(p, kind)
        PROVE  Kept /\ UNCHANGED table
    <2>1. CASE Unanswered(p, kind)
      <3>1. UNCHANGED req => Kept
        BY DEF Kept
      <3> QED
        BY <2>1, <3>1, FreeKept DEF Unanswered
    <2>2. ASSUME NEW r \in Req, Refused(p, kind, r)
          PROVE  Kept /\ UNCHANGED table
      BY <2>2 DEF Refused, Kept, TypeOK
    <2>3. ASSUME NEW r \in Req, LoggedIn(p, r) \/ LoggedOut(p, r)
          PROVE  Kept /\ UNCHANGED table
      BY <2>3, FreeKept DEF LoggedIn, LoggedOut, Apply
    <2> QED
      BY <1>6, <2>1, <2>2, <2>3 DEF OwnEnds
  <1>7. ASSUME NEW r \in Req, NEW kind \in Kind, Headers(p, r, kind)
        PROVE  Kept /\ UNCHANGED table
    BY <1>7, ReplyKept DEF Headers
  <1> QED
    BY <1>1, <1>2, <1>3, <1>4, <1>5, <1>6, <1>7, KeptKeeps DEF Client

\* However many refreshes of however many pages race, and whichever sessions
\* they match, the account is never left without a session, or one about to
\* be stored, before somebody has ended a session.
THEOREM Stranded == Spec => []NeverStranded
  <1>1. TypeOK /\ NeverStranded /\ [Next]_vars => NeverStranded'
    <2>1. ASSUME NeverStranded, UNCHANGED vars
          PROVE  NeverStranded'
      BY <2>1 DEF NeverStranded, Live, vars
    <2> QED
      BY <2>1, ServerStranded, ClientStranded DEF Next
  <1> QED
    BY <1>1, InitStranded, Typing, PTL DEF Spec

-----------------------------------------------------------------------------
(* The refresh that the callers of a page share. *)

Flights(p) == {r \in Req : Of(r, p, "refresh")}
Awaits(p) == status[p] = "loading" \/ SomeWait(p)

\* What the two invariants say of one page.
Flown(p) ==
  /\ \A q, r \in Flights(p) : q = r
  /\ Awaits(p) => Flights(p) # {}

LEMMA FlownEach == (AwaitedIsInFlight /\ SingleFlight) <=> \A p \in Page : Flown(p)
  BY DEF AwaitedIsInFlight, SingleFlight, Flown, Flights, Awaits, Refreshing

LEMMA SameFlown ==
  ASSUME NEW p \in Page, Flown(p), Flights(p)' = Flights(p), Awaits(p)' => Awaits(p)
  PROVE  Flown(p)'
  BY DEF Flown

\* A page that a step does not touch awaits as before.
LEMMA Untouched ==
  ASSUME NEW x \in Page, status'[x] = status[x], call'[x] = call[x]
  PROVE  Awaits(x)' => Awaits(x)
  BY DEF Awaits, SomeWait, Waiting

LEMMA ReplyFlights ==
  ASSUME TypeOK, NEW r \in Req, NEW pc, NEW s, Reply(r, pc) \/ Matched(r, pc, s)
  PROVE  \A x \in Page : Flights(x)' = Flights(x)
  <1>1. req[r] \in Request
    BY DEF TypeOK
  <1>2. /\ [req[r] EXCEPT !.pc = pc].page = req[r].page
        /\ [req[r] EXCEPT !.pc = pc].kind = req[r].kind
        /\ [req[r] EXCEPT !.pc = pc, !.session = s].page = req[r].page
        /\ [req[r] EXCEPT !.pc = pc, !.session = s].kind = req[r].kind
    BY <1>1 DEF Request, At, Idle
  <1> QED
    BY <1>2 DEF Reply, Matched, Flights, Of, TypeOK

\* A slot that holds a refresh of none, before and after, matters to none.
LEMMA OtherFlights ==
  ASSUME TypeOK, NEW r \in Req, NEW new, req' = [req EXCEPT ![r] = new],
         NEW x \in Page, ~Of(r, x, "refresh"), ~(new.page = x /\ new.kind = "refresh")
  PROVE  Flights(x)' = Flights(x)
  BY DEF Flights, Of, TypeOK

LEMMA SendFlights ==
  ASSUME TypeOK, NEW p \in Page, NEW kind \in {"login", "logout"}, NEW pc, Send(p, kind, pc)
  PROVE  \A x \in Page : Flights(x)' = Flights(x)
  <1>1. PICK r \in Req : req[r] = Idle /\ req' = [req EXCEPT ![r] = New(p, kind, pc)]
    BY DEF Send
  <1>2. req[r].kind # "refresh" /\ New(p, kind, pc).kind # "refresh"
    BY <1>1 DEF New, Idle
  <1> QED
    BY <1>1, <1>2, OtherFlights DEF Of

LEMMA ShareFlights ==
  ASSUME TypeOK, NEW p \in Page, \A q, r \in Flights(p) : q = r, Share(p)
  PROVE  /\ \A x \in Page \ {p} : Flights(x)' = Flights(x)
         /\ Flights(p)' # {}
         /\ \A q, r \in Flights(p)' : q = r
  <1>1. CASE Refreshing(p)
    BY <1>1 DEF Share, Refreshing, Flights, Of
  <1>2. CASE ~Refreshing(p)
    <2>1. PICK r \in Req : req[r] = Idle /\ req' = [req EXCEPT ![r] = New(p, "refresh", "find")]
      BY <1>2 DEF Share, Send
    <2>2. \A x \in Page \ {p} : Flights(x)' = Flights(x)
      <3>1. req[r].kind # "refresh" /\ New(p, "refresh", "find").page = p
        BY <2>1 DEF New, Idle
      <3> QED
        BY <2>1, <3>1, OtherFlights DEF Of
    <2>3. Flights(p)' = {r}
      BY <1>2, <2>1 DEF Refreshing, Flights, Of, New, TypeOK
    <2> QED
      BY <2>2, <2>3
  <1> QED
    BY <1>1, <1>2

\* A request that its page no longer awaits.
LEMMA FreeFlights ==
  ASSUME TypeOK, NEW p \in Page, NEW kind, NEW r \in Req, Of(r, p, kind),
         Free(r) \/ GiveUp(r)
  PROVE  /\ Flights(p)' \subseteq Flights(p)
         /\ kind # "refresh" => Flights(p)' = Flights(p)
         /\ \A x \in Page \ {p} : Flights(x)' = Flights(x)
  <1>1. PICK new : req' = [req EXCEPT ![r] = new] /\ new.page = None
    <2>1. CASE Free(r)
      <3>1. req' = [req EXCEPT ![r] = Idle]
        BY <2>1 DEF Free
      <3>2. Idle.page = None
        BY DEF Idle
      <3> QED
        BY <3>1, <3>2
    <2>2. CASE GiveUp(r)
      BY <2>2, Orphaned DEF GiveUp
    <2> QED
      BY <2>1, <2>2
  <1>2. \A x \in Page : new.page # x
    BY <1>1, NoneAssumption
  <1>3. \A x \in Page \ {p} : Flights(x)' = Flights(x)
    BY <1>1, <1>2, OtherFlights DEF Of
  <1>4. kind # "refresh" => Flights(p)' = Flights(p)
    BY <1>1, <1>2, OtherFlights DEF Of
  <1>5. Flights(p)' \subseteq Flights(p)
    BY <1>1, <1>2 DEF Flights, Of, TypeOK
  <1> QED
    BY <1>3, <1>4, <1>5

\* A step of page p leaves every other page as it is.
LEMMA Elsewhere ==
  ASSUME \A x \in Page : Flown(x), NEW p \in Page, Flown(p)',
         \A x \in Page \ {p} : Flights(x)' = Flights(x),
         \A x \in Page \ {p} : status'[x] = status[x] /\ call'[x] = call[x]
  PROVE  \A x \in Page : Flown(x)'
  BY SameFlown, Untouched

\* A call that is set to anything but wait makes its page await nothing more.
LEMMA SetAwaits ==
  ASSUME TypeOK, NEW p \in Page, NEW o \in Op, NEW stage, Set(p, o, stage),
         stage # "wait", status'[p] = "loading" => status[p] = "loading"
  PROVE  /\ Awaits(p)' => Awaits(p)
         /\ \A x \in Page \ {p} : call'[x] = call[x]
  BY DEF Set, Awaits, SomeWait, Waiting, TypeOK

LEMMA ReleasedAwaits ==
  ASSUME TypeOK, NEW p \in Page, NEW stage, Released(p, stage), stage # "wait",
         status'[p] # "loading"
  PROVE  /\ ~Awaits(p)'
         /\ \A x \in Page \ {p} : call'[x] = call[x]
  BY DEF Released, Awaits, SomeWait, Waiting, TypeOK

LEMMA OverAwaits ==
  ASSUME TypeOK, NEW p \in Page, NEW kind \in {"login", "logout"}, Over(p, kind)
  PROVE  /\ Awaits(p)' => Awaits(p)
         /\ \A x \in Page \ {p} : status'[x] = status[x] /\ call'[x] = call[x]
  <1>1. /\ status'[p] = "loading" => status[p] = "loading"
        /\ \A x \in Page \ {p} : status'[x] = status[x]
    BY DEF Over, TypeOK
  <1>2. kind \in Op /\ Set(p, kind, "none")
    BY DEF Over, Op
  <1> QED
    BY <1>1, <1>2, SetAwaits

LEMMA InitFlown == Init => \A p \in Page : Flown(p)
  <1> SUFFICES ASSUME Init, NEW p \in Page PROVE Flown(p)
    OBVIOUS
  <1>1. Flights(p) = {}
    BY DEF Init, Flights, Of, Idle
  <1>2. ~Awaits(p)
    BY DEF Init, Awaits, SomeWait, Waiting
  <1> QED
    BY <1>1, <1>2 DEF Flown

LEMMA ServerFlown ==
  ASSUME TypeOK, \A x \in Page : Flown(x), Server
  PROVE  \A x \in Page : Flown(x)'
  <1>1. UNCHANGED <<status, call>>
    BY DEF Server, FindSession, CheckPassword, FindLogout, Revoke, Create, Unheard,
           RevokeSession, RevokeAll, Expire, End, pages
  <1>2. \A x \in Page : Flights(x)' = Flights(x)
    <2>1. ASSUME NEW r \in Req,
                 \/ FindSession(r) \/ CheckPassword(r) \/ FindLogout(r)
                 \/ Revoke(r) \/ Create(r)
          PROVE  \A x \in Page : Flights(x)' = Flights(x)
      BY <2>1, ReplyFlights DEF FindSession, CheckPassword, FindLogout, Revoke, Create
    <2>2. ASSUME NEW r \in Req, Unheard(r)
          PROVE  \A x \in Page : Flights(x)' = Flights(x)
      <3>1. req' = [req EXCEPT ![r] = Idle]
        BY <2>2 DEF Unheard, Free
      <3>2. \A x \in Page : req[r].page # x /\ Idle.page # x
        BY <2>2, NoneAssumption DEF Unheard, Idle
      <3> QED
        BY <3>1, <3>2, OtherFlights DEF Of
    <2>3. UNCHANGED req => \A x \in Page : Flights(x)' = Flights(x)
      BY DEF Flights, Of
    <2> QED
      BY <2>1, <2>2, <2>3 DEF Server, RevokeSession, RevokeAll, Expire, End
  <1> QED
    BY <1>1, <1>2, SameFlown, Untouched

LEMMA RefreshFlown ==
  ASSUME TypeOK, \A x \in Page : Flown(x), NEW p \in Page,
         Load(p) \/ RefreshEnds(p) \/ RefreshUser(p)
  PROVE  \A x \in Page : Flown(x)'
  <1>1. CASE Load(p)
    <2>1. PICK r \in Req :
            /\ req[r] = Idle
            /\ req' = [q \in Req |-> IF q = r THEN New(p, "refresh", "find")
                                     ELSE IF req[q].page = p THEN Orphan(q)
                                     ELSE req[q]]
      BY <1>1 DEF Load
    <2>2. \A q \in Req : Orphan(q).page = None
      BY Orphaned
    <2>3. /\ New(p, "refresh", "find").page = p
          /\ New(p, "refresh", "find").kind = "refresh"
          /\ Idle.page = None
      BY DEF New, Idle
    <2>4. Flights(p)' = {r}
      BY <2>1, <2>2, <2>3, NoneAssumption DEF Flights, Of
    <2>5. \A x \in Page \ {p} : Flights(x)' = Flights(x)
      <3>1. ASSUME NEW x \in Page \ {p}, NEW q \in Req
            PROVE  (Of(q, x, "refresh"))' <=> Of(q, x, "refresh")
        BY <2>1, <2>2, <2>3, NoneAssumption DEF Of
      <3> QED
        BY <3>1 DEF Flights
    <2>6. \A x \in Page \ {p} : status'[x] = status[x] /\ call'[x] = call[x]
      BY <1>1 DEF Load, TypeOK
    <2>7. Flown(p)'
      BY <2>4 DEF Flown
    <2> QED
      BY <2>5, <2>6, <2>7, Elsewhere
  <1>2. ASSUME NEW r \in Req, Refreshed(p, r)
        PROVE  \A x \in Page : Flown(x)'
    <2>1. /\ Flights(p)' \subseteq Flights(p)
          /\ \A x \in Page \ {p} : Flights(x)' = Flights(x)
      BY <1>2, FreeFlights DEF Refreshed, Apply
    <2>2. /\ status'[p] = "authenticated"
          /\ \A x \in Page \ {p} : status'[x] = status[x]
      BY <1>2 DEF Refreshed, Apply, TypeOK
    <2>3. ~Awaits(p)' /\ \A x \in Page \ {p} : call'[x] = call[x]
      BY <1>2, <2>2, ReleasedAwaits DEF Refreshed
    <2>4. Flown(p)'
      BY <2>1, <2>3 DEF Flown
    <2> QED
      BY <2>1, <2>2, <2>3, <2>4, Elsewhere
  <1>3. ASSUME NEW r \in Req, NotRefreshed(p, r)
        PROVE  \A x \in Page : Flown(x)'
    <2>1. /\ Flights(p)' \subseteq Flights(p)
          /\ \A x \in Page \ {p} : Flights(x)' = Flights(x)
      BY <1>3, FreeFlights DEF NotRefreshed
    <2>2. /\ status'[p] # "loading"
          /\ \A x \in Page \ {p} : status'[x] = status[x]
      BY <1>3 DEF NotRefreshed, Failed, TypeOK
    <2>3. ~Awaits(p)' /\ \A x \in Page \ {p} : call'[x] = call[x]
      BY <1>3, <2>2, ReleasedAwaits DEF NotRefreshed, Failed
    <2>4. Flown(p)'
      BY <2>1, <2>3 DEF Flown
    <2> QED
      BY <2>1, <2>2, <2>3, <2>4, Elsewhere
  <1>4. CASE RefreshUser(p)
    <2>1. /\ \A x \in Page \ {p} : Flights(x)' = Flights(x)
          /\ Flights(p)' # {}
          /\ \A q, r \in Flights(p)' : q = r
      BY <1>4, ShareFlights DEF RefreshUser, Flown
    <2>2. Flown(p)'
      BY <2>1 DEF Flown
    <2> QED
      BY <1>4, <2>1, <2>2, Elsewhere DEF RefreshUser, pages
  <1> QED
    BY <1>1, <1>2, <1>3, <1>4 DEF RefreshEnds

LEMMA HeadersFlown ==
  ASSUME TypeOK, \A x \in Page : Flown(x), NEW p \in Page, NEW r \in Req,
         NEW kind \in Kind, Headers(p, r, kind)
  PROVE  \A x \in Page : Flown(x)'
  <1>1. \A x \in Page : Flights(x)' = Flights(x)
    BY ReplyFlights DEF Headers
  <1> QED
    BY <1>1, SameFlown, Untouched DEF Headers, pages

LEMMA CallFlown ==
  ASSUME TypeOK, \A x \in Page : Flown(x), NEW p \in Page, NEW c \in Call,
         CallSend(p, c) \/ CallHeaders(p, c) \/ CallEnds(p, c)
  PROVE  \A x \in Page : Flown(x)'
  <1>1. c \in Op
    BY DEF Op
  <1>2. CASE CallSend(p, c) \/ CallHeaders(p, c) \/ CallOver(p, c) \/ CallDone(p, c)
    <2>1. /\ Awaits(p)' => Awaits(p)
          /\ \A x \in Page \ {p} : status'[x] = status[x] /\ call'[x] = call[x]
      BY <1>1, <1>2, SetAwaits DEF CallSend, CallHeaders, CallOver, CallDone
    <2>2. \A x \in Page : Flights(x)' = Flights(x)
      BY <1>2 DEF CallSend, CallHeaders, CallOver, CallDone, Flights, Of
    <2> QED
      BY <2>1, <2>2, SameFlown, Elsewhere
  <1>3. CASE CallRefused(p, c)
    <2>1. /\ \A x \in Page \ {p} : Flights(x)' = Flights(x)
          /\ Flights(p)' # {}
          /\ \A q, r \in Flights(p)' : q = r
      BY <1>3, ShareFlights DEF CallRefused, Flown
    <2>2. Flown(p)'
      BY <2>1 DEF Flown
    <2>3. \A x \in Page \ {p} : status'[x] = status[x] /\ call'[x] = call[x]
      BY <1>3 DEF CallRefused, Set, TypeOK
    <2> QED
      BY <2>1, <2>2, <2>3, Elsewhere
  <1> QED
    BY <1>2, <1>3 DEF CallEnds

LEMMA OwnFlown ==
  ASSUME TypeOK, \A x \in Page : Flown(x), NEW p \in Page,
         \/ Login(p) \/ Logout(p)
         \/ \E kind \in {"login", "logout"} : Retry(p, kind) \/ OwnEnds(p, kind)
  PROVE  \A x \in Page : Flown(x)'
  <1>1. ASSUME Login(p) \/ Logout(p) \/ \E kind \in {"login", "logout"} : Retry(p, kind)
        PROVE  \A x \in Page : Flown(x)'
    <2>1. \A x \in Page : Flights(x)' = Flights(x)
      BY <1>1, SendFlights DEF Login, Logout, Retry
    <2>2. /\ Awaits(p)' => Awaits(p)
          /\ \A x \in Page \ {p} : status'[x] = status[x] /\ call'[x] = call[x]
      <3>1. CASE Login(p) \/ Logout(p)
        BY <3>1, SetAwaits DEF Login, Logout, Op
      <3>2. CASE \E kind \in {"login", "logout"} : Retry(p, kind)
        BY <3>2, Untouched DEF Retry, pages
      <3> QED
        BY <1>1, <3>1, <3>2
    <2> QED
      BY <2>1, <2>2, SameFlown, Elsewhere
  <1>2. ASSUME NEW r \in Req, LoggedIn(p, r)
        PROVE  \A x \in Page : Flown(x)'
    <2>1. \A x \in Page : Flights(x)' = Flights(x)
      BY <1>2, FreeFlights DEF LoggedIn, Apply
    <2>2. /\ status'[p] = "authenticated"
          /\ \A x \in Page \ {p} : status'[x] = status[x]
      BY <1>2 DEF LoggedIn, Apply, TypeOK
    <2>3. /\ Awaits(p)' => Awaits(p)
          /\ \A x \in Page \ {p} : call'[x] = call[x]
      BY <1>2, <2>2, SetAwaits DEF LoggedIn, Op
    <2> QED
      BY <2>1, <2>2, <2>3, SameFlown, Elsewhere
  <1>3. ASSUME NEW r \in Req, LoggedOut(p, r)
        PROVE  \A x \in Page : Flown(x)'
    <2>1. \A x \in Page : Flights(x)' = Flights(x)
      BY <1>3, FreeFlights DEF LoggedOut
    <2> QED
      BY <1>3, <2>1, OverAwaits, SameFlown, Elsewhere DEF LoggedOut
  <1>4. ASSUME NEW kind \in {"login", "logout"}, Unanswered(p, kind)
        PROVE  \A x \in Page : Flown(x)'
    <2>1. \A x \in Page : Flights(x)' = Flights(x)
      <3>1. UNCHANGED req => \A x \in Page : Flights(x)' = Flights(x)
        BY DEF Flights, Of
      <3> QED
        BY <1>4, <3>1, FreeFlights DEF Unanswered
    <2> QED
      BY <1>4, <2>1, OverAwaits, SameFlown, Elsewhere DEF Unanswered
  <1>5. ASSUME NEW kind \in {"login", "logout"}, NEW r \in Req, Refused(p, kind, r)
        PROVE  \A x \in Page : Flown(x)'
    <2>1. \A x \in Page \ {p} : status'[x] = status[x] /\ call'[x] = call[x]
      BY <1>5 DEF Refused, Set, TypeOK
    <2>2. CASE Refreshing(p)
      <3>1. Free(r)
        BY <1>5, <2>2 DEF Refused, Free
      <3>2. \A x \in Page : Flights(x)' = Flights(x)
        BY <1>5, <3>1, FreeFlights DEF Refused
      <3>3. Flights(p) # {}
        BY <2>2 DEF Refreshing, Flights
      <3>4. Flown(p)'
        BY <3>2, <3>3 DEF Flown
      <3> QED
        BY <2>1, <3>2, <3>4, Elsewhere
    <2>3. CASE ~Refreshing(p)
      <3>1. req' = [req EXCEPT ![r] = New(p, "refresh", "find")] /\ Of(r, p, kind)
        BY <1>5, <2>3 DEF Refused
      <3>2. /\ New(p, "refresh", "find").page = p
            /\ New(p, "refresh", "find").kind = "refresh"
        BY DEF New
      <3>3. Flights(p)' = {r}
        BY <2>3, <3>1, <3>2 DEF Flights, Of, Refreshing, TypeOK
      <3>4. \A x \in Page \ {p} : Flights(x)' = Flights(x)
        BY <3>1, <3>2, OtherFlights DEF Of
      <3>5. Flown(p)'
        BY <3>3 DEF Flown
      <3> QED
        BY <2>1, <3>4, <3>5, Elsewhere
    <2> QED
      BY <2>2, <2>3
  <1> QED
    BY <1>1, <1>2, <1>3, <1>4, <1>5 DEF OwnEnds

LEMMA AlwaysFlown == Spec => [](TypeOK /\ \A p \in Page : Flown(p))
  <1> DEFINE Inv == TypeOK /\ \A p \in Page : Flown(p)
  <1>1. Init => Inv
    BY InitTyped, InitFlown
  <1>2. Inv /\ [Next]_vars => Inv'
    <2>1. ASSUME Inv, UNCHANGED vars
          PROVE  \A p \in Page : Flown(p)'
      BY <2>1 DEF Flown, Flights, Of, Awaits, SomeWait, Waiting, vars
    <2>2. ASSUME Inv, Next
          PROVE  \A p \in Page : Flown(p)'
      <3>1. CASE Server
        BY <2>2, <3>1, ServerFlown
      <3>2. ASSUME NEW p \in Page, Client(p)
            PROVE  \A x \in Page : Flown(x)'
        BY <2>2, <3>2, RefreshFlown, HeadersFlown, CallFlown, OwnFlown DEF Client
      <3> QED
        BY <2>2, <3>1, <3>2 DEF Next
    <2> QED
      BY <2>1, <2>2, NextTyped
  <1> QED
    BY <1>1, <1>2, PTL DEF Spec

\* Whoever awaits a refresh is woken: the bootstrap, a call, a login or a
\* logout that awaits one always finds it in flight, its own or another's.
THEOREM Awaited == Spec => []AwaitedIsInFlight
  <1>1. (TypeOK /\ \A p \in Page : Flown(p)) => AwaitedIsInFlight
    BY FlownEach
  <1> QED
    BY <1>1, AlwaysFlown, PTL

\* attemptRefresh keeps its promise of one network call at a time, for any
\* number of calls of the page refused, given up and retried meanwhile.
THEOREM Single == Spec => []SingleFlight
  <1>1. (TypeOK /\ \A p \in Page : Flown(p)) => SingleFlight
    BY FlownEach
  <1> QED
    BY <1>1, AlwaysFlown, PTL
=============================================================================
